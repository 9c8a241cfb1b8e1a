------------------------- MODULE Replication_proofs -------------------------
(***************************************************************************)
(* Proofs about Replication, for any number of clients, entities,          *)
(* components and filters: the type invariant, the inductive invariant     *)
(* DeliveryInv on the ticks of the messages on their way, and the two      *)
(* properties it gives, CausalDelivery and ConfirmedTickAdvances.          *)
(***************************************************************************)
EXTENDS Replication, FiniteSetTheorems, WellFoundedInduction, TLAPS

-----------------------------------------------------------------------------
\* Maxima.  The CHOOSE of AckedTick and of Newest have a value because the
\* ticks they choose from are bounded by the server's tick.

\* A bounded set of naturals with an element has a greatest element.
LEMMA MaxExists ==
  ASSUME NEW S \in SUBSET Nat, NEW b \in Nat, \A x \in S : x <= b, S # {}
  PROVE  \E x \in S : \A y \in S : y <= x
<1> DEFINE T == {b - x : x \in S}
<1>0. \A x \in S : b - x \in Nat
  OBVIOUS
<1>1. T \subseteq Nat /\ T # {}
  BY <1>0
<1>2. PICK t \in T : \A y \in T : <<y, t>> \notin OpToRel(<, Nat)
  BY <1>1, WFMin, NatLessThanWellFounded
<1>3. PICK x \in S : t = b - x
  OBVIOUS
<1>4. ASSUME NEW y \in S PROVE y <= x
  <2>1. b - y \in T /\ b - y \in Nat
    BY <1>1
  <2>2. ~(b - y < t)
    BY <1>1, <1>2, <2>1 DEF OpToRel
  <2> QED
    BY <1>3, <2>2
<1> QED
  BY <1>4

\* Newest returns one of the messages, and none is newer.
LEMMA NewestIsMax ==
  ASSUME NEW ms \in SUBSET Mutate, NEW b \in Nat, \A m \in ms : m.tick <= b, ms # {}
  PROVE  Newest(ms) \in ms /\ \A n \in ms : n.tick <= Newest(ms).tick
<1> DEFINE T == {m.tick : m \in ms}
<1>1. T \in SUBSET Nat /\ T # {} /\ \A x \in T : x <= b
  BY DEF Mutate
<1>2. PICK t \in T : \A y \in T : y <= t
  BY <1>1, MaxExists
<1>3. PICK m \in ms : m.tick = t
  OBVIOUS
<1>4. \A n \in ms : n.tick <= m.tick
  BY <1>2, <1>3
<1> QED
  BY <1>4 DEF Newest

-----------------------------------------------------------------------------
\* Types of the stages of a send.

LEMMA PeriodType == DefaultPeriod \in Periods
  BY ReplicationAssumption DEF DefaultPeriod

LEMMA ShapeTypes ==
  /\ NoStamps \in Stamps
  /\ NoTicks \in EntityTicks
  /\ NoCopy \in Copy
  BY DEF NoStamps, Stamps, NoTicks, EntityTicks, NoCopy, Copy

\* The ticks that the stages leave for an entity.
LEMMA StageTypes ==
  ASSUME TypeOK, NEW cl \in Clients, NEW e \in Entities
  PROVE  /\ AfterDespawns(cl, e) \in EntityTicks
         /\ Removals(cl, e) \subseteq Components
         /\ AfterRemovals(cl, e) \in EntityTicks
         /\ Present(e) \subseteq Components
         /\ Mutated(cl, e) \subseteq Components
         /\ Inserted(cl, e) \subseteq Components
         /\ AfterChanges(cl, e) \in EntityTicks
<1>1. ticks[cl][e] \in EntityTicks
  BY DEF TypeOK
<1>2. AfterDespawns(cl, e) \in EntityTicks
  BY <1>1, ShapeTypes DEF AfterDespawns
<1>3. Removals(cl, e) \subseteq Components
  BY <1>2 DEF TypeOK, Removals, BufferedRemovals, LostComponents, EntityTicks
<1>4. AfterRemovals(cl, e) \in EntityTicks
  BY <1>2 DEF AfterRemovals, EntityTicks
<1>5. Present(e) \subseteq Components
  BY DEF Present
<1>6. Mutated(cl, e) \subseteq Components /\ Inserted(cl, e) \subseteq Components
  BY <1>5 DEF Mutated, Inserted
<1>7. Now \in Nat
  BY DEF TypeOK, Now
<1>8. AfterChanges(cl, e) \in EntityTicks
  BY <1>4, <1>6, <1>7 DEF AfterChanges, EntityTicks
<1> QED
  BY <1>2, <1>3, <1>4, <1>5, <1>6, <1>8

\* The values of a message are stamps of the world, none later than this send.
LEMMA WrittenType ==
  ASSUME TypeOK, StampsBounded, NEW e \in Entities, NEW cs
  PROVE  /\ Written(e, cs) \in Stamps
         /\ \A c \in Components : Written(e, cs)[c] <= Now
<1>1. world[e] \in [Components -> Nat]
  BY DEF TypeOK, Stamps
<1>2. Now \in Nat /\ \A c \in Components : world[e][c] <= Now
  BY DEF TypeOK, StampsBounded, Now
<1> QED
  BY <1>1, <1>2 DEF Written, Stamps

\* The update message of a send.
LEMMA UpdateMessageType ==
  ASSUME TypeOK, StampsBounded, NEW cl \in Clients
  PROVE  /\ UpdateMessage(cl) \in Update
         /\ UpdateMessage(cl).tick = Now
         /\ \A e \in Entities, c \in Components : UpdateMessage(cl).values[e][c] <= Now
<1> DEFINE u == UpdateMessage(cl)
<1>1. Now \in Nat
  BY DEF TypeOK, Now
<1>2. u.removals \in [Entities -> SUBSET Components]
  BY StageTypes DEF UpdateMessage
<1>3. \A e \in Entities : /\ u.values[e] \in Stamps
                          /\ \A c \in Components : u.values[e][c] <= Now
  BY <1>1, WrittenType, ShapeTypes DEF UpdateMessage, NoStamps
<1>4. u.values \in [Entities -> Stamps]
  BY <1>3 DEF UpdateMessage
<1>5. u \in Update
  BY <1>1, <1>2, <1>4 DEF UpdateMessage, Update
<1> QED
  BY <1>3, <1>5 DEF UpdateMessage

LEMMA SentUpdateTickType ==
  ASSUME TypeOK, NEW cl \in Clients
  PROVE  /\ SentUpdateTick(cl) \in Nat
         /\ SentUpdateTick(cl) = Now \/ SentUpdateTick(cl) = updateTick[cl]
         /\ ~IsEmptyUpdate(UpdateMessage(cl)) => SentUpdateTick(cl) = Now
  BY DEF TypeOK, SentUpdateTick, Now

LEMMA IndexType ==
  ASSUME NEW i \in Nat
  PROVE  i % IndexMod \in 0 .. IndexMod - 1
  BY ReplicationAssumption

LEMMA PacketsType ==
  ASSUME NEW cl, NEW packet \in [Entities -> 1 .. MaxPackets], NEW T \in SUBSET UsedPackets(cl, packet)
  PROVE  Cardinality(T) \in Nat
<1>1. UsedPackets(cl, packet) \subseteq 1 .. MaxPackets
  BY DEF UsedPackets, MutatedEntities
<1>2. IsFiniteSet(1 .. MaxPackets)
  BY ReplicationAssumption, FS_Interval
<1>3. IsFiniteSet(T)
  BY <1>1, <1>2, FS_Subset
<1> QED
  BY <1>3, FS_CardinalityType

\* The mutate messages of a send.
LEMMA MutateMessagesType ==
  ASSUME TypeOK, StampsBounded, NEW cl \in Clients, NEW packet \in [Entities -> 1 .. MaxPackets],
         NEW m \in MutateMessages(cl, packet)
  PROVE  /\ m \in Mutate
         /\ m.tick = Now /\ m.updateTick = SentUpdateTick(cl)
         /\ \A e \in Entities, c \in Components : m.values[e][c] <= Now
<1>1. PICK p \in UsedPackets(cl, packet) :
        m = [tick |-> Now, updateTick |-> SentUpdateTick(cl),
             index |-> PacketIndex(cl, packet, p),
             values |-> [e \in Entities |->
                  IF e \in MutatedEntities(cl) /\ packet[e] = p
                  THEN Written(e, Mutated(cl, e)) ELSE NoStamps]]
  BY DEF MutateMessages
<1>2. Now \in Nat /\ SentUpdateTick(cl) \in Nat
  BY SentUpdateTickType DEF TypeOK, Now
<1>3. PacketIndex(cl, packet, p) \in 0 .. IndexMod - 1
  <2> DEFINE T == {q \in UsedPackets(cl, packet) : q < p}
  <2>1. Cardinality(T) \in Nat
    BY PacketsType
  <2>2. mutateIndex[cl] + Cardinality(T) \in Nat
    BY <2>1 DEF TypeOK
  <2> QED
    BY <2>2, IndexType DEF PacketIndex
<1>4. \A e \in Entities : /\ m.values[e] \in Stamps
                          /\ \A c \in Components : m.values[e][c] <= Now
  BY <1>1, <1>2, WrittenType, ShapeTypes DEF NoStamps
<1>5. m.values \in [Entities -> Stamps]
  BY <1>1, <1>4
<1> QED
  BY <1>1, <1>2, <1>3, <1>4, <1>5 DEF Mutate

-----------------------------------------------------------------------------
\* The inductive invariant.  One lemma per group of actions.

LEMMA InitDelivery == Init => DeliveryInv
<1> SUFFICES ASSUME Init PROVE DeliveryInv
  OBVIOUS
<1>1. TypeOK
  <2>1. /\ world \in [Entities -> Stamps]
        /\ ticks \in [Clients -> [Entities -> EntityTicks]]
        /\ priority \in [Clients -> [Entities -> Periods]]
        /\ replica \in [Clients -> [Entities -> Copy]]
    BY ShapeTypes, PeriodType DEF Init
  <2>2. /\ updates \in [Clients -> Seq(Update)]
        /\ acks \in [Clients -> Seq(SUBSET (0 .. IndexMod - 1))]
        /\ mutateIndex \in [Clients -> 0 .. IndexMod - 1]
    BY ReplicationAssumption DEF Init
  <2> QED
    BY <2>1, <2>2 DEF Init, TypeOK
<1>2. StampsBounded
  BY DEF Init, StampsBounded, NoStamps, NoCopy
<1>3. UpdatesInOrder /\ MutationsWait /\ HistoryInOrder
  BY DEF Init, UpdatesInOrder, MutationsWait, HistoryInOrder, NoCopy
<1> QED
  BY <1>1, <1>2, <1>3 DEF DeliveryInv

\* The parts on ticks depend only on the variables they mention.
LEMMA OrderUnchanged ==
  ASSUME UpdatesInOrder, MutationsWait, HistoryInOrder,
         UNCHANGED <<serverTick, connected, updateTick, channelVars, clientUp, clientVars>>
  PROVE  UpdatesInOrder' /\ MutationsWait' /\ HistoryInOrder'
  BY DEF UpdatesInOrder, MutationsWait, HistoryInOrder, channelVars, clientVars

\* Changes of the world, of visibility and of priorities.
LEMMA ChangeKeepsDelivery ==
  ASSUME DeliveryInv, NEW e \in Entities,
         \/ Spawn(e) \/ Despawn(e) \/ Pause(e)
         \/ \E c \in Components : Write(e, c) \/ Remove(e, c)
  PROVE  DeliveryInv'
<1> USE DEF DeliveryInv
<1>1. UpdatesInOrder' /\ MutationsWait' /\ HistoryInOrder'
  <2>1. UNCHANGED <<serverTick, connected, updateTick, channelVars, clientUp, clientVars>>
    BY DEF Spawn, Write, Remove, Despawn, Pause, sentVars
  <2> QED
    BY <2>1, OrderUnchanged
<1>2. TypeOK'
  <2> USE DEF TypeOK, worldVars, ackVars, sentVars, visibilityVars, channelVars, clientVars
  <2>1. CASE Spawn(e)
    BY <2>1 DEF Spawn
  <2>2. ASSUME NEW c \in Components, Write(e, c) PROVE TypeOK'
    BY <2>2 DEF Write, Stamps
  <2>3. ASSUME NEW c \in Components, Remove(e, c) PROVE TypeOK'
    BY <2>3 DEF Remove, Stamps
  <2>4. CASE Despawn(e)
    <3>1. /\ status' \in [Entities -> {"unborn", "replicated", "paused", "despawned"}]
          /\ world' \in [Entities -> Stamps]
          /\ despawnBuffer' \subseteq Entities
      BY <2>4, ShapeTypes DEF Despawn
    <3>2. ticks' \in [Clients -> [Entities -> EntityTicks]]
      <4>1. \A cl \in Clients : [ticks[cl] EXCEPT ![e] = NoTicks] \in [Entities -> EntityTicks]
        BY ShapeTypes
      <4>2. \/ ticks' = ticks
            \/ ticks' = [cl \in Clients |-> [ticks[cl] EXCEPT ![e] = NoTicks]]
        BY <2>4 DEF Despawn
      <4>3. CASE ticks' = ticks
        BY <4>3
      <4>4. CASE ticks' = [cl \in Clients |-> [ticks[cl] EXCEPT ![e] = NoTicks]]
        BY <4>1, <4>4
      <4> QED
        BY <4>2, <4>3, <4>4
    <3> QED
      BY <2>4, <3>1, <3>2 DEF Despawn
  <2>5. CASE Pause(e)
    BY <2>5 DEF Pause
  <2> QED
    BY <2>1, <2>2, <2>3, <2>4, <2>5
<1>3. StampsBounded'
  <2>1. /\ \A f \in Entities, d \in Components : world'[f][d] <= serverTick + 1
        /\ UNCHANGED <<serverTick, mutations, mutates, buffered, updates, replica>>
    <3> USE DEF TypeOK, Stamps, StampsBounded, ackVars, channelVars, clientVars
    <3>1. CASE Spawn(e) \/ Pause(e)
      BY <3>1 DEF Spawn, Pause
    <3>2. CASE \E c \in Components : Write(e, c)
      BY <3>2 DEF Write
    <3>3. CASE \E c \in Components : Remove(e, c)
      BY <3>3 DEF Remove
    <3>4. CASE Despawn(e)
      BY <3>4 DEF Despawn, NoStamps
    <3> QED
      BY <3>1, <3>2, <3>3, <3>4
  <2> QED
    BY <2>1 DEF StampsBounded
<1> QED
  BY <1>1, <1>2, <1>3

LEMMA SettingKeepsDelivery ==
  ASSUME DeliveryInv, NEW cl \in Clients, NEW e \in Entities,
         \/ \E f \in Filters : Hide(cl, e, f) \/ Show(cl, e, f)
         \/ \E p \in Periods : SetPriority(cl, e, p)
  PROVE  DeliveryInv'
<1> USE DEF DeliveryInv
<1>1. /\ UNCHANGED <<serverTick, connected, updateTick, channelVars, clientUp, clientVars>>
      /\ UNCHANGED <<world, mutations>>
  BY DEF Hide, Show, SetPriority, sentVars, worldVars, ackVars
<1>2. UpdatesInOrder' /\ MutationsWait' /\ HistoryInOrder'
  BY <1>1, OrderUnchanged
<1>3. StampsBounded'
  BY <1>1 DEF StampsBounded, channelVars, clientVars
<1>4. TypeOK'
  <2> USE DEF TypeOK, worldVars, ackVars, sentVars, visibilityVars, channelVars, clientVars
  <2>1. CASE \E f \in Filters : Hide(cl, e, f)
    BY <2>1 DEF Hide
  <2>2. CASE \E f \in Filters : Show(cl, e, f)
    BY <2>2 DEF Show
  <2>3. CASE \E p \in Periods : SetPriority(cl, e, p)
    BY <2>3 DEF SetPriority
  <2> QED
    BY <2>1, <2>2, <2>3
<1> QED
  BY <1>2, <1>3, <1>4

\* The server's side of acknowledgements, and the panic.
LEMMA AckedTickType ==
  ASSUME TypeOK, StampsBounded, NEW cl \in Clients, NEW e \in Entities,
         NEW acked \in SUBSET mutations[cl]
  PROVE  AckedTick(cl, e, acked) \in Nat
<1> DEFINE newer == {i.tick : i \in {j \in acked : e \in j.entities /\ j.tick > ticks[cl][e].tick}}
<1>1. ticks[cl][e].tick \in Nat
  BY DEF TypeOK, EntityTicks
<1>2. newer \in SUBSET Nat /\ \A t \in newer : t <= serverTick
  BY DEF TypeOK, StampsBounded, MutateInfo
<1>3. CASE newer = {}
  BY <1>1, <1>3 DEF AckedTick
<1>4. CASE newer # {}
  <2>1. serverTick \in Nat
    BY DEF TypeOK
  <2>2. \E t \in newer : \A u \in newer : u <= t
    BY <1>2, <1>4, <2>1, MaxExists
  <2>3. (CHOOSE t \in newer : \A u \in newer : u <= t) \in newer
    BY <2>2
  <2> QED
    BY <1>1, <1>2, <2>3 DEF AckedTick
<1> QED
  BY <1>3, <1>4

LEMMA AckKeepsDelivery ==
  ASSUME DeliveryInv, NEW cl \in Clients, NEW t, ReceiveAcks(cl) \/ CleanupAcks(cl, t)
  PROVE  DeliveryInv'
<1> USE DEF DeliveryInv
<1>1. /\ UNCHANGED <<serverTick, connected, updateTick, updates, mutates, clientUp, clientVars, world>>
      /\ \A other \in Clients : mutations'[other] \subseteq mutations[other]
  <2>1. UNCHANGED <<serverTick, connected, updateTick, updates, mutates, clientUp, clientVars, world>>
    BY DEF ReceiveAcks, CleanupAcks, sentVars, worldVars, channelVars
  <2>2. \/ \E S : mutations' = [mutations EXCEPT ![cl] = @ \ S]
        \/ mutations' = [mutations EXCEPT ![cl] = {i \in @ : i.tick > t}]
    BY DEF ReceiveAcks, CleanupAcks
  <2>3. mutations \in [Clients -> SUBSET MutateInfo]
    BY DEF TypeOK
  <2> QED
    BY <2>1, <2>2, <2>3
<1>2. UpdatesInOrder' /\ MutationsWait' /\ HistoryInOrder'
  BY <1>1 DEF UpdatesInOrder, MutationsWait, HistoryInOrder, clientVars
<1>3. StampsBounded'
  BY <1>1 DEF StampsBounded, clientVars
<1>4. TypeOK'
  <2>1. CASE ReceiveAcks(cl)
    <3>0. \A e \in Entities, acked \in SUBSET mutations[cl] : AckedTick(cl, e, acked) \in Nat
      BY AckedTickType
    <3>1. \A e \in Entities, acked \in SUBSET mutations[cl] :
            [ticks[cl][e] EXCEPT !.tick = AckedTick(cl, e, acked)] \in EntityTicks
      <4>1. \A e \in Entities : ticks[cl][e] \in EntityTicks
        BY DEF TypeOK
      <4>2. \A x \in EntityTicks, n \in Nat : [x EXCEPT !.tick = n] \in EntityTicks
        BY DEF EntityTicks
      <4> QED
        BY <3>0, <4>1, <4>2
    <3>2. ticks' \in [Clients -> [Entities -> EntityTicks]]
      BY <2>1, <3>1 DEF ReceiveAcks, TypeOK
    <3>3. mutations' \in [Clients -> SUBSET MutateInfo]
      BY <2>1 DEF ReceiveAcks, TypeOK
    <3>4. acks' \in [Clients -> Seq(SUBSET (0 .. IndexMod - 1))]
      BY <2>1 DEF ReceiveAcks, TypeOK
    <3> QED
      BY <2>1, <3>2, <3>3, <3>4
      DEF ReceiveAcks, TypeOK, worldVars, sentVars, visibilityVars, clientVars
  <2>2. CASE CleanupAcks(cl, t)
    BY <2>2 DEF CleanupAcks, TypeOK, worldVars, ackVars, sentVars, visibilityVars, channelVars, clientVars
  <2> QED
    BY <2>1, <2>2
<1> QED
  BY <1>2, <1>3, <1>4

LEMMA PanicKeepsDelivery ==
  ASSUME DeliveryInv, PanicInSend
  PROVE  DeliveryInv'
<1>1. /\ UNCHANGED <<serverTick, worldVars, connected, ackVars, sentVars, visibilityVars, priority>>
      /\ UNCHANGED <<channelVars, clientUp, clientVars>>
      /\ panicked' = TRUE
  BY DEF PanicInSend
<1> QED
  BY <1>1 DEF worldVars, ackVars, sentVars, visibilityVars, channelVars, clientVars,
     DeliveryInv, TypeOK, StampsBounded, UpdatesInOrder, MutationsWait, HistoryInOrder

\* The client's side.  What a frame makes of a copy is typed, and its history
\* moves forward to the tick of one of the applied messages.
LEMMA ReadyMoves ==
  ASSUME DeliveryInv, NEW cl \in Clients, NEW arrived \in SUBSET mutates[cl], NEW e \in Entities
  PROVE  LET ready == Ready(cl, buffered[cl] \cup arrived)
             copy == ApplyMutations(ready, e, replica[cl][e])
         IN  /\ copy \in Copy
             /\ copy.history <= serverTick
             /\ \A c \in Components : copy.values[c] <= copy.history
             /\ \/ copy = replica[cl][e]
                \/ \E m \in ready : copy.history = m.tick /\ m.tick > replica[cl][e].history
<1> DEFINE ready == Ready(cl, buffered[cl] \cup arrived)
           old == replica[cl][e]
           copy == ApplyMutations(ready, e, old)
           newer == {m \in ready : Carries(m, e) /\ m.tick > old.history}
<1>1. /\ ready \in SUBSET Mutate /\ serverTick \in Nat
      /\ \A m \in ready : /\ m.tick <= serverTick
                           /\ \A c \in Components : m.values[e][c] <= m.tick
  BY DEF DeliveryInv, TypeOK, StampsBounded, Ready
<1>2. /\ old \in Copy /\ old.history <= serverTick
      /\ \A c \in Components : old.values[c] <= old.history
  BY DEF DeliveryInv, TypeOK, StampsBounded, HistoryInOrder
<1>3. CASE old.history = 0 \/ newer = {}
  <2>1. copy = old
    BY <1>3 DEF ApplyMutations
  <2> QED
    BY <1>2, <2>1
<1>4. CASE ~(old.history = 0 \/ newer = {})
  <2> DEFINE m == Newest(newer)
  <2>1. newer \in SUBSET Mutate /\ newer # {} /\ \A n \in newer : n.tick <= serverTick
    BY <1>1, <1>4
  <2>2. m \in newer
    BY <1>1, <2>1, NewestIsMax
  <2>3. copy = [history |-> m.tick, values |-> Overwritten(old.values, m, e)]
    BY <1>4 DEF ApplyMutations
  <2>4. /\ m \in Mutate /\ m \in ready /\ m.tick > old.history /\ m.tick <= serverTick
        /\ \A c \in Components : m.values[e][c] <= m.tick
    BY <1>1, <2>2
  <2> HIDE DEF old, newer, m
  <2>5. m.tick \in Nat /\ m.values[e] \in Stamps
    BY <2>4 DEF Mutate
  <2>6. /\ Overwritten(old.values, m, e) \in Stamps
        /\ \A c \in Components : Overwritten(old.values, m, e)[c] <= m.tick
    BY <1>2, <2>4, <2>5 DEF Overwritten, Stamps, Copy
  <2>7. copy \in Copy /\ copy.history = m.tick /\ copy.values = Overwritten(old.values, m, e)
    BY <2>3, <2>5, <2>6 DEF Copy
  <2>8. \E n \in ready : copy.history = n.tick /\ n.tick > old.history
    BY <2>4, <2>7
  <2> QED
    BY <2>4, <2>6, <2>7, <2>8 DEF old
<1> QED
  BY <1>3, <1>4

LEMMA MutationsKeepDelivery ==
  ASSUME DeliveryInv, NEW cl \in Clients, NEW arrived \in SUBSET mutates[cl],
         ReceiveMutations(cl, arrived)
  PROVE  DeliveryInv'
<1> DEFINE pending == buffered[cl] \cup arrived
           ready == Ready(cl, pending)
           copy(e) == ApplyMutations(ready, e, replica[cl][e])
<1> USE DEF DeliveryInv
<1>1. pending \in SUBSET Mutate /\ ready \subseteq pending
  BY DEF TypeOK, Ready
<1>2. ASSUME NEW e \in Entities
      PROVE  /\ copy(e) \in Copy
             /\ copy(e).history <= serverTick
             /\ \A c \in Components : copy(e).values[c] <= copy(e).history
             /\ \/ copy(e) = replica[cl][e]
                \/ \E m \in ready : copy(e).history = m.tick /\ m.tick > replica[cl][e].history
  BY ReadyMoves
<1> HIDE DEF copy
<1>3. /\ replica' = [replica EXCEPT ![cl] = [e \in Entities |-> copy(e)]]
      /\ buffered' = [buffered EXCEPT ![cl] = pending \ ready]
      /\ mutates' = [mutates EXCEPT ![cl] = @ \ arrived]
  BY DEF ReceiveMutations, copy
<1>4. /\ UNCHANGED <<serverTick, connected, updateTick, updates, serverUpdateTick, clientUp>>
      /\ UNCHANGED <<world, mutations>>
  BY DEF ReceiveMutations, worldVars, ackVars, sentVars
<1>5. /\ \A other \in Clients : /\ mutates'[other] \cup buffered'[other]
                                     \subseteq mutates[other] \cup buffered[other]
                                /\ buffered'[other] \subseteq buffered[other] \cup mutates[other]
      /\ \A other \in Clients, e \in Entities :
           replica'[other][e] = IF other = cl THEN copy(e) ELSE replica[other][e]
  BY <1>1, <1>3 DEF TypeOK
<1>6. TypeOK'
  <2>1. replica' \in [Clients -> [Entities -> Copy]]
    BY <1>2, <1>3 DEF TypeOK
  <2>2. /\ buffered' \in [Clients -> SUBSET Mutate]
        /\ mutates' \in [Clients -> SUBSET Mutate]
    BY <1>1, <1>3 DEF TypeOK
  <2>3. acks' \in [Clients -> Seq(SUBSET (0 .. IndexMod - 1))]
    <3>1. {m.index : m \in arrived} \in SUBSET (0 .. IndexMod - 1)
      BY DEF TypeOK, Mutate
    <3> QED
      BY <3>1 DEF ReceiveMutations, TypeOK
  <2> QED
    BY <2>1, <2>2, <2>3
    DEF ReceiveMutations, TypeOK, worldVars, ackVars, sentVars, visibilityVars
<1>7. StampsBounded'
  BY <1>2, <1>4, <1>5 DEF StampsBounded
<1>8. UpdatesInOrder' /\ MutationsWait'
  BY <1>4, <1>5 DEF UpdatesInOrder, MutationsWait
<1>9. HistoryInOrder'
  <2>1. ASSUME NEW e \in Entities, NEW n \in DOMAIN updates[cl]
        PROVE  copy(e).history < updates[cl][n].tick
    <3>1. CASE copy(e) = replica[cl][e]
      BY <3>1 DEF HistoryInOrder
    <3>2. CASE \E m \in ready : copy(e).history = m.tick /\ m.tick > replica[cl][e].history
      <4>1. PICK m \in ready : copy(e).history = m.tick
        BY <3>2
      <4>2. m \in Mutate /\ m.updateTick <= serverUpdateTick[cl] /\ m \in mutates[cl] \cup buffered[cl]
        BY <1>1 DEF Ready
      <4>3. updates[cl][n].tick <= m.updateTick \/ m.tick < updates[cl][n].tick
        BY <4>2 DEF MutationsWait
      <4>4. serverUpdateTick[cl] < updates[cl][n].tick
        BY DEF UpdatesInOrder
      <4>5. updates[cl][n] \in Update
        BY DEF TypeOK
      <4>6. updates[cl][n].tick \in Nat /\ m.updateTick \in Nat /\ serverUpdateTick[cl] \in Nat
        BY <4>2, <4>5 DEF TypeOK, Update, Mutate
      <4> QED
        BY <4>1, <4>2, <4>3, <4>4, <4>6
    <3> QED
      BY <1>2, <3>1, <3>2
  <2> QED
    BY <1>2, <1>4, <1>5, <2>1 DEF HistoryInOrder
<1> QED
  BY <1>6, <1>7, <1>8, <1>9

LEMMA LossKeepsDelivery ==
  ASSUME DeliveryInv, NEW cl \in Clients, NEW m, LoseMutation(cl, m)
  PROVE  DeliveryInv'
<1> USE DEF DeliveryInv
<1>1. /\ UNCHANGED <<serverTick, connected, updateTick, updates, clientUp, clientVars>>
      /\ UNCHANGED <<world, mutations>>
      /\ mutates' = [mutates EXCEPT ![cl] = @ \ {m}]
  BY DEF LoseMutation, sentVars, worldVars, ackVars
<1>2. mutates' \in [Clients -> SUBSET Mutate] /\ \A other \in Clients : mutates'[other] \subseteq mutates[other]
  BY <1>1 DEF TypeOK
<1>3. TypeOK'
  BY <1>2 DEF LoseMutation, TypeOK, worldVars, ackVars, sentVars, visibilityVars, clientVars
<1>4. StampsBounded' /\ UpdatesInOrder' /\ MutationsWait' /\ HistoryInOrder'
  BY <1>1, <1>2 DEF StampsBounded, UpdatesInOrder, MutationsWait, HistoryInOrder, clientVars
<1> QED
  BY <1>3, <1>4

\* The client's side: an update message.
LEMMA ApplyUpdateMoves ==
  ASSUME NEW u \in Update, NEW e \in Entities, NEW copy \in Copy,
         \A c \in Components : u.values[e][c] <= u.tick /\ copy.values[c] <= copy.history,
         copy.history < u.tick
  PROVE  /\ ApplyUpdate(u, e, copy) \in Copy
         /\ ApplyUpdate(u, e, copy).history \in {0, copy.history, u.tick}
         /\ \A c \in Components :
              ApplyUpdate(u, e, copy).values[c] <= ApplyUpdate(u, e, copy).history
<1> DEFINE old == IF e \in u.despawns THEN NoCopy ELSE copy
           confirmed == e \in u.changed \/ (old.history > 0 /\ u.removals[e] # {})
           values == [c \in Components |->
                        IF u.values[e][c] > 0 THEN u.values[e][c]
                        ELSE IF c \in u.removals[e] THEN 0 ELSE old.values[c]]
<1>1. /\ old \in Copy /\ old.history \in {0, copy.history}
      /\ \A c \in Components : old.values[c] <= old.history
  BY ShapeTypes DEF NoCopy, NoStamps
<1>2. u.tick \in Nat /\ u.values[e] \in [Components -> Nat]
  BY DEF Update, Stamps
<1>3. old.values \in [Components -> Nat] /\ old.history \in Nat /\ copy.history \in Nat
  BY <1>1 DEF Copy, Stamps
<1>4. CASE confirmed
  <2>1. ApplyUpdate(u, e, copy) = [history |-> u.tick, values |-> values]
    BY <1>4 DEF ApplyUpdate
  <2> HIDE DEF old, confirmed
  <2>2. values \in Stamps /\ \A c \in Components : values[c] <= u.tick
    BY <1>1, <1>2, <1>3 DEF Stamps
  <2> QED
    BY <2>1, <2>2, <1>2 DEF Copy
<1>5. CASE ~confirmed
  <2>1. ApplyUpdate(u, e, copy) = old
    BY <1>5 DEF ApplyUpdate
  <2> QED
    BY <1>1, <2>1
<1> QED
  BY <1>4, <1>5

\* The first update message of the channel is newer than every copy.
LEMMA NextUpdate ==
  ASSUME DeliveryInv, NEW cl \in Clients, updates[cl] # <<>>
  PROVE  /\ Head(updates[cl]) \in Update
         /\ Head(updates[cl]) = updates[cl][1] /\ 1 \in DOMAIN updates[cl]
         /\ Head(updates[cl]).tick \in Nat
         /\ \A e \in Entities :
              /\ replica[cl][e] \in Copy
              /\ replica[cl][e].history < Head(updates[cl]).tick
              /\ \A c \in Components :
                   /\ Head(updates[cl]).values[e][c] <= Head(updates[cl]).tick
                   /\ replica[cl][e].values[c] <= replica[cl][e].history
<1>1. updates[cl] \in Seq(Update)
  BY DEF DeliveryInv, TypeOK
<1>2. Head(updates[cl]) \in Update /\ Head(updates[cl]) = updates[cl][1] /\ 1 \in DOMAIN updates[cl]
  BY <1>1
<1> QED
  BY <1>2 DEF DeliveryInv, TypeOK, Update, HistoryInOrder, StampsBounded

LEMMA UpdateKeepsDelivery ==
  ASSUME DeliveryInv, NEW cl \in Clients, ReceiveUpdate(cl)
  PROVE  DeliveryInv'
<1> DEFINE u == Head(updates[cl])
           copy(e) == ApplyUpdate(u, e, replica[cl][e])
<1> USE DEF DeliveryInv
<1>1. updates[cl] \in Seq(Update) /\ updates[cl] # <<>> /\ u \in Update /\ u.tick \in Nat
  BY NextUpdate DEF ReceiveUpdate, TypeOK
<1>2. ASSUME NEW e \in Entities
      PROVE  /\ copy(e) \in Copy
             /\ copy(e).history <= u.tick
             /\ \A c \in Components : copy(e).values[c] <= copy(e).history
  <2>1. /\ replica[cl][e] \in Copy /\ replica[cl][e].history < u.tick
        /\ \A c \in Components : /\ u.values[e][c] <= u.tick
                                 /\ replica[cl][e].values[c] <= replica[cl][e].history
    BY <1>1, NextUpdate
  <2>2. replica[cl][e].history \in Nat
    BY <2>1 DEF Copy
  <2> HIDE DEF u
  <2>3. /\ copy(e) \in Copy
        /\ copy(e).history \in {0, replica[cl][e].history, u.tick}
        /\ \A c \in Components : copy(e).values[c] <= copy(e).history
    BY <1>1, <2>1, ApplyUpdateMoves
  <2> QED
    BY <1>1, <2>1, <2>2, <2>3
<1>3. /\ replica' = [replica EXCEPT ![cl] = [e \in Entities |-> copy(e)]]
      /\ serverUpdateTick' = [serverUpdateTick EXCEPT ![cl] = u.tick]
      /\ updates' = [updates EXCEPT ![cl] = Tail(updates[cl])]
      /\ UNCHANGED <<serverTick, world, mutations, connected, updateTick, mutates, buffered, clientUp>>
  BY DEF ReceiveUpdate, worldVars, ackVars, sentVars
\* Every remaining message was one of the messages on their way, but the first.
<1>4. /\ Tail(updates[cl]) \in Seq(Update)
      /\ Len(Tail(updates[cl])) = Len(updates[cl]) - 1
      /\ \A n \in DOMAIN Tail(updates[cl]) :
           /\ n + 1 \in DOMAIN updates[cl] /\ n \in Nat
           /\ Tail(updates[cl])[n] = updates[cl][n + 1]
  BY <1>1
<1>5. \A n \in DOMAIN updates[cl] :
        /\ updates[cl][n].tick \in Nat /\ updates[cl][n].tick <= serverTick
        /\ n # 1 => u.tick < updates[cl][n].tick
  <2>1. u = updates[cl][1] /\ 1 \in DOMAIN updates[cl]
    BY <1>1, NextUpdate
  <2>2. \A n \in DOMAIN updates[cl] : n \in Nat /\ n >= 1 /\ updates[cl][n] \in Update
    BY <1>1
  <2>3. \A n \in DOMAIN updates[cl] : n # 1 => 1 \in 1 .. n - 1
    BY <2>2
  <2> QED
    BY <2>1, <2>2, <2>3 DEF UpdatesInOrder, Update
<1>6. /\ u.tick <= serverTick
      /\ \A n \in DOMAIN Tail(updates[cl]) :
           /\ u.tick < Tail(updates[cl])[n].tick
           /\ Tail(updates[cl])[n].tick \in Nat
  <2>1. u = updates[cl][1] /\ 1 \in DOMAIN updates[cl]
    BY <1>1, NextUpdate
  <2>2. \A n \in DOMAIN Tail(updates[cl]) : n + 1 # 1
    BY <1>4
  <2> QED
    BY <1>4, <1>5, <2>1, <2>2
<1> HIDE DEF u, copy
<1>7. \A other \in Clients :
        /\ serverUpdateTick'[other] = IF other = cl THEN u.tick ELSE serverUpdateTick[other]
        /\ updates'[other] = IF other = cl THEN Tail(updates[cl]) ELSE updates[other]
        /\ \A e \in Entities :
             replica'[other][e] = IF other = cl THEN copy(e) ELSE replica[other][e]
  BY <1>3 DEF TypeOK
<1>8. TypeOK'
  <2>1. replica' \in [Clients -> [Entities -> Copy]]
    BY <1>2, <1>3 DEF TypeOK
  <2>2. /\ updates' \in [Clients -> Seq(Update)]
        /\ serverUpdateTick' \in [Clients -> Nat]
    BY <1>1, <1>3, <1>4 DEF TypeOK
  <2> QED
    BY <2>1, <2>2
    DEF ReceiveUpdate, TypeOK, worldVars, ackVars, sentVars, visibilityVars
<1>9. StampsBounded'
  <2>1. \A n \in DOMAIN Tail(updates[cl]), e \in Entities, c \in Components :
          Tail(updates[cl])[n].values[e][c] <= Tail(updates[cl])[n].tick
    BY <1>4 DEF StampsBounded
  <2> QED
    BY <1>2, <1>3, <1>7, <2>1 DEF StampsBounded
<1>10. UpdatesInOrder'
  <2>1. ASSUME NEW n \in DOMAIN Tail(updates[cl])
        PROVE  /\ u.tick < Tail(updates[cl])[n].tick
               /\ Tail(updates[cl])[n].tick <= serverTick
               /\ connected[cl] => Tail(updates[cl])[n].tick <= updateTick[cl]
    BY <1>4, <1>6 DEF UpdatesInOrder
  <2>2. ASSUME NEW n \in DOMAIN Tail(updates[cl]), NEW k \in 1 .. n - 1
        PROVE  Tail(updates[cl])[k].tick < Tail(updates[cl])[n].tick
    <3>1. k \in DOMAIN Tail(updates[cl]) /\ k + 1 \in 1 .. (n + 1) - 1
      BY <1>1, <1>4
    <3> QED
      BY <1>4, <3>1 DEF UpdatesInOrder
  <2>3. ASSUME NEW other \in Clients, other # cl
        PROVE  updates'[other] = updates[other] /\ serverUpdateTick'[other] = serverUpdateTick[other]
    BY <1>7, <2>3
  <2>4. updates'[cl] = Tail(updates[cl]) /\ serverUpdateTick'[cl] = u.tick
    BY <1>7
  <2>5. UNCHANGED <<serverTick, connected, updateTick>>
    BY <1>3
  <2>6. ASSUME NEW other \in Clients
        PROVE  /\ updateTick'[other] <= serverTick' /\ serverUpdateTick'[other] <= serverTick'
               /\ \A n \in DOMAIN updates'[other] :
                    /\ serverUpdateTick'[other] < updates'[other][n].tick
                    /\ updates'[other][n].tick <= serverTick'
                    /\ connected'[other] => updates'[other][n].tick <= updateTick'[other]
                    /\ \A k \in 1 .. n - 1 : updates'[other][k].tick < updates'[other][n].tick
    <3>1. CASE other = cl
      BY <1>6, <2>1, <2>2, <2>4, <2>5, <3>1 DEF UpdatesInOrder
    <3>2. CASE other # cl
      BY <2>3, <2>5, <3>2 DEF UpdatesInOrder
    <3> QED
      BY <3>1, <3>2
  <2> QED
    BY <2>6 DEF UpdatesInOrder
<1>11. MutationsWait'
  <2>1. mutates' = mutates /\ buffered' = buffered
    BY <1>3
  <2>2. ASSUME NEW other \in Clients, NEW n \in DOMAIN updates'[other],
               NEW m \in mutates[other] \cup buffered[other]
        PROVE  updates'[other][n].tick <= m.updateTick \/ m.tick < updates'[other][n].tick
    <3>1. CASE other = cl
      <4>1. updates'[cl] = Tail(updates[cl])
        BY <1>7
      <4>2. n + 1 \in DOMAIN updates[cl] /\ updates'[cl][n] = updates[cl][n + 1]
        BY <1>4, <3>1, <4>1
      <4> QED
        BY <3>1, <4>2 DEF MutationsWait
    <3>2. CASE other # cl
      <4>1. updates'[other] = updates[other]
        BY <1>7, <3>2
      <4> QED
        BY <4>1 DEF MutationsWait
    <3> QED
      BY <3>1, <3>2
  <2> QED
    BY <2>1, <2>2 DEF MutationsWait
<1>12. HistoryInOrder'
  <2>1. ASSUME NEW e \in Entities
        PROVE  /\ copy(e).history <= serverTick
               /\ \A n \in DOMAIN Tail(updates[cl]) :
                    copy(e).history < Tail(updates[cl])[n].tick
    <3>1. copy(e).history <= u.tick /\ copy(e).history \in Nat /\ serverTick \in Nat
      BY <1>2 DEF Copy, TypeOK
    <3> QED
      BY <1>1, <1>6, <3>1
  <2>2. clientUp[cl]
    BY DEF ReceiveUpdate
  <2>3. ASSUME NEW other \in Clients
        PROVE  /\ \A e \in Entities :
                    /\ replica'[other][e].history <= serverTick'
                    /\ \A n \in DOMAIN updates'[other] :
                         replica'[other][e].history < updates'[other][n].tick
               /\ ~clientUp'[other] => updates'[other] = <<>>
    <3>1. CASE other = cl
      <4>1. serverTick' = serverTick /\ clientUp' = clientUp
        BY <1>3
      <4>2. updates'[cl] = Tail(updates[cl]) /\ \A e \in Entities : replica'[cl][e] = copy(e)
        BY <1>7
      <4> QED
        BY <2>1, <2>2, <3>1, <4>1, <4>2
    <3>2. CASE other # cl
      BY <1>3, <1>7, <3>2 DEF HistoryInOrder
    <3> QED
      BY <3>1, <3>2
  <2> QED
    BY <2>3 DEF HistoryInOrder
<1> QED
  BY <1>8, <1>9, <1>10, <1>11, <1>12

\* Sessions.
LEMMA SessionKeepsDelivery ==
  ASSUME DeliveryInv, NEW cl \in Clients,
         Connect(cl) \/ ServerDisconnect(cl) \/ ClientDisconnect(cl)
  PROVE  DeliveryInv'
<1> USE DEF DeliveryInv
<1>1. CASE Connect(cl)
  <2>1. TypeOK'
    BY <1>1 DEF Connect, TypeOK, worldVars, ackVars, sentVars, visibilityVars, channelVars, clientVars
  <2>2. /\ UNCHANGED <<serverTick, world, mutations, updateTick, channelVars, clientVars>>
        /\ clientUp' = [clientUp EXCEPT ![cl] = TRUE]
        /\ connected' = [connected EXCEPT ![cl] = TRUE]
        /\ ~clientUp[cl]
    BY <1>1 DEF Connect, worldVars, ackVars, sentVars
  <2>3. updates[cl] = <<>>
    BY <2>2 DEF HistoryInOrder
  <2>4. UpdatesInOrder'
    BY <2>2, <2>3 DEF UpdatesInOrder, TypeOK, channelVars, clientVars
  <2>5. StampsBounded' /\ MutationsWait'
    BY <2>2 DEF StampsBounded, MutationsWait, channelVars, clientVars
  <2>6. HistoryInOrder'
    BY <2>2 DEF HistoryInOrder, TypeOK, channelVars, clientVars
  <2> QED
    BY <2>1, <2>4, <2>5, <2>6
<1>2. CASE ServerDisconnect(cl)
  <2>1. /\ UNCHANGED <<serverTick, world, updates, mutates, clientUp, clientVars>>
        /\ connected' = [connected EXCEPT ![cl] = FALSE]
        /\ updateTick' = [updateTick EXCEPT ![cl] = 0]
        /\ mutations' = [mutations EXCEPT ![cl] = {}]
    BY <1>2 DEF ServerDisconnect, worldVars
  <2>2. TypeOK'
    <3>1. /\ [e \in Entities |-> NoTicks] \in [Entities -> EntityTicks]
          /\ [e \in Entities |-> DefaultPeriod] \in [Entities -> Periods]
          /\ 0 \in 0 .. IndexMod - 1
      BY ShapeTypes, PeriodType, ReplicationAssumption
    <3>2. /\ ticks' \in [Clients -> [Entities -> EntityTicks]]
          /\ priority' \in [Clients -> [Entities -> Periods]]
          /\ mutateIndex' \in [Clients -> 0 .. IndexMod - 1]
          /\ acks' \in [Clients -> Seq(SUBSET (0 .. IndexMod - 1))]
          /\ hidden' \in [Clients -> [Entities -> SUBSET Filters]]
          /\ lost' \in [Clients -> [Entities -> SUBSET Filters]]
      BY <1>2, <3>1 DEF ServerDisconnect, TypeOK
    <3> QED
      BY <1>2, <3>2 DEF ServerDisconnect, TypeOK, worldVars, clientVars
  <2>3. \A other \in Clients :
          /\ updateTick'[other] \in {0, updateTick[other]}
          /\ connected'[other] => connected[other] /\ updateTick'[other] = updateTick[other]
          /\ mutations'[other] \subseteq mutations[other]
    BY <2>1 DEF TypeOK
  <2>4. serverTick \in Nat
    BY DEF TypeOK
  <2>5. UpdatesInOrder'
    BY <2>1, <2>3, <2>4 DEF UpdatesInOrder, clientVars
  <2>6. StampsBounded' /\ MutationsWait' /\ HistoryInOrder'
    BY <2>1, <2>3 DEF StampsBounded, MutationsWait, HistoryInOrder, clientVars
  <2> QED
    BY <2>2, <2>5, <2>6
<1>3. CASE ClientDisconnect(cl)
  <2>1. /\ UNCHANGED <<serverTick, world, mutations, connected, updateTick>>
        /\ clientUp' = [clientUp EXCEPT ![cl] = FALSE]
        /\ updates' = [updates EXCEPT ![cl] = <<>>]
        /\ mutates' = [mutates EXCEPT ![cl] = {}]
        /\ serverUpdateTick' = [serverUpdateTick EXCEPT ![cl] = 0]
        /\ buffered' = [buffered EXCEPT ![cl] = {}]
        /\ replica' = [replica EXCEPT ![cl] = [e \in Entities |-> NoCopy]]
    BY <1>3 DEF ClientDisconnect, worldVars, ackVars, sentVars
  <2>2. TypeOK'
    <3>1. replica' \in [Clients -> [Entities -> Copy]]
      BY <2>1, ShapeTypes DEF TypeOK
    <3>2. updates' \in [Clients -> Seq(Update)]
      BY <2>1 DEF TypeOK
    <3> QED
      BY <1>3, <3>1, <3>2
      DEF ClientDisconnect, TypeOK, worldVars, ackVars, sentVars, visibilityVars
  <2>3. serverTick \in Nat
    BY DEF TypeOK
  <2>4. UpdatesInOrder'
    BY <2>1, <2>3 DEF UpdatesInOrder, TypeOK
  <2>5. MutationsWait'
    BY <2>1 DEF MutationsWait, TypeOK
  <2>6. \A other \in Clients :
          /\ mutates'[other] \subseteq mutates[other] /\ buffered'[other] \subseteq buffered[other]
          /\ updates'[other] \in {<<>>, updates[other]}
          /\ \A e \in Entities : replica'[other][e] \in {NoCopy, replica[other][e]}
    BY <2>1 DEF TypeOK
  <2>7. NoCopy.history = 0 /\ \A c \in Components : NoCopy.values[c] = 0
    BY DEF NoCopy, NoStamps
  <2>8. StampsBounded'
    BY <2>1, <2>6, <2>7 DEF StampsBounded
  <2>9. HistoryInOrder'
    BY <2>1, <2>3, <2>7 DEF HistoryInOrder, TypeOK
  <2> QED
    BY <2>2, <2>4, <2>5, <2>8, <2>9
<1> QED
  BY <1>1, <1>2, <1>3

\* A send.  What it adds to the channels carries its own tick, which is later
\* than every tick sent so far.
LEMMA SendTypes ==
  ASSUME DeliveryInv, SendTick
  PROVE  TypeOK'
<1> USE DEF DeliveryInv
<1>1. Now \in Nat
  BY DEF TypeOK, Now
<1>2. PICK packet \in [Clients -> [Entities -> 1 .. MaxPackets]] :
        LET sent(cl) == MutateMessages(cl, packet[cl])
        IN /\ mutations' = [cl \in Clients |->
                IF connected[cl] THEN Registered(cl, sent(cl)) ELSE mutations[cl]]
           /\ mutateIndex' = [cl \in Clients |->
                IF connected[cl]
                THEN (mutateIndex[cl] + Cardinality(UsedPackets(cl, packet[cl]))) % IndexMod
                ELSE mutateIndex[cl]]
           /\ mutates' = [cl \in Clients |->
                IF connected[cl] /\ clientUp[cl] THEN mutates[cl] \cup sent(cl) ELSE mutates[cl]]
  BY DEF SendTick
<1>3. \A cl \in Clients : packet[cl] \in [Entities -> 1 .. MaxPackets]
  OBVIOUS
<1>4. \A cl \in Clients : MutateMessages(cl, packet[cl]) \subseteq Mutate
  BY <1>3, MutateMessagesType
<1>5. mutates' \in [Clients -> SUBSET Mutate]
  BY <1>2, <1>4 DEF TypeOK
<1>6. mutations' \in [Clients -> SUBSET MutateInfo]
  <2>1. ASSUME NEW cl \in Clients
        PROVE  Registered(cl, MutateMessages(cl, packet[cl])) \in SUBSET MutateInfo
    <3>1. mutations[cl] \in SUBSET MutateInfo
      BY DEF TypeOK
    <3>2. \A m \in Mutate :
            [index |-> m.index, tick |-> m.tick, entities |-> {e \in Entities : Carries(m, e)}]
              \in MutateInfo
      BY DEF Mutate, MutateInfo
    <3> QED
      BY <1>4, <3>1, <3>2 DEF Registered
  <2> QED
    BY <1>2, <2>1 DEF TypeOK
<1>7. mutateIndex' \in [Clients -> 0 .. IndexMod - 1]
  <2>1. ASSUME NEW cl \in Clients
        PROVE  (mutateIndex[cl] + Cardinality(UsedPackets(cl, packet[cl]))) % IndexMod
                 \in 0 .. IndexMod - 1
    <3>1. Cardinality(UsedPackets(cl, packet[cl])) \in Nat
      BY <1>3, PacketsType
    <3>2. mutateIndex[cl] + Cardinality(UsedPackets(cl, packet[cl])) \in Nat
      BY <3>1 DEF TypeOK
    <3> QED
      BY <3>2, IndexType
  <2> QED
    BY <1>2, <2>1 DEF TypeOK
<1>8. updates' \in [Clients -> Seq(Update)]
  <2>1. \A cl \in Clients : UpdateMessage(cl) \in Update /\ updates[cl] \in Seq(Update)
    BY UpdateMessageType DEF TypeOK
  <2>2. \A cl \in Clients : Append(updates[cl], UpdateMessage(cl)) \in Seq(Update)
    BY <2>1
  <2> QED
    BY <2>1, <2>2 DEF SendTick
<1>9. /\ updateTick' \in [Clients -> Nat]
      /\ ticks' \in [Clients -> [Entities -> EntityTicks]]
      /\ hidden' \in [Clients -> [Entities -> SUBSET Filters]]
      /\ lost' \in [Clients -> [Entities -> SUBSET Filters]]
      /\ priority' \in [Clients -> [Entities -> Periods]]
  <2>1. \A cl \in Clients : SentUpdateTick(cl) \in Nat /\ updateTick[cl] \in Nat
    BY SentUpdateTickType DEF TypeOK
  <2>2. \A cl \in Clients :
          /\ [e \in Entities |-> AfterChanges(cl, e)] \in [Entities -> EntityTicks]
          /\ ticks[cl] \in [Entities -> EntityTicks]
    BY StageTypes DEF TypeOK
  <2>3. updateTick' \in [Clients -> Nat] /\ ticks' \in [Clients -> [Entities -> EntityTicks]]
    BY <2>1, <2>2 DEF SendTick
  <2>4. /\ hidden' \in [Clients -> [Entities -> SUBSET Filters]]
        /\ lost' \in [Clients -> [Entities -> SUBSET Filters]]
    BY DEF SendTick, TypeOK
  <2>5. priority' \in [Clients -> [Entities -> Periods]]
    BY PeriodType DEF SendTick, TypeOK
  <2> QED
    BY <2>3, <2>4, <2>5
<1>10. /\ serverTick' \in Nat
       /\ despawnBuffer' = {} /\ removalBuffer' \in [Entities -> SUBSET Components]
       /\ UNCHANGED <<status, world, panicked, connected, acks, clientUp, clientVars>>
  BY <1>1 DEF SendTick
<1> QED
  BY <1>5, <1>6, <1>7, <1>8, <1>9, <1>10 DEF TypeOK, clientVars

LEMMA SendKeepsDelivery ==
  ASSUME DeliveryInv, SendTick
  PROVE  DeliveryInv'
<1> USE DEF DeliveryInv
<1>1. /\ serverTick \in Nat /\ Now = serverTick + 1 /\ Now \in Nat /\ serverTick' = Now
      /\ UNCHANGED <<world, connected, clientUp, serverUpdateTick, buffered, replica>>
  BY DEF TypeOK, Now, SendTick, clientVars
<1>2. PICK packet \in [Clients -> [Entities -> 1 .. MaxPackets]] :
        LET sent(cl) == MutateMessages(cl, packet[cl])
        IN /\ mutations' = [cl \in Clients |->
                IF connected[cl] THEN Registered(cl, sent(cl)) ELSE mutations[cl]]
           /\ mutates' = [cl \in Clients |->
                IF connected[cl] /\ clientUp[cl] THEN mutates[cl] \cup sent(cl) ELSE mutates[cl]]
  BY DEF SendTick
\* What a send adds for a client.
<1>3. ASSUME NEW cl \in Clients
      PROVE  /\ \A m \in MutateMessages(cl, packet[cl]) :
                  /\ m.tick = Now /\ m.updateTick = SentUpdateTick(cl)
                  /\ \A e \in Entities, c \in Components : m.values[e][c] <= Now
             /\ UpdateMessage(cl).tick = Now
             /\ \A e \in Entities, c \in Components : UpdateMessage(cl).values[e][c] <= Now
             /\ SentUpdateTick(cl) \in Nat
             /\ SentUpdateTick(cl) = Now \/ SentUpdateTick(cl) = updateTick[cl]
             /\ ~IsEmptyUpdate(UpdateMessage(cl)) => SentUpdateTick(cl) = Now
  <2>1. packet[cl] \in [Entities -> 1 .. MaxPackets]
    OBVIOUS
  <2> QED
    BY <2>1, MutateMessagesType, UpdateMessageType, SentUpdateTickType
<1>4. ASSUME NEW cl \in Clients
      PROVE  /\ \A i \in mutations'[cl] : i \in mutations[cl] \/ i.tick = Now
             /\ mutates'[cl] = mutates[cl]
                  \/ /\ connected[cl]
                     /\ mutates'[cl] = mutates[cl] \cup MutateMessages(cl, packet[cl])
             /\ updateTick'[cl] = IF connected[cl] THEN SentUpdateTick(cl) ELSE updateTick[cl]
             /\ updates'[cl] = IF connected[cl] /\ clientUp[cl] /\ ~IsEmptyUpdate(UpdateMessage(cl))
                               THEN Append(updates[cl], UpdateMessage(cl)) ELSE updates[cl]
  <2>1. \A i \in Registered(cl, MutateMessages(cl, packet[cl])) : i \in mutations[cl] \/ i.tick = Now
    BY <1>3 DEF Registered
  <2> QED
    BY <1>2, <2>1 DEF SendTick
\* The update messages on their way, and maybe the new one after them.
<1>5. ASSUME NEW cl \in Clients, NEW n \in DOMAIN updates'[cl]
      PROVE  \/ /\ n \in DOMAIN updates[cl] /\ updates'[cl][n] = updates[cl][n]
                /\ n \in Nat /\ updates[cl][n] \in Update
                /\ \A k \in 1 .. n - 1 : k \in DOMAIN updates[cl] /\ updates'[cl][k] = updates[cl][k]
             \/ /\ updates'[cl][n] = UpdateMessage(cl)
                /\ connected[cl] /\ clientUp[cl] /\ SentUpdateTick(cl) = Now
                /\ \A k \in 1 .. n - 1 : k \in DOMAIN updates[cl] /\ updates'[cl][k] = updates[cl][k]
  <2>1. updates[cl] \in Seq(Update) /\ UpdateMessage(cl) \in Update
    BY UpdateMessageType DEF TypeOK
  <2>2. CASE updates'[cl] = updates[cl]
    BY <2>1, <2>2
  <2>3. CASE /\ updates'[cl] = Append(updates[cl], UpdateMessage(cl))
             /\ connected[cl] /\ clientUp[cl] /\ ~IsEmptyUpdate(UpdateMessage(cl))
    <3>1. SentUpdateTick(cl) = Now
      BY <1>3, <2>3
    <3>2. /\ DOMAIN updates'[cl] = 1 .. Len(updates[cl]) + 1
          /\ \A k \in 1 .. Len(updates[cl]) : k \in DOMAIN updates[cl] /\ updates'[cl][k] = updates[cl][k]
          /\ updates'[cl][Len(updates[cl]) + 1] = UpdateMessage(cl)
      BY <2>1, <2>3
    <3>3. n \in 1 .. Len(updates[cl]) \/ n = Len(updates[cl]) + 1
      BY <2>1, <3>2
    <3> QED
      BY <2>1, <2>3, <3>1, <3>2, <3>3
  <2> QED
    BY <1>4, <2>2, <2>3
<1>6. TypeOK'
  BY SendTypes
<1>7. StampsBounded'
  <2>1. ASSUME NEW cl \in Clients
        PROVE  /\ \A i \in mutations'[cl] : i.tick <= Now
               /\ \A m \in mutates'[cl] \cup buffered'[cl] :
                    /\ m.tick <= Now
                    /\ \A e \in Entities, c \in Components : m.values[e][c] <= m.tick
    <3>1. \A i \in mutations[cl] : i.tick \in Nat
      BY DEF TypeOK, MutateInfo
    <3>2. \A m \in mutates[cl] \cup buffered[cl] : m.tick \in Nat
      BY DEF TypeOK, Mutate
    <3> QED
      BY <1>1, <1>3, <1>4, <3>1, <3>2 DEF StampsBounded
  <2>2. ASSUME NEW cl \in Clients, NEW n \in DOMAIN updates'[cl], NEW e \in Entities, NEW c \in Components
        PROVE  updates'[cl][n].values[e][c] <= updates'[cl][n].tick
    BY <1>3, <1>5 DEF StampsBounded
  <2>3. \A e \in Entities, c \in Components : world'[e][c] <= serverTick' + 1
    BY <1>1 DEF TypeOK, Stamps, StampsBounded
  <2>4. \A cl \in Clients, e \in Entities, c \in Components :
          replica'[cl][e].values[c] <= replica'[cl][e].history
    BY <1>1 DEF StampsBounded
  <2> QED
    BY <1>1, <2>1, <2>2, <2>3, <2>4 DEF StampsBounded
<1>8. UpdatesInOrder'
  <2>1. ASSUME NEW cl \in Clients
        PROVE  /\ updateTick'[cl] <= Now /\ serverUpdateTick[cl] <= Now
               /\ updateTick[cl] <= updateTick'[cl] /\ serverUpdateTick[cl] < Now
    <3>1. /\ updateTick[cl] \in Nat /\ serverUpdateTick[cl] \in Nat
          /\ updateTick[cl] <= serverTick /\ serverUpdateTick[cl] <= serverTick
      BY DEF TypeOK, UpdatesInOrder
    <3> QED
      BY <1>1, <1>3, <1>4, <3>1
  <2>2. ASSUME NEW cl \in Clients, NEW n \in DOMAIN updates'[cl]
        PROVE  /\ serverUpdateTick[cl] < updates'[cl][n].tick
               /\ updates'[cl][n].tick <= Now
               /\ connected[cl] => updates'[cl][n].tick <= updateTick'[cl]
               /\ \A k \in 1 .. n - 1 : updates'[cl][k].tick < updates'[cl][n].tick
    <3>1. /\ \A k \in DOMAIN updates[cl] : updates[cl][k].tick \in Nat /\ updates[cl][k].tick <= serverTick
          /\ updateTick[cl] \in Nat /\ updateTick'[cl] \in Nat
      <4>1. updates[cl] \in Seq(Update) /\ updateTick[cl] \in Nat /\ updateTick'[cl] \in Nat
        BY <1>6 DEF TypeOK
      <4>2. \A k \in DOMAIN updates[cl] : updates[cl][k] \in Update
        BY <4>1
      <4> QED
        BY <4>1, <4>2 DEF Update, UpdatesInOrder
    <3>2. CASE /\ n \in DOMAIN updates[cl] /\ updates'[cl][n] = updates[cl][n]
               /\ \A k \in 1 .. n - 1 : k \in DOMAIN updates[cl] /\ updates'[cl][k] = updates[cl][k]
      <4>1. /\ serverUpdateTick[cl] < updates[cl][n].tick
            /\ connected[cl] => updates[cl][n].tick <= updateTick[cl]
            /\ \A k \in 1 .. n - 1 : updates[cl][k].tick < updates[cl][n].tick
        BY <3>2 DEF UpdatesInOrder
      <4> QED
        BY <1>1, <2>1, <3>1, <3>2, <4>1
    <3>3. CASE /\ updates'[cl][n] = UpdateMessage(cl) /\ connected[cl] /\ SentUpdateTick(cl) = Now
               /\ \A k \in 1 .. n - 1 : k \in DOMAIN updates[cl] /\ updates'[cl][k] = updates[cl][k]
      <4>1. updates'[cl][n].tick = Now /\ updateTick'[cl] = Now
        BY <1>3, <1>4, <3>3
      <4> QED
        BY <1>1, <2>1, <3>1, <3>3, <4>1
    <3> QED
      BY <1>5, <3>2, <3>3
  <2> QED
    BY <1>1, <2>1, <2>2 DEF UpdatesInOrder
<1>9. MutationsWait'
  <2>1. ASSUME NEW cl \in Clients, NEW n \in DOMAIN updates'[cl],
               NEW m \in mutates'[cl] \cup buffered'[cl]
        PROVE  updates'[cl][n].tick <= m.updateTick \/ m.tick < updates'[cl][n].tick
    <3>1. CASE m \in mutates[cl] \cup buffered[cl]
      <4>1. m.tick \in Nat /\ m.tick <= serverTick
        BY <3>1 DEF TypeOK, Mutate, StampsBounded
      <4>2. m.tick < Now
        BY <1>1, <4>1
      <4>3. UpdateMessage(cl).tick = Now
        BY <1>3
      <4>4. n \in DOMAIN updates[cl] /\ updates'[cl][n] = updates[cl][n]
              => updates'[cl][n].tick <= m.updateTick \/ m.tick < updates'[cl][n].tick
        BY <3>1 DEF MutationsWait
      <4> QED
        BY <1>5, <4>2, <4>3, <4>4
    <3>2. CASE m \in MutateMessages(cl, packet[cl]) /\ connected[cl]
      <4>1. m.updateTick = SentUpdateTick(cl) /\ updateTick'[cl] = SentUpdateTick(cl)
        BY <1>3, <1>4, <3>2
      <4>2. updates'[cl][n].tick <= updateTick'[cl]
        BY <1>1, <1>8, <3>2 DEF UpdatesInOrder
      <4> QED
        BY <4>1, <4>2
    <3> QED
      BY <1>1, <1>4, <3>1, <3>2
  <2> QED
    BY <2>1 DEF MutationsWait
<1>10. HistoryInOrder'
  <2>1. ASSUME NEW cl \in Clients, NEW e \in Entities
        PROVE  /\ replica'[cl][e].history <= Now
               /\ \A n \in DOMAIN updates'[cl] : replica'[cl][e].history < updates'[cl][n].tick
    <3>1. /\ replica[cl][e] \in Copy /\ replica[cl][e].history <= serverTick
          /\ replica'[cl][e] = replica[cl][e]
      BY <1>1 DEF TypeOK, HistoryInOrder
    <3>2. replica[cl][e].history \in Nat /\ replica[cl][e].history < Now
      BY <1>1, <3>1 DEF Copy
    <3> QED
      BY <1>1, <1>3, <1>5, <3>1, <3>2 DEF HistoryInOrder
  <2>2. \A cl \in Clients : ~clientUp'[cl] => updates'[cl] = <<>>
    BY <1>1, <1>4 DEF HistoryInOrder
  <2> QED
    BY <1>1, <2>1, <2>2 DEF HistoryInOrder
<1> QED
  BY <1>6, <1>7, <1>8, <1>9, <1>10

LEMMA NextKeepsDelivery == DeliveryInv /\ [Next]_vars => DeliveryInv'
<1> SUFFICES ASSUME DeliveryInv, [Next]_vars PROVE DeliveryInv'
  OBVIOUS
<1>1. ASSUME NEW e \in Entities,
             \/ Spawn(e) \/ Despawn(e) \/ Pause(e)
             \/ \E c \in Components : Write(e, c) \/ Remove(e, c)
      PROVE  DeliveryInv'
  BY <1>1, ChangeKeepsDelivery
<1>2. ASSUME NEW cl \in Clients, NEW e \in Entities,
             \/ \E f \in Filters : Hide(cl, e, f) \/ Show(cl, e, f)
             \/ \E p \in Periods : SetPriority(cl, e, p)
      PROVE  DeliveryInv'
  BY <1>2, SettingKeepsDelivery
<1>3. CASE SendTick
  BY <1>3, SendKeepsDelivery
<1>4. CASE PanicInSend
  BY <1>4, PanicKeepsDelivery
<1>5. ASSUME NEW cl \in Clients, Connect(cl) \/ ServerDisconnect(cl) \/ ClientDisconnect(cl)
      PROVE  DeliveryInv'
  BY <1>5, SessionKeepsDelivery
<1>6. ASSUME NEW cl \in Clients, NEW t, ReceiveAcks(cl) \/ CleanupAcks(cl, t)
      PROVE  DeliveryInv'
  BY <1>6, AckKeepsDelivery
<1>7. ASSUME NEW cl \in Clients, ReceiveUpdate(cl)
      PROVE  DeliveryInv'
  BY <1>7, UpdateKeepsDelivery
<1>8. ASSUME NEW cl \in Clients, NEW arrived \in SUBSET mutates[cl], ReceiveMutations(cl, arrived)
       PROVE  DeliveryInv'
  BY <1>8, MutationsKeepDelivery
<1>9. ASSUME NEW cl \in Clients, NEW m, LoseMutation(cl, m)
       PROVE  DeliveryInv'
  BY <1>9, LossKeepsDelivery
<1>10. CASE UNCHANGED vars
  BY <1>10 DEF vars, worldVars, ackVars, sentVars, visibilityVars, channelVars, clientVars,
     DeliveryInv, TypeOK, StampsBounded, UpdatesInOrder, MutationsWait, HistoryInOrder
<1> QED
  BY <1>1, <1>2, <1>3, <1>4, <1>5, <1>6, <1>7, <1>8, <1>9, <1>10 DEF Next

-----------------------------------------------------------------------------
\* The theorems.

\* The inductive invariant: no tick is ahead of the send that stamped it, the
\* update messages on their way continue what the client applied, and no
\* mutate message is applied before the update messages sent up to its tick.
THEOREM DeliveryHolds == Spec => []DeliveryInv
  BY InitDelivery, NextKeepsDelivery, PTL DEF Spec

\* The send and receive systems keep the types of their state.
THEOREM TypesHold == Spec => []TypeOK
<1>1. DeliveryInv => TypeOK
  BY DEF DeliveryInv
<1> QED
  BY <1>1, DeliveryHolds, PTL

\* A client never shows a change made after an update message it has not
\* applied: buffer_mutate_message holds mutations back long enough, whatever
\* is lost, delayed, reordered or cut off by a disconnect.
THEOREM MutationsAreCausal == Spec => []CausalDelivery
<1>1. DeliveryInv => CausalDelivery
  <2> SUFFICES ASSUME DeliveryInv, NEW cl \in Clients, NEW n \in DOMAIN updates[cl],
                      NEW e \in Entities, NEW c \in Components
               PROVE  replica[cl][e].values[c] < updates[cl][n].tick
    BY DEF CausalDelivery
  <2>1. /\ replica[cl][e].values[c] <= replica[cl][e].history
        /\ replica[cl][e].history < updates[cl][n].tick
    BY DEF DeliveryInv, StampsBounded, HistoryInOrder
  <2>2. replica[cl][e] \in Copy /\ updates[cl] \in Seq(Update)
    BY DEF DeliveryInv, TypeOK
  <2>3. /\ replica[cl][e].values[c] \in Nat /\ replica[cl][e].history \in Nat
        /\ updates[cl][n].tick \in Nat
    <3>1. updates[cl][n] \in Update
      BY <2>2
    <3> QED
      BY <2>2, <3>1 DEF Copy, Stamps, Update
  <2> QED
    BY <2>1, <2>3
<1> QED
  BY <1>1, DeliveryHolds, PTL

\* The steps that change the copy of an entity.
LEMMA CopyChanges ==
  ASSUME DeliveryInv, [Next]_vars, NEW cl \in Clients, NEW e \in Entities
  PROVE  \/ replica'[cl][e] = replica[cl][e] \/ ReceiveUpdate(cl) \/ ClientDisconnect(cl)
         \/ \E arrived \in SUBSET mutates[cl] : ReceiveMutations(cl, arrived)
<1> USE DEF DeliveryInv
<1>1. \/ replica' = replica
      \/ \E other \in Clients :
           \/ ReceiveUpdate(other) \/ ClientDisconnect(other)
           \/ \E arrived \in SUBSET mutates[other] : ReceiveMutations(other, arrived)
  <2>1. ASSUME NEW f \in Entities,
               Spawn(f) \/ Despawn(f) \/ Pause(f) \/ \E k \in Components : Write(f, k) \/ Remove(f, k)
        PROVE  replica' = replica
    BY <2>1 DEF clientVars, Spawn, Despawn, Pause, Write, Remove
  <2>2. ASSUME NEW other \in Clients, NEW f \in Entities,
               \/ \E g \in Filters : Hide(other, f, g) \/ Show(other, f, g)
               \/ \E p \in Periods : SetPriority(other, f, p)
        PROVE  replica' = replica
    BY <2>2 DEF clientVars, Hide, Show, SetPriority
  <2>3. ASSUME NEW other \in Clients,
               \/ Connect(other) \/ ServerDisconnect(other) \/ ReceiveAcks(other)
               \/ \E t \in 1 .. serverTick : CleanupAcks(other, t)
               \/ \E m \in mutates[other] : LoseMutation(other, m)
        PROVE  replica' = replica
    BY <2>3 DEF clientVars, Connect, ServerDisconnect, ReceiveAcks, CleanupAcks, LoseMutation
  <2>4. SendTick => replica' = replica
    BY DEF clientVars, SendTick
  <2>5. PanicInSend \/ UNCHANGED vars => replica' = replica
    BY DEF vars, clientVars, PanicInSend
  <2> QED
    BY <2>1, <2>2, <2>3, <2>4, <2>5 DEF Next
<1>2. ASSUME NEW other \in Clients, other # cl,
             \/ ReceiveUpdate(other) \/ ClientDisconnect(other)
             \/ \E arrived \in SUBSET mutates[other] : ReceiveMutations(other, arrived)
      PROVE  replica'[cl] = replica[cl]
  BY <1>2 DEF ReceiveUpdate, ClientDisconnect, ReceiveMutations, TypeOK
<1> QED
  BY <1>1, <1>2

\* How a step changes the confirmed tick of one entity.
LEMMA ReplicaAdvances ==
  ASSUME DeliveryInv, [Next]_vars, NEW cl \in Clients, NEW e \in Entities
  PROVE  replica'[cl][e].history = 0 \/ replica'[cl][e].history >= replica[cl][e].history
<1> USE DEF DeliveryInv
<1>1. replica[cl][e] \in Copy /\ replica[cl][e].history \in Nat
  BY DEF TypeOK, Copy
<1>2. CASE replica'[cl][e] = replica[cl][e]
  BY <1>1, <1>2
<1>3. CASE ReceiveUpdate(cl)
  <2> DEFINE u == Head(updates[cl])
  <2>1. /\ updates[cl] # <<>>
        /\ replica'[cl][e] = ApplyUpdate(u, e, replica[cl][e])
    BY <1>3 DEF ReceiveUpdate, TypeOK
  <2>2. /\ u \in Update /\ replica[cl][e].history < u.tick /\ u.tick \in Nat
        /\ \A c \in Components : /\ u.values[e][c] <= u.tick
                                 /\ replica[cl][e].values[c] <= replica[cl][e].history
    BY <2>1, NextUpdate
  <2> HIDE DEF u
  <2>3. replica'[cl][e].history \in {0, replica[cl][e].history, u.tick}
    BY <1>1, <2>1, <2>2, ApplyUpdateMoves
  <2> QED
    BY <1>1, <2>2, <2>3
<1>4. ASSUME NEW arrived \in SUBSET mutates[cl], ReceiveMutations(cl, arrived)
      PROVE  replica'[cl][e].history >= replica[cl][e].history
  <2> DEFINE ready == Ready(cl, buffered[cl] \cup arrived)
  <2>1. replica'[cl][e] = ApplyMutations(ready, e, replica[cl][e])
    BY <1>4 DEF ReceiveMutations, TypeOK
  <2>2. \/ replica'[cl][e] = replica[cl][e]
        \/ \E m \in ready : /\ replica'[cl][e].history = m.tick
                            /\ m.tick > replica[cl][e].history
    BY <2>1, ReadyMoves
  <2>3. ready \subseteq Mutate
    BY DEF TypeOK, Ready
  <2>4. \A m \in ready : m.tick \in Nat
    BY <2>3 DEF Mutate
  <2> HIDE DEF ready
  <2> QED
    BY <1>1, <2>2, <2>4
<1>5. CASE ClientDisconnect(cl)
  BY <1>5 DEF ClientDisconnect, NoCopy, TypeOK
<1> QED
  BY <1>2, <1>3, <1>4, <1>5, CopyChanges

\* The confirmed tick of an entity never moves back while the client keeps
\* the entity, so the debug assertion of ConfirmHistory::set_last_tick holds.
THEOREM HistoryAdvances == Spec => ConfirmedTickAdvances
<1>1. DeliveryInv /\ [Next]_vars =>
        [\A cl \in Clients, e \in Entities :
           replica'[cl][e].history = 0 \/ replica'[cl][e].history >= replica[cl][e].history]_vars
  BY ReplicaAdvances
<1> QED
  BY <1>1, DeliveryHolds, PTL DEF Spec, ConfirmedTickAdvances
=============================================================================
