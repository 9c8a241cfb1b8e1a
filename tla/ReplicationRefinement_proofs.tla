-------------------- MODULE ReplicationRefinement_proofs --------------------
(***************************************************************************)
(* Proof that Replication implements StructureLog, and that an entity      *)
(* ClientTicks no longer records is gone from the client.  Both need that  *)
(* no filter hides a whole entity: the despawn of an entity that a client  *)
(* already lost, or has yet to lose, is otherwise kept from it.            *)
(***************************************************************************)
EXTENDS ReplicationStructure_proofs, ReplicationRefinement, SequenceTheorems

NoEntityScope == \A f \in Filters : Scope[f].kind # "Entity"

UntrackedEnds ==
  \A cl \in Clients, e \in Entities \ Pausable :
    Linked(cl) /\ ticks[cl][e] = NoTicks => Final(cl)[e].history = 0

-----------------------------------------------------------------------------
\* What a step that is not a send does to the pipelines.

\* The client's pipeline keeps its structure.
Kept(cl) ==
  /\ Linked(cl)' = Linked(cl) /\ updates'[cl] = updates[cl]
  /\ \A k \in 0 .. Len(updates[cl]), e \in Entities :
       Similar(Pending(cl)[k][e], Pending(cl)'[k][e])

\* A session starts, with nothing on its way.
Started(cl) ==
  /\ ~Linked(cl) /\ Linked(cl)' /\ updates'[cl] = <<>>
  /\ \A e \in Entities : replica'[cl][e] = NoCopy

LEMMA UnchangedKept ==
  ASSUME StructureInv, NEW cl \in Clients,
         updates'[cl] = updates[cl], replica'[cl] = replica[cl], Linked(cl)' = Linked(cl)
  PROVE  Kept(cl)
<1>1. Pending(cl)' = Pending(cl)
  BY DEF Pending
<1>2. \A k \in 0 .. Len(updates[cl]), e \in Entities : Pending(cl)[k][e] \in Copy
  BY PendingType DEF StructureInv, DeliveryInv
<1> QED
  BY <1>1, <1>2 DEF Kept, Similar, Copy

LEMMA SessionPipelines ==
  ASSUME StructureInv, NEW cl \in Clients,
         Connect(cl) \/ ServerDisconnect(cl) \/ ClientDisconnect(cl)
  PROVE  /\ \A other \in Clients : other # cl => Kept(other)
         /\ ~Linked(cl)' \/ Started(cl)
<1> USE DEF worldVars, ackVars, channelVars, clientVars
<1>1. \A other \in Clients : other # cl =>
        updates'[other] = updates[other] /\ replica'[other] = replica[other] /\ Linked(other)' = Linked(other)
  BY DEF Connect, ServerDisconnect, ClientDisconnect, Linked, StructureInv, DeliveryInv, TypeOK
<1>2. CASE Connect(cl)
  <2>1. ~clientUp[cl] /\ UNCHANGED <<updates, replica>> /\ connected'[cl] /\ clientUp'[cl] /\ ~connected[cl]
    BY <1>2 DEF Connect, StructureInv, DeliveryInv, TypeOK
  <2>2. updates[cl] = <<>> /\ \A e \in Entities : replica[cl][e] = NoCopy
    BY <2>1 DEF StructureInv, DeliveryInv, HistoryInOrder, Bookkeeping
  <2>3. Started(cl)
    BY <2>1, <2>2 DEF Started, Linked
  <2> QED
    BY <1>1, <2>3, UnchangedKept
<1>3. CASE ServerDisconnect(cl) \/ ClientDisconnect(cl)
  <2>1. ~Linked(cl)'
    BY <1>3 DEF ServerDisconnect, ClientDisconnect, Linked, StructureInv, DeliveryInv, TypeOK
  <2> QED
    BY <1>1, <2>1, UnchangedKept
<1> QED
  BY <1>2, <1>3

LEMMA NextPipelines ==
  ASSUME StructureInv, DeliveryInv', [Next]_vars
  PROVE  \/ SendTick
         \/ \A cl \in Clients : Kept(cl)
         \/ \E cl \in Clients :
              /\ \A other \in Clients : other # cl => Kept(other)
              /\ \/ ReceiveUpdate(cl) /\ Linked(cl)' = Linked(cl)
                 \/ ~Linked(cl)'
                 \/ Started(cl)
<1>1. ASSUME NEW cl \in Clients, Connect(cl) \/ ServerDisconnect(cl) \/ ClientDisconnect(cl)
      PROVE  /\ \A other \in Clients : other # cl => Kept(other)
             /\ ~Linked(cl)' \/ Started(cl)
  BY <1>1, SessionPipelines
<1>2. ASSUME NEW cl \in Clients, ReceiveUpdate(cl)
      PROVE  /\ \A other \in Clients : other # cl => Kept(other)
             /\ Linked(cl)' = Linked(cl)
  <2>1. UNCHANGED <<connected, clientUp>>
    BY <1>2 DEF ReceiveUpdate
  <2>2. \A other \in Clients : other # cl => updates'[other] = updates[other] /\ replica'[other] = replica[other]
    BY <1>2, PipelineShifts
  <2> QED
    BY <2>1, <2>2, UnchangedKept DEF Linked
<1>3. ASSUME NEW cl \in Clients, NEW arrived \in SUBSET mutates[cl], ReceiveMutations(cl, arrived)
      PROVE  \A other \in Clients : Kept(other)
  <2>1. UNCHANGED <<connected, clientUp, updates>>
    BY <1>3 DEF ReceiveMutations
  <2> QED
    BY <1>3, <2>1, PipelineSimilar DEF Kept, Linked
<1>4. ASSUME UNCHANGED <<connected, clientUp, updates, replica>>
      PROVE  \A cl \in Clients : Kept(cl)
  BY <1>4, UnchangedKept DEF Linked
<1>5. \/ SendTick \/ UNCHANGED <<connected, clientUp, updates, replica>>
      \/ \E cl \in Clients :
           \/ Connect(cl) \/ ServerDisconnect(cl) \/ ClientDisconnect(cl) \/ ReceiveUpdate(cl)
           \/ \E arrived \in SUBSET mutates[cl] : ReceiveMutations(cl, arrived)
  BY DEF Next, vars, worldVars, channelVars, clientVars, Spawn, Despawn, Pause, Write, Remove, Hide,
     Show, SetPriority, PanicInSend, ReceiveAcks, CleanupAcks, LoseMutation
<1> QED
  BY <1>1, <1>2, <1>3, <1>4, <1>5

-----------------------------------------------------------------------------
\* An entity without a record.

LEMMA EndsWithoutRecord ==
  ASSUME StructureInv, [Next]_vars, ~SendTick, NEW cl \in Clients, NEW e \in Entities \ Pausable,
         Linked(cl), Linked(cl)', ticks'[cl][e] = NoTicks
  PROVE  ticks[cl][e] = NoTicks
<1>1. CASE ticks' = ticks
  BY <1>1
<1>2. ASSUME NEW other \in Clients, ReceiveAcks(other)
      PROVE  ticks[cl][e] = NoTicks
  BY <1>2, AckKeepsRecords
<1>3. ASSUME NEW other \in Clients, ServerDisconnect(other)
      PROVE  ticks[cl][e] = NoTicks
  BY <1>3 DEF ServerDisconnect, Linked, StructureInv, DeliveryInv, TypeOK
<1>4. ASSUME NEW f \in Entities, Despawn(f)
      PROVE  ticks[cl][e] = NoTicks
  <2>1. status[e] # "paused" /\ ticks \in [Clients -> [Entities -> EntityTicks]]
    BY DEF StructureInv, Bookkeeping, DeliveryInv, TypeOK
  <2>2. \/ ticks' = ticks
        \/ status[f] = "paused" /\ ticks' = [other \in Clients |-> [ticks[other] EXCEPT ![f] = NoTicks]]
    BY <1>4 DEF Despawn
  <2> QED
    BY <2>1, <2>2
<1>5. ticks' = ticks \/ (\E other \in Clients : ReceiveAcks(other) \/ ServerDisconnect(other))
                     \/ \E f \in Entities : Despawn(f)
  <2>1. ASSUME NEW f \in Entities,
               Spawn(f) \/ Pause(f) \/ \E k \in Components : Write(f, k) \/ Remove(f, k)
        PROVE  ticks' = ticks
    BY <2>1 DEF ackVars, Spawn, Pause, Write, Remove
  <2>2. ASSUME NEW other \in Clients, NEW f \in Entities,
               \/ \E g \in Filters : Hide(other, f, g) \/ Show(other, f, g)
               \/ \E p \in Periods : SetPriority(other, f, p)
        PROVE  ticks' = ticks
    BY <2>2 DEF ackVars, Hide, Show, SetPriority
  <2>3. ASSUME NEW other \in Clients,
               \/ Connect(other) \/ ClientDisconnect(other) \/ ReceiveUpdate(other)
               \/ \E t \in 1 .. serverTick : CleanupAcks(other, t)
        PROVE  ticks' = ticks
    BY <2>3 DEF ackVars, Connect, ClientDisconnect, ReceiveUpdate, CleanupAcks
  <2>4. ASSUME NEW other \in Clients,
               \/ \E arrived \in SUBSET mutates[other] : ReceiveMutations(other, arrived)
               \/ \E m \in mutates[other] : LoseMutation(other, m)
        PROVE  ticks' = ticks
    BY <2>4 DEF ackVars, ReceiveMutations, LoseMutation
  <2>5. PanicInSend \/ UNCHANGED vars => ticks' = ticks
    BY DEF vars, ackVars, PanicInSend
  <2> QED
    BY <2>1, <2>2, <2>3, <2>4, <2>5 DEF Next
<1> QED
  BY <1>1, <1>2, <1>3, <1>4, <1>5

LEMMA NothingHidesEntities ==
  ASSUME NoEntityScope, NEW fs \in SUBSET Filters
  PROVE  HiddenEntityLifetime(fs) = NotHidden /\ ~HidesEntity(fs)
<1>1. {f \in fs : Scope[f].kind = "Entity"} = {}
  BY DEF NoEntityScope
<1>2. ShortestLifetime({}) = NotHidden
  BY ShortestIsLeast
<1> QED
  BY <1>1, <1>2 DEF HiddenEntityLifetime, HidesEntity

\* A send that ends a record sends the despawn.
LEMMA SendEnds ==
  ASSUME NoEntityScope, StructureInv, UntrackedEnds, SendTick, NEW cl \in Clients,
         NEW e \in Entities \ Pausable, Linked(cl)', ticks'[cl][e] = NoTicks
  PROVE  Final(cl)'[e].history = 0
<1> DEFINE u == UpdateMessage(cl)
           old == IF e \in u.despawns THEN NoCopy ELSE Final(cl)[e]
<1>1. Linked(cl) /\ ticks'[cl][e] = AfterChanges(cl, e)
  BY DEF SendTick, Linked
<1>2. /\ HiddenEntityLifetime(hidden[cl][e]) = NotHidden /\ ~HidesEntity(lost[cl][e])
  BY NothingHidesEntities DEF StructureInv, DeliveryInv, TypeOK
<1>3. AfterRemovals(cl, e) = NoTicks /\ ~InUpdate(cl, e)
  BY <1>1, UpdateOfEntity DEF AfterChanges, NoTicks
<1>4. AfterDespawns(cl, e) = NoTicks /\ Removals(cl, e) = {}
  BY <1>3, RemovalsMatch
<1>5. Final(cl)[e].history = 0 \/ SendsDespawn(cl, e)
  BY <1>1, <1>2, <1>4 DEF AfterDespawns, Forgotten, VisibilityLost, SendsDespawn, UntrackedEnds
<1>6. e \notin u.changed /\ u.removals[e] = {} /\ (e \in u.despawns <=> SendsDespawn(cl, e))
  BY <1>3, <1>4, UpdateOfEntity
<1>7. Final(cl)'[e] = ApplyUpdate(u, e, Final(cl)[e])
  BY <1>1, PipelineGrows
<1> HIDE DEF u
<1>8. Final(cl)'[e] = old
  BY <1>6, <1>7 DEF ApplyUpdate
<1> QED
  BY <1>5, <1>6, <1>8 DEF NoCopy

LEMMA NextKeepsEnds ==
  ASSUME NoEntityScope, StructureInv, StructureInv', UntrackedEnds, [Next]_vars
  PROVE  UntrackedEnds'
<1> SUFFICES ASSUME NEW cl \in Clients, NEW e \in Entities \ Pausable,
                    Linked(cl)', ticks'[cl][e] = NoTicks
             PROVE  Final(cl)'[e].history = 0
  BY DEF UntrackedEnds
<1>1. CASE SendTick
  BY <1>1, SendEnds
<1>2. CASE ~SendTick /\ Linked(cl)
  <2>1. Final(cl)[e].history = 0 /\ Len(updates[cl]) \in 0 .. Len(updates[cl])
    BY <1>2, EndsWithoutRecord, PendingType DEF UntrackedEnds, StructureInv, DeliveryInv
  <2>2. CASE Kept(cl)
    BY <2>1, <2>2 DEF Kept, Similar, Final
  <2>3. CASE ReceiveUpdate(cl)
    BY <2>1, <2>3, PipelineShifts
  <2> QED
    BY <1>2, <2>2, <2>3, NextPipelines DEF StructureInv, Started
<1>3. CASE ~SendTick /\ ~Linked(cl)
  <2>1. Started(cl)
    BY <1>3, NextPipelines DEF StructureInv, Kept
  <2>2. Len(updates'[cl]) = 0 /\ TypeOK'
    BY <2>1 DEF Started, StructureInv, DeliveryInv
  <2>3. Final(cl)' = replica'[cl]
    BY <2>2, ReplayType DEF Final, Pending, TypeOK, Copies
  <2> QED
    BY <2>1, <2>3 DEF Started, NoCopy
<1> QED
  BY <1>1, <1>2, <1>3

LEMMA EndsHold ==
  ASSUME NoEntityScope
  PROVE  Spec => [](StructureInv /\ UntrackedEnds)
<1>1. Init => UntrackedEnds
  BY DEF Init, UntrackedEnds, Linked
<1>2. StructureInv /\ StructureInv' /\ UntrackedEnds /\ [Next]_vars => UntrackedEnds'
  BY NextKeepsEnds
<1> QED
  BY <1>1, <1>2, StructureHolds, PTL DEF Spec

\* An entity that ClientTicks no longer records is gone from the client, and no
\* mutate message in flight brings it back, when filters hide components only
\* (collect_despawns, apply_despawn; despawn_hidden_entity is the exception).
THEOREM DespawnsReachClients ==
  ASSUME NoEntityScope
  PROVE  Spec => []UntrackedIsGone
<1>1. StructureInv /\ UntrackedEnds => UntrackedIsGone
  <2> SUFFICES ASSUME StructureInv, UntrackedEnds, NEW cl \in Clients, NEW e \in Entities \ Pausable,
                      Linked(cl), ticks[cl][e] = NoTicks
               PROVE  Settled(cl)[e].history = 0
    BY DEF UntrackedIsGone
  <2>1. Final(cl)[e].history = 0
    BY DEF UntrackedEnds
  <2> QED
    BY <2>1, SettledSimilar DEF Similar
<1> QED
  BY <1>1, EndsHold, PTL

-----------------------------------------------------------------------------
\* The refinement.

LEMMA NoAfterFirst == NoEntityScope => NoEntityAfterFirst
  BY DEF NoEntityScope, NoEntityAfterFirst

LEMMA SimilarStructure ==
  ASSUME NEW copies, NEW later, \A e \in Entities : Similar(copies[e], later[e])
  PROVE  Structure(copies) = Structure(later)
  BY DEF Structure, Similar

LEMMA StructureType ==
  ASSUME NEW copies
  PROVE  Structure(copies) \in AllStructures
  BY DEF Structure, AllStructures, HeldComponents

\* The server's record is the structure at the end of the pipeline.
RecordsEnd == \A cl \in Clients : Linked(cl) => TrackedStructure(cl) = Structure(Final(cl))

LEMMA RecordIsEnd ==
  ASSUME NoEntityScope, Pausable = {}, StructureInv, UntrackedEnds
  PROVE  RecordsEnd
<1> SUFFICES ASSUME NEW cl \in Clients, Linked(cl), NEW e \in Entities
             PROVE  TrackedStructure(cl)[e] = Structure(Final(cl))[e]
  BY DEF RecordsEnd, TrackedStructure, Structure
<1>1. Matches(cl, e) /\ Final(cl)[e] \in Copy
  BY PendingType DEF StructureInv, TicksMatch, DeliveryInv
<1>2. CASE ticks[cl][e] = NoTicks
  <2>1. Final(cl)[e].history = 0
    BY <1>2 DEF UntrackedEnds
  <2> QED
    BY <1>2, <2>1 DEF TrackedStructure, Structure
<1>3. CASE ticks[cl][e] # NoTicks
  <2>1. Final(cl)[e].history # 0 /\ HeldComponents(Final(cl)[e]) = ticks[cl][e].components
    BY <1>1, <1>3, NoAfterFirst DEF Matches, Copy
  <2> QED
    BY <1>3, <2>1 DEF TrackedStructure, Structure
<1> QED
  BY <1>2, <1>3

LEMMA FunctionIsSeq ==
  ASSUME NEW S, NEW n \in Nat, NEW s \in [1 .. n -> S]
  PROVE  s \in Seq(S) /\ Len(s) = n
<1>1. s \in Seq(S)
  BY SeqDef
<1> QED
  BY <1>1, LenProperties

\* The pipeline as a sequence of structures.
PipelineOf(us, start) == [n \in 1 .. Len(us) + 1 |-> Structure(Replay(us, start)[n - 1])]

LEMMA PipelineType ==
  ASSUME NEW us \in Seq(Update), NEW start
  PROVE  PipelineOf(us, start) \in Seq(AllStructures) /\ Len(PipelineOf(us, start)) = Len(us) + 1
<1> DEFINE n == Len(us) + 1
           s == PipelineOf(us, start)
<1>1. s \in [1 .. n -> AllStructures]
  BY StructureType DEF PipelineOf
<1>2. n \in Nat
  OBVIOUS
<1> HIDE DEF s, n
<1>3. s \in Seq(AllStructures) /\ Len(s) = n
  BY <1>1, <1>2, FunctionIsSeq
<1> QED
  BY <1>3 DEF s, n

\* What the log shows of a client.
Recorded(cl) == IF Linked(cl) THEN TrackedStructure(cl) ELSE NoStructure
Shown(cl) == IF Linked(cl) THEN PipelineOf(updates[cl], replica[cl]) ELSE <<NoStructure>>

LEMMA KeptShown ==
  ASSUME StructureInv, RecordsEnd, RecordsEnd', NEW cl \in Clients, Kept(cl)
  PROVE  Recorded(cl)' = Recorded(cl) /\ Shown(cl)' = Shown(cl)
<1>1. Len(updates[cl]) \in Nat /\ Len(updates[cl]) \in 0 .. Len(updates[cl])
  BY PendingType DEF StructureInv, DeliveryInv
<1>2. \A k \in 0 .. Len(updates[cl]) : Structure(Pending(cl)'[k]) = Structure(Pending(cl)[k])
  BY SimilarStructure DEF Kept
<1>3. PipelineOf(updates[cl], replica[cl])' = PipelineOf(updates[cl], replica[cl])
  <2>1. \A n \in 1 .. Len(updates[cl]) + 1 : n - 1 \in 0 .. Len(updates[cl])
    BY <1>1
  <2> QED
    BY <1>2, <2>1 DEF PipelineOf, Kept, Pending
<1>4. Structure(Final(cl)') = Structure(Final(cl))
  BY <1>1, <1>2 DEF Final, Kept
<1> QED
  BY <1>3, <1>4 DEF Recorded, Shown, RecordsEnd, Kept

LEMMA StartedShown ==
  ASSUME StructureInv, StructureInv', RecordsEnd', NEW cl \in Clients, Started(cl)
  PROVE  Recorded(cl)' = Recorded(cl) /\ Shown(cl)' = Shown(cl)
<1>1. Len(updates'[cl]) = 0 /\ updates'[cl] \in Seq(Update) /\ replica'[cl] \in Copies
  BY DEF Started, StructureInv, DeliveryInv, TypeOK, Copies
<1>2. Replay(updates'[cl], replica'[cl])[0] = replica'[cl]
  BY <1>1, ReplayType
<1>3. Structure(replica'[cl]) = NoStructure
  BY DEF Started, Structure, NoStructure, NoCopy
<1>4. PipelineOf(updates'[cl], replica'[cl]) = <<NoStructure>>
  <2>1. 1 .. Len(updates'[cl]) + 1 = {1} /\ 1 - 1 = 0
    BY <1>1
  <2>2. PipelineOf(updates'[cl], replica'[cl]) = [n \in {1} |-> NoStructure]
    BY <1>2, <1>3, <2>1 DEF PipelineOf
  <2>3. <<NoStructure>> = [n \in {1} |-> NoStructure]
    OBVIOUS
  <2> QED
    BY <2>2, <2>3
<1>5. TrackedStructure(cl)' = NoStructure
  BY <1>1, <1>2, <1>3 DEF RecordsEnd, Started, Final, Pending
<1> QED
  BY <1>4, <1>5 DEF Recorded, Shown, Started

LEMMA UpdateShown ==
  ASSUME StructureInv, RecordsEnd, RecordsEnd', NEW cl \in Clients,
         ReceiveUpdate(cl), Linked(cl)' = Linked(cl)
  PROVE  /\ Recorded(cl)' = Recorded(cl)
         /\ Linked(cl) => Len(Shown(cl)) > 1 /\ Shown(cl)' = Tail(Shown(cl))
         /\ ~Linked(cl) => Shown(cl)' = Shown(cl)
<1> DEFINE n == Len(updates[cl])
           s == PipelineOf(updates[cl], replica[cl])
           t == PipelineOf(updates'[cl], replica'[cl])
<1>1. /\ n \in Nat /\ Len(updates'[cl]) = n - 1 /\ Final(cl)' = Final(cl)
      /\ \A k \in 0 .. n - 1 : k + 1 \in 0 .. n /\ Pending(cl)'[k] = Pending(cl)[k + 1]
  BY PipelineShifts
<1>2. updates[cl] # <<>> /\ updates[cl] \in Seq(Update) /\ updates'[cl] = Tail(updates[cl])
  BY DEF ReceiveUpdate, StructureInv, DeliveryInv, TypeOK
<1>3. n > 0 /\ updates'[cl] \in Seq(Update)
  BY <1>2
<1>4. s \in Seq(AllStructures) /\ Len(s) = n + 1 /\ t \in Seq(AllStructures) /\ Len(t) = n
  <2>1. s \in Seq(AllStructures) /\ Len(s) = n + 1
    BY <1>2, PipelineType
  <2>2. t \in Seq(AllStructures) /\ Len(t) = Len(updates'[cl]) + 1
    BY <1>3, PipelineType
  <2> HIDE DEF s, t, n
  <2> QED
    BY <1>1, <2>1, <2>2
<1>5. \A i \in 1 .. n : t[i] = s[i + 1]
  <2> SUFFICES ASSUME NEW i \in 1 .. n PROVE t[i] = s[i + 1]
    OBVIOUS
  <2>1. i - 1 \in 0 .. n - 1 /\ (i - 1) + 1 = i /\ (i + 1) - 1 = i /\ i + 1 \in 1 .. n + 1
        /\ i \in 1 .. Len(updates'[cl]) + 1
    BY <1>1
  <2>2. Pending(cl)'[i - 1] = Pending(cl)[i]
    BY <1>1, <2>1
  <2> QED
    BY <2>1, <2>2 DEF PipelineOf, Pending
<1>6. t = Tail(s)
  <2> HIDE DEF s, t, n
  <2>1. s # <<>>
    BY <1>1, <1>4
  <2>2. Tail(s) \in Seq(AllStructures) /\ Len(Tail(s)) = n /\ \A i \in 1 .. n : Tail(s)[i] = s[i + 1]
    BY <1>1, <1>4, <2>1, HeadTailProperties
  <2> QED
    BY <1>4, <1>5, <2>2, SeqEqual
<1>7. Linked(cl) => TrackedStructure(cl)' = TrackedStructure(cl)
  BY <1>1 DEF RecordsEnd
<1> QED
  BY <1>1, <1>3, <1>4, <1>6, <1>7 DEF Recorded, Shown

LEMMA SentShown ==
  ASSUME StructureInv, StructureInv', RecordsEnd, RecordsEnd', SendTick, NEW cl \in Clients
  PROVE  \/ Recorded(cl)' = Recorded(cl) /\ Shown(cl)' = Shown(cl)
         \/ Recorded(cl)' \in AllStructures /\ Shown(cl)' = Append(Shown(cl), Recorded(cl)')
<1> DEFINE n == Len(updates[cl])
           s == PipelineOf(updates[cl], replica[cl])
           t == PipelineOf(updates'[cl], replica'[cl])
<1>1. /\ n \in Nat
      /\ \A k \in 0 .. n : Pending(cl)'[k] = Pending(cl)[k]
      /\ \/ Len(updates'[cl]) = n /\ Final(cl)' = Final(cl)
         \/ Len(updates'[cl]) = n + 1
  BY PipelineGrows
<1>2. Linked(cl)' = Linked(cl)
  BY DEF SendTick, Linked
<1>3. updates[cl] \in Seq(Update) /\ updates'[cl] \in Seq(Update)
  BY DEF StructureInv, DeliveryInv, TypeOK
<1>4. s \in Seq(AllStructures) /\ Len(s) = n + 1
  BY <1>3, PipelineType
<1>5. t \in Seq(AllStructures) /\ Len(t) = Len(updates'[cl]) + 1
  BY <1>3, PipelineType
<1>6. ASSUME NEW i \in 1 .. n + 1, Len(updates'[cl]) \in {n, n + 1}
      PROVE  t[i] = s[i]
  <2>1. i - 1 \in 0 .. n /\ i \in 1 .. Len(updates'[cl]) + 1
    BY <1>1, <1>6
  <2> QED
    BY <1>1, <2>1 DEF PipelineOf, Pending
<1>7. CASE ~Linked(cl)
  BY <1>2, <1>7 DEF Recorded, Shown
<1>8. CASE Linked(cl) /\ Len(updates'[cl]) = n
  <2>1. t = s
    <3> HIDE DEF s, t, n
    <3> QED
      BY <1>4, <1>5, <1>6, <1>8, SeqEqual
  <2>2. TrackedStructure(cl)' = TrackedStructure(cl)
    <3>1. Final(cl)' = Final(cl)
      <4> HIDE DEF n
      <4> QED
        BY <1>1, <1>8
    <3> QED
      BY <1>2, <1>8, <3>1 DEF RecordsEnd
  <2> QED
    BY <1>2, <1>8, <2>1, <2>2 DEF Recorded, Shown
<1>9. CASE Linked(cl) /\ Len(updates'[cl]) = n + 1
  <2> DEFINE last == TrackedStructure(cl)'
  <2>1. last = Structure(Final(cl)') /\ last \in AllStructures
    BY <1>2, <1>9, StructureType DEF RecordsEnd
  <2>2. t[n + 2] = last
    <3>1. n + 2 \in 1 .. Len(updates'[cl]) + 1 /\ (n + 2) - 1 = Len(updates'[cl])
      BY <1>1, <1>9
    <3> QED
      BY <2>1, <3>1 DEF PipelineOf, Final, Pending
  <2>3. t = Append(s, last)
    <3> HIDE DEF s, t, n, last
    <3>1. /\ Append(s, last) \in Seq(AllStructures) /\ Len(Append(s, last)) = n + 2
          /\ \A i \in 1 .. n + 1 : Append(s, last)[i] = s[i]
          /\ Append(s, last)[n + 2] = last
      BY <1>1, <1>4, <2>1
    <3>2. \A i \in 1 .. n + 2 : t[i] = Append(s, last)[i]
      <4> SUFFICES ASSUME NEW i \in 1 .. n + 2 PROVE t[i] = Append(s, last)[i]
        OBVIOUS
      <4>1. CASE i = n + 2
        BY <2>2, <3>1, <4>1
      <4>2. CASE i # n + 2
        <5>1. i \in 1 .. n + 1
          BY <1>1, <4>2
        <5> QED
          BY <1>6, <1>9, <3>1, <5>1
      <4> QED
        BY <4>1, <4>2
    <3>3. Len(t) = n + 2
      BY <1>1, <1>5, <1>9
    <3> QED
      BY <1>5, <3>1, <3>2, <3>3, SeqEqual
  <2> QED
    BY <1>2, <1>9, <2>1, <2>3 DEF Recorded, Shown
<1> QED
  BY <1>1, <1>7, <1>8, <1>9

LEMMA EndedShown ==
  ASSUME NEW cl \in Clients, ~Linked(cl)'
  PROVE  Recorded(cl)' = NoStructure /\ Shown(cl)' = <<NoStructure>>
  BY DEF Recorded, Shown

\* The log's variables.
LogServer == [cl \in Clients |-> IF Linked(cl) THEN TrackedStructure(cl) ELSE NoStructure]
LogPipeline == [cl \in Clients |-> IF Linked(cl) THEN Pipeline(cl) ELSE <<NoStructure>>]

LEMMA LogVariables ==
  /\ LogServer = [cl \in Clients |-> Recorded(cl)]
  /\ LogServer' = [cl \in Clients |-> Recorded(cl)']
  /\ LogPipeline = [cl \in Clients |-> Shown(cl)]
  /\ LogPipeline' = [cl \in Clients |-> Shown(cl)']
<1>1. \A cl \in Clients : /\ Pipeline(cl) = PipelineOf(updates[cl], replica[cl])
                          /\ Pipeline(cl)' = PipelineOf(updates'[cl], replica'[cl])
  BY DEF Pipeline, PipelineOf, Replay, Applied
<1>2. \A cl \in Clients : /\ Recorded(cl) = IF Linked(cl) THEN TrackedStructure(cl) ELSE NoStructure
                          /\ Recorded(cl)' = IF Linked(cl)' THEN TrackedStructure(cl)' ELSE NoStructure
  BY DEF Recorded
<1>3. \A cl \in Clients : /\ Shown(cl) = IF Linked(cl) THEN Pipeline(cl) ELSE <<NoStructure>>
                          /\ Shown(cl)' = IF Linked(cl)' THEN Pipeline(cl)' ELSE <<NoStructure>>
  BY <1>1 DEF Shown
<1> QED
  BY <1>2, <1>3 DEF LogServer, LogPipeline

LEMMA RefinedStep ==
  ASSUME StructureInv, StructureInv', RecordsEnd, RecordsEnd', [Next]_vars
  PROVE  \/ UNCHANGED <<LogServer, LogPipeline>>
         \/ \A cl \in Clients :
              \/ LogServer'[cl] = LogServer[cl] /\ LogPipeline'[cl] = LogPipeline[cl]
              \/ /\ LogServer'[cl] \in AllStructures
                 /\ LogPipeline'[cl] = Append(LogPipeline[cl], LogServer'[cl])
         \/ \E cl \in Clients :
              \/ /\ Len(LogPipeline[cl]) > 1
                 /\ LogPipeline' = [LogPipeline EXCEPT ![cl] = Tail(@)]
                 /\ UNCHANGED LogServer
              \/ /\ LogServer' = [LogServer EXCEPT ![cl] = NoStructure]
                 /\ LogPipeline' = [LogPipeline EXCEPT ![cl] = <<NoStructure>>]
<1>1. CASE SendTick
  BY <1>1, SentShown, LogVariables
<1>2. CASE \A cl \in Clients : Kept(cl)
  BY <1>2, KeptShown, LogVariables
<1>3. ASSUME NEW cl \in Clients, \A other \in Clients : other # cl => Kept(other),
             \/ ReceiveUpdate(cl) /\ Linked(cl)' = Linked(cl)
             \/ ~Linked(cl)'
             \/ Started(cl)
      PROVE  \/ UNCHANGED <<LogServer, LogPipeline>>
             \/ /\ Len(LogPipeline[cl]) > 1
                /\ LogPipeline' = [LogPipeline EXCEPT ![cl] = Tail(@)]
                /\ UNCHANGED LogServer
             \/ /\ LogServer' = [LogServer EXCEPT ![cl] = NoStructure]
                /\ LogPipeline' = [LogPipeline EXCEPT ![cl] = <<NoStructure>>]
  <2>1. \A other \in Clients : other # cl =>
          Recorded(other)' = Recorded(other) /\ Shown(other)' = Shown(other)
    BY <1>3, KeptShown
  <2>2. CASE ReceiveUpdate(cl) /\ Linked(cl)' = Linked(cl)
    <3>1. /\ Recorded(cl)' = Recorded(cl)
          /\ \/ Shown(cl)' = Shown(cl)
             \/ Len(Shown(cl)) > 1 /\ Shown(cl)' = Tail(Shown(cl))
      BY <2>2, UpdateShown
    <3> QED
      BY <2>1, <3>1, LogVariables
  <2>3. CASE ~Linked(cl)'
    <3>1. Recorded(cl)' = NoStructure /\ Shown(cl)' = <<NoStructure>>
      BY <2>3, EndedShown
    <3> QED
      BY <2>1, <3>1, LogVariables
  <2>4. CASE Started(cl)
    <3>1. Recorded(cl)' = Recorded(cl) /\ Shown(cl)' = Shown(cl)
      BY <2>4, StartedShown
    <3> QED
      BY <2>1, <3>1, LogVariables
  <2> QED
    BY <1>3, <2>2, <2>3, <2>4
<1> QED
  BY <1>1, <1>2, <1>3, NextPipelines DEF StructureInv

\* Structure reaches every client in the order of the server and in full: the
\* copies of a client are, one update message after the other, what ClientTicks
\* recorded when the message was sent (collect_* to apply_update_message), and
\* no mutate message, loss or acknowledgement changes them in between.
THEOREM StructureLogImplemented ==
  ASSUME NoEntityScope, Pausable = {}
  PROVE  Spec => ImplementsStructureLog
<1>1. Init => Log!LogInit
  <2> SUFFICES ASSUME Init PROVE Log!LogInit
    OBVIOUS
  <2>1. \A cl \in Clients : ~Linked(cl)
    BY DEF Init, Linked
  <2> QED
    BY <2>1 DEF Log!LogInit
<1>2. StructureInv /\ StructureInv' /\ RecordsEnd /\ RecordsEnd' /\ [Next]_vars => [Log!LogNext]_(Log!logVars)
  <2> SUFFICES ASSUME StructureInv, StructureInv', RecordsEnd, RecordsEnd', [Next]_vars
               PROVE  [Log!LogNext]_(Log!logVars)
    OBVIOUS
  <2> QED
    BY RefinedStep
       DEF LogServer, LogPipeline, Log!LogNext, Log!logVars, Log!Publish, Log!Advance, Log!Restart
<1>3. StructureInv /\ UntrackedEnds => RecordsEnd
  BY RecordIsEnd
<1> QED
  BY <1>1, <1>2, <1>3, EndsHold, PTL DEF Spec, ImplementsStructureLog, Log!LogSpec
=============================================================================
