---------------------- MODULE ReplicationValues_proofs ----------------------
(***************************************************************************)
(* The proof of ValuesAdvance: no order of delivery sets a component of a  *)
(* client back to an older value.  The confirmed tick of an entity guards  *)
(* all its components at once, so the proof relates every message on its   *)
(* way to every other one, to the client's copy and to the world.          *)
(***************************************************************************)
EXTENDS Replication_proofs

\* The messages that can still change a client's copies.
OnTheWay(cl) ==
  mutates[cl] \cup buffered[cl] \cup {updates[cl][n] : n \in DOMAIN updates[cl]}

\* A value written into a later message is never older: neither than the one
\* in an earlier message nor than the client's, unless the message has none.
ValuesInOrder ==
  \A cl \in Clients, e \in Entities, c \in Components :
    /\ world[e][c] = 0 \/ replica[cl][e].values[c] <= world[e][c]
    /\ \A m \in OnTheWay(cl) :
         /\ world[e][c] = 0 \/ m.values[e][c] <= world[e][c]
         /\ m.tick > replica[cl][e].history =>
              m.values[e][c] = 0 \/ replica[cl][e].values[c] <= m.values[e][c]
         /\ \A n \in OnTheWay(cl) :
              m.tick <= n.tick => n.values[e][c] = 0 \/ m.values[e][c] <= n.values[e][c]

ValuesInv == DeliveryInv /\ ValuesInOrder

\* Every number the proof compares is a natural.
LEMMA OnTheWayType ==
  ASSUME TypeOK, NEW cl \in Clients, NEW m \in OnTheWay(cl), NEW e \in Entities, NEW c \in Components
  PROVE  m.tick \in Nat /\ m.values[e][c] \in Nat
<1>1. CASE m \in mutates[cl] \cup buffered[cl]
  BY <1>1 DEF TypeOK, Mutate, Stamps
<1>2. ASSUME NEW n \in DOMAIN updates[cl], m = updates[cl][n]
      PROVE  m \in Update
  BY <1>2 DEF TypeOK
<1> QED
  BY <1>1, <1>2 DEF OnTheWay, Update, Stamps

LEMMA CopyType ==
  ASSUME TypeOK, NEW cl \in Clients, NEW e \in Entities, NEW c \in Components
  PROVE  /\ replica[cl][e].history \in Nat /\ replica[cl][e].values[c] \in Nat
         /\ world[e][c] \in Nat
  BY DEF TypeOK, Copy, Stamps

LEMMA OnTheWayBounded ==
  ASSUME DeliveryInv, NEW cl \in Clients, NEW m \in OnTheWay(cl), NEW e \in Entities, NEW c \in Components
  PROVE  m.tick <= serverTick /\ m.values[e][c] <= serverTick
<1>1. serverTick \in Nat /\ m.tick \in Nat /\ m.values[e][c] \in Nat
  BY OnTheWayType DEF DeliveryInv, TypeOK
<1>2. m.tick <= serverTick /\ m.values[e][c] <= m.tick
  BY DEF OnTheWay, DeliveryInv, StampsBounded, UpdatesInOrder
<1> QED
  BY <1>1, <1>2

-----------------------------------------------------------------------------
\* Steps that take nothing in: the messages and copies can only disappear.
LEMMA FewerKeepValues ==
  ASSUME ValuesInv, UNCHANGED world,
         \A cl \in Clients : /\ OnTheWay(cl)' \subseteq OnTheWay(cl)
                             /\ \A e \in Entities : replica'[cl][e] \in {replica[cl][e], NoCopy}
  PROVE  ValuesInOrder'
<1> SUFFICES ASSUME NEW cl \in Clients, NEW e \in Entities, NEW c \in Components
             PROVE  /\ world[e][c] = 0 \/ replica'[cl][e].values[c] <= world[e][c]
                    /\ \A m \in OnTheWay(cl) :
                         m.tick > replica'[cl][e].history =>
                           m.values[e][c] = 0 \/ replica'[cl][e].values[c] <= m.values[e][c]
  BY DEF ValuesInv, ValuesInOrder
<1>1. CASE replica'[cl][e] = replica[cl][e]
  BY <1>1 DEF ValuesInv, ValuesInOrder
<1>2. CASE replica'[cl][e] = NoCopy
  <2>1. replica'[cl][e].values[c] = 0
    BY <1>2 DEF NoCopy, NoStamps
  <2>2. world[e][c] \in Nat /\ \A m \in OnTheWay(cl) : m.values[e][c] \in Nat
    BY OnTheWayType, CopyType DEF ValuesInv, DeliveryInv
  <2> QED
    BY <2>1, <2>2
<1> QED
  BY <1>1, <1>2

\* A change of the world is stamped with the next tick, which no message has.
LEMMA ChangeKeepsValues ==
  ASSUME ValuesInv, UNCHANGED <<mutates, buffered, updates, replica>>,
         \A e \in Entities, c \in Components : world'[e][c] \in {world[e][c], 0, serverTick + 1}
  PROVE  ValuesInOrder'
<1>1. ASSUME NEW cl \in Clients, NEW e \in Entities, NEW c \in Components
      PROVE  /\ world'[e][c] = 0 \/ replica[cl][e].values[c] <= world'[e][c]
             /\ \A m \in OnTheWay(cl) : world'[e][c] = 0 \/ m.values[e][c] <= world'[e][c]
  <2>1. /\ serverTick \in Nat /\ replica[cl][e].values[c] \in Nat
        /\ replica[cl][e].history \in Nat
    BY CopyType DEF ValuesInv, DeliveryInv, TypeOK
  <2>2. replica[cl][e].values[c] <= serverTick + 1
    BY <2>1 DEF ValuesInv, DeliveryInv, StampsBounded, HistoryInOrder
  <2>3. \A m \in OnTheWay(cl) : m.values[e][c] \in Nat /\ m.values[e][c] <= serverTick + 1
    BY <2>1, OnTheWayType, OnTheWayBounded DEF ValuesInv, DeliveryInv
  <2>4. CASE world'[e][c] = world[e][c]
    BY <2>4 DEF ValuesInv, ValuesInOrder
  <2>5. CASE world'[e][c] = serverTick + 1
    BY <2>2, <2>3, <2>5
  <2> QED
    BY <2>4, <2>5
<1>2. \A cl \in Clients : OnTheWay(cl)' = OnTheWay(cl)
  BY DEF OnTheWay
<1> QED
  BY <1>1, <1>2 DEF ValuesInv, ValuesInOrder

-----------------------------------------------------------------------------
\* The elements of a sequence after Append.
LEMMA Appended ==
  ASSUME NEW S, NEW s \in Seq(S), NEW x \in S, NEW n \in DOMAIN Append(s, x)
  PROVE  \/ n \in DOMAIN s /\ Append(s, x)[n] = s[n]
         \/ n = Len(s) + 1 /\ Append(s, x)[n] = x
<1>1. n \in 1 .. Len(s) \/ n = Len(s) + 1
  OBVIOUS
<1>2. CASE n \in 1 .. Len(s)
  BY <1>2
<1>3. CASE n = Len(s) + 1
  BY <1>3
<1> QED
  BY <1>1, <1>2, <1>3

\* A send: the new messages have its tick and the values of the world.
LEMMA SendKeepsValues ==
  ASSUME ValuesInv, SendTick
  PROVE  ValuesInOrder'
<1> USE DEF ValuesInv, DeliveryInv
<1>1. /\ serverTick \in Nat /\ Now = serverTick + 1 /\ Now \in Nat
      /\ UNCHANGED <<world, buffered, replica>>
  BY DEF TypeOK, Now, SendTick, clientVars
<1>2. PICK packet \in [Clients -> [Entities -> 1 .. MaxPackets]] :
        mutates' = [cl \in Clients |->
          IF connected[cl] /\ clientUp[cl]
          THEN mutates[cl] \cup MutateMessages(cl, packet[cl]) ELSE mutates[cl]]
  BY DEF SendTick
<1> DEFINE New(m) == /\ m.tick = Now
                     /\ \A e \in Entities, c \in Components : m.values[e][c] \in {0, world[e][c]}
<1>3. \A cs : \A e \in Entities, c \in Components : Written(e, cs)[c] \in {0, world[e][c]}
  BY DEF Written
<1>4. ASSUME NEW cl \in Clients, NEW m \in MutateMessages(cl, packet[cl])
      PROVE  New(m)
  BY <1>3 DEF MutateMessages, NoStamps
<1>5. ASSUME NEW cl \in Clients
      PROVE  New(UpdateMessage(cl))
  BY <1>3 DEF UpdateMessage, NoStamps
<1>6. ASSUME NEW cl \in Clients, NEW m \in OnTheWay(cl)'
      PROVE  m \in OnTheWay(cl) \/ New(m)
  <2>1. CASE m \in mutates'[cl] \cup buffered'[cl]
    BY <1>1, <1>2, <1>4, <2>1 DEF OnTheWay
  <2>2. ASSUME NEW n \in DOMAIN updates'[cl], m = updates'[cl][n]
        PROVE  m \in OnTheWay(cl) \/ m = UpdateMessage(cl)
    <3>1. updates[cl] \in Seq(Update) /\ UpdateMessage(cl) \in Update
      BY UpdateMessageType DEF TypeOK
    <3>2. updates'[cl] \in {updates[cl], Append(updates[cl], UpdateMessage(cl))}
      BY DEF SendTick
    <3>3. (n \in DOMAIN updates[cl] /\ m = updates[cl][n]) \/ m = UpdateMessage(cl)
      <4>1. CASE updates'[cl] = updates[cl]
        BY <2>2, <4>1
      <4>2. CASE updates'[cl] = Append(updates[cl], UpdateMessage(cl))
        BY <2>2, <3>1, <4>2, Appended
      <4> QED
        BY <3>2, <4>1, <4>2
    <3> QED
      BY <3>3 DEF OnTheWay
  <2> QED
    BY <1>5, <2>1, <2>2 DEF OnTheWay
<1>7. ASSUME NEW cl \in Clients, NEW e \in Entities, NEW c \in Components, NEW m \in OnTheWay(cl)'
      PROVE  /\ world[e][c] = 0 \/ m.values[e][c] <= world[e][c]
             /\ m.tick > replica[cl][e].history =>
                  m.values[e][c] = 0 \/ replica[cl][e].values[c] <= m.values[e][c]
             /\ \A n \in OnTheWay(cl)' :
                  m.tick <= n.tick => n.values[e][c] = 0 \/ m.values[e][c] <= n.values[e][c]
  <2>0. world[e][c] \in Nat
    BY CopyType
  <2>1. \A n \in OnTheWay(cl) : /\ n.tick \in Nat /\ n.tick < Now
                                /\ world[e][c] = 0 \/ n.values[e][c] <= world[e][c]
    BY <1>1, OnTheWayType, OnTheWayBounded DEF ValuesInOrder
  <2>2. world[e][c] = 0 \/ replica[cl][e].values[c] <= world[e][c]
    BY DEF ValuesInOrder
  <2>3. CASE m \in OnTheWay(cl)
    <3>1. ASSUME NEW n \in OnTheWay(cl)', m.tick <= n.tick
          PROVE  n.values[e][c] = 0 \/ m.values[e][c] <= n.values[e][c]
      <4>1. CASE n \in OnTheWay(cl)
        BY <2>3, <3>1, <4>1 DEF ValuesInOrder
      <4>2. CASE New(n)
        BY <2>1, <2>3, <4>2
      <4> QED
        BY <1>6, <4>1, <4>2
    <3> QED
      BY <2>3, <3>1 DEF ValuesInOrder
  <2>4. CASE New(m)
    <3>1. ASSUME NEW n \in OnTheWay(cl)', m.tick <= n.tick
          PROVE  n.values[e][c] = 0 \/ m.values[e][c] <= n.values[e][c]
      <4>1. New(n)
        BY <1>1, <1>6, <2>1, <2>4, <3>1
      <4> QED
        BY <2>0, <2>4, <4>1
    <3> QED
      BY <2>0, <2>2, <2>4, <3>1
  <2> QED
    BY <1>6, <2>3, <2>4
<1> QED
  BY <1>1, <1>7 DEF ValuesInOrder
-----------------------------------------------------------------------------
\* The client's side.  An update message leaves a copy, drops it or confirms it.
LEMMA UpdateTakes ==
  ASSUME NEW u, NEW e, NEW copy
  PROVE  \/ ApplyUpdate(u, e, copy) \in {copy, NoCopy}
         \/ /\ ApplyUpdate(u, e, copy).history = u.tick
            /\ \A c \in Components :
                 \/ ApplyUpdate(u, e, copy).values[c] \in {0, copy.values[c]}
                 \/ u.values[e][c] > 0 /\ ApplyUpdate(u, e, copy).values[c] = u.values[e][c]
<1> DEFINE old == IF e \in u.despawns THEN NoCopy ELSE copy
<1>1. \A c \in Components : old.values[c] \in {0, copy.values[c]}
  BY DEF NoCopy, NoStamps
<1>2. CASE e \in u.changed \/ (old.history > 0 /\ u.removals[e] # {})
  <2>1. ApplyUpdate(u, e, copy) =
          [history |-> u.tick,
           values |-> [c \in Components |->
                         IF u.values[e][c] > 0 THEN u.values[e][c]
                         ELSE IF c \in u.removals[e] THEN 0 ELSE old.values[c]]]
    BY <1>2 DEF ApplyUpdate
  <2> HIDE DEF old
  <2> QED
    BY <1>1, <2>1
<1>3. CASE ~(e \in u.changed \/ (old.history > 0 /\ u.removals[e] # {}))
  BY <1>3 DEF ApplyUpdate
<1> QED
  BY <1>2, <1>3

\* A step leaves a copy, drops it or takes values from a
\* message later than the copy.
LEMMA CopyTakes ==
  ASSUME DeliveryInv, [Next]_vars, NEW cl \in Clients, NEW e \in Entities
  PROVE  \/ replica'[cl][e] \in {replica[cl][e], NoCopy}
         \/ \E m \in OnTheWay(cl) :
              /\ m.tick > replica[cl][e].history /\ replica'[cl][e].history = m.tick
              /\ \A c \in Components :
                   \/ replica'[cl][e].values[c] \in {0, replica[cl][e].values[c]}
                   \/ m.values[e][c] > 0 /\ replica'[cl][e].values[c] = m.values[e][c]
<1> USE DEF DeliveryInv
<1> DEFINE old == replica[cl][e]
<1>1. CASE ReceiveUpdate(cl)
  <2> DEFINE u == Head(updates[cl])
  <2>1. updates[cl] # <<>> /\ replica'[cl][e] = ApplyUpdate(u, e, old)
    BY <1>1 DEF ReceiveUpdate, TypeOK
  <2>2. u \in OnTheWay(cl) /\ u.tick > old.history
    BY <2>1, NextUpdate, CopyType DEF OnTheWay, Copy
  <2>3. CASE replica'[cl][e] \in {old, NoCopy}
    BY <2>3
  <2>4. CASE replica'[cl][e] \notin {old, NoCopy}
    <3>1. /\ replica'[cl][e].history = u.tick
          /\ \A c \in Components :
               \/ replica'[cl][e].values[c] \in {0, old.values[c]}
               \/ u.values[e][c] > 0 /\ replica'[cl][e].values[c] = u.values[e][c]
      BY <2>1, <2>4, UpdateTakes
    <3> QED
      BY <2>2, <3>1
  <2> QED
    BY <2>3, <2>4
<1>2. ASSUME NEW arrived \in SUBSET mutates[cl], ReceiveMutations(cl, arrived)
      PROVE  \/ replica'[cl][e] = old
             \/ \E m \in OnTheWay(cl) :
                  /\ m.tick > old.history /\ replica'[cl][e].history = m.tick
                  /\ \A c \in Components :
                       \/ replica'[cl][e].values[c] = old.values[c]
                       \/ m.values[e][c] > 0 /\ replica'[cl][e].values[c] = m.values[e][c]
  <2> DEFINE ready == Ready(cl, buffered[cl] \cup arrived)
             newer == {m \in ready : Carries(m, e) /\ m.tick > old.history}
  <2>1. replica'[cl][e] = ApplyMutations(ready, e, old)
    BY <1>2 DEF ReceiveMutations, TypeOK
  <2>2. ready \subseteq OnTheWay(cl) /\ newer \subseteq ready
    BY DEF Ready, OnTheWay
  <2>3. /\ newer \in SUBSET Mutate /\ serverTick \in Nat
        /\ \A m \in newer : m.tick <= serverTick
    BY DEF TypeOK, StampsBounded, Ready
  <2>4. CASE old.history = 0 \/ newer = {}
    BY <2>1, <2>4 DEF ApplyMutations
  <2>5. CASE ~(old.history = 0 \/ newer = {})
    <3>1. Newest(newer) \in newer
      BY <2>3, <2>5, NewestIsMax
    <3>2. replica'[cl][e] = [history |-> Newest(newer).tick,
                             values |-> Overwritten(old.values, Newest(newer), e)]
      BY <2>1, <2>5 DEF ApplyMutations
    <3>3. Newest(newer) \in OnTheWay(cl) /\ Newest(newer).tick > old.history
      BY <2>2, <3>1
    <3> HIDE DEF newer
    <3>4. \A c \in Components :
            \/ replica'[cl][e].values[c] = old.values[c]
            \/ Newest(newer).values[e][c] > 0 /\ replica'[cl][e].values[c] = Newest(newer).values[e][c]
      BY <3>2 DEF Overwritten
    <3> QED
      BY <3>2, <3>3, <3>4
  <2> QED
    BY <2>4, <2>5
<1>3. CASE ClientDisconnect(cl)
  BY <1>3 DEF ClientDisconnect, TypeOK
<1> QED
  BY <1>1, <1>2, <1>3, CopyChanges

\* Only the newest value passes: what a copy takes is not older than what it had.
LEMMA CopyTakesNewer ==
  ASSUME ValuesInv, [Next]_vars, NEW cl \in Clients, NEW e \in Entities, NEW c \in Components
  PROVE  replica'[cl][e].values[c] = 0 \/ replica'[cl][e].values[c] >= replica[cl][e].values[c]
<1>1. replica[cl][e].values[c] \in Nat
  BY CopyType DEF ValuesInv, DeliveryInv
<1>2. CASE replica'[cl][e] \in {replica[cl][e], NoCopy}
  BY <1>1, <1>2 DEF NoCopy, NoStamps
<1>3. ASSUME NEW m \in OnTheWay(cl), m.tick > replica[cl][e].history,
             \/ replica'[cl][e].values[c] \in {0, replica[cl][e].values[c]}
             \/ m.values[e][c] > 0 /\ replica'[cl][e].values[c] = m.values[e][c]
      PROVE  replica'[cl][e].values[c] = 0 \/ replica'[cl][e].values[c] >= replica[cl][e].values[c]
  <2>1. m.values[e][c] \in Nat
    BY OnTheWayType DEF ValuesInv, DeliveryInv
  <2>2. m.values[e][c] = 0 \/ replica[cl][e].values[c] <= m.values[e][c]
    BY <1>3 DEF ValuesInv, ValuesInOrder
  <2> QED
    BY <1>1, <1>3, <2>1, <2>2
<1> QED
  BY <1>2, <1>3, CopyTakes DEF ValuesInv

LEMMA ReceiveKeepsValues ==
  ASSUME ValuesInv, [Next]_vars, UNCHANGED world,
         \A cl \in Clients : OnTheWay(cl)' \subseteq OnTheWay(cl)
  PROVE  ValuesInOrder'
<1> SUFFICES ASSUME NEW cl \in Clients, NEW e \in Entities, NEW c \in Components
             PROVE  /\ world[e][c] = 0 \/ replica'[cl][e].values[c] <= world[e][c]
                    /\ \A m \in OnTheWay(cl) :
                         m.tick > replica'[cl][e].history =>
                           m.values[e][c] = 0 \/ replica'[cl][e].values[c] <= m.values[e][c]
  BY DEF ValuesInv, ValuesInOrder
<1>1. /\ replica[cl][e].history \in Nat /\ replica[cl][e].values[c] \in Nat /\ world[e][c] \in Nat
      /\ \A m \in OnTheWay(cl) : m.tick \in Nat /\ m.values[e][c] \in Nat
  BY CopyType, OnTheWayType DEF ValuesInv, DeliveryInv
<1>2. CASE replica'[cl][e] = replica[cl][e]
  BY <1>2 DEF ValuesInv, ValuesInOrder
<1>3. CASE replica'[cl][e] = NoCopy
  BY <1>1, <1>3 DEF NoCopy, NoStamps
<1>4. ASSUME NEW n \in OnTheWay(cl), n.tick > replica[cl][e].history,
             replica'[cl][e].history = n.tick,
             \/ replica'[cl][e].values[c] \in {0, replica[cl][e].values[c]}
             \/ n.values[e][c] > 0 /\ replica'[cl][e].values[c] = n.values[e][c]
      PROVE  /\ world[e][c] = 0 \/ replica'[cl][e].values[c] <= world[e][c]
             /\ \A m \in OnTheWay(cl) :
                  m.tick > replica'[cl][e].history =>
                    m.values[e][c] = 0 \/ replica'[cl][e].values[c] <= m.values[e][c]
  <2>1. CASE replica'[cl][e].values[c] = 0
    BY <1>1, <2>1
  <2>2. CASE replica'[cl][e].values[c] = replica[cl][e].values[c]
    BY <1>1, <1>4, <2>2 DEF ValuesInv, ValuesInOrder
  <2>3. CASE replica'[cl][e].values[c] = n.values[e][c]
    BY <1>1, <1>4, <2>3 DEF ValuesInv, ValuesInOrder
  <2> QED
    BY <1>4, <2>1, <2>2, <2>3
<1> QED
  BY <1>2, <1>3, <1>4, CopyTakes DEF ValuesInv

-----------------------------------------------------------------------------
LEMMA NextKeepsValues == ValuesInv /\ [Next]_vars => ValuesInv'
<1> SUFFICES ASSUME ValuesInv, [Next]_vars PROVE ValuesInOrder'
  BY NextKeepsDelivery DEF ValuesInv
<1> USE DEF vars, worldVars, ackVars, sentVars, visibilityVars, channelVars, clientVars
<1>1. ASSUME NEW e \in Entities,
             \/ Spawn(e) \/ Despawn(e) \/ Pause(e)
             \/ \E c \in Components : Write(e, c) \/ Remove(e, c)
      PROVE  ValuesInOrder'
  <2>1. UNCHANGED <<mutates, buffered, updates, replica>>
    BY <1>1 DEF Spawn, Despawn, Pause, Write, Remove
  <2>2. world \in [Entities -> [Components -> Nat]]
    BY DEF ValuesInv, DeliveryInv, TypeOK, Stamps
  <2>3. \A f \in Entities, d \in Components : world'[f][d] \in {world[f][d], 0, serverTick + 1}
    BY <1>1, <2>2 DEF Spawn, Despawn, Pause, Write, Remove, NoStamps
  <2> QED
    BY <2>1, <2>3, ChangeKeepsValues
<1>2. CASE SendTick
  BY <1>2, SendKeepsValues
<1>3. CASE UNCHANGED <<world, mutates, buffered, updates, replica>>
  <2>1. \A cl \in Clients : OnTheWay(cl)' = OnTheWay(cl)
    BY <1>3 DEF OnTheWay
  <2> QED
    BY <1>3, <2>1, FewerKeepValues
<1>4. ASSUME NEW cl \in Clients,
             \/ ReceiveUpdate(cl) \/ ClientDisconnect(cl)
             \/ \E arrived \in SUBSET mutates[cl] : ReceiveMutations(cl, arrived)
             \/ \E m \in mutates[cl] : LoseMutation(cl, m)
      PROVE  ValuesInOrder'
  <2> USE DEF ValuesInv, DeliveryInv
  <2>1. UNCHANGED world
    BY <1>4 DEF ReceiveUpdate, ClientDisconnect, ReceiveMutations, LoseMutation
  <2>2. ASSUME NEW other \in Clients
        PROVE  /\ mutates'[other] \cup buffered'[other] \subseteq mutates[other] \cup buffered[other]
               /\ \/ updates'[other] \in {<<>>, updates[other]}
                  \/ updates[other] # <<>> /\ updates'[other] = Tail(updates[other])
    <3>1. CASE ReceiveUpdate(cl)
      BY <3>1 DEF ReceiveUpdate, TypeOK
    <3>2. CASE ClientDisconnect(cl)
      BY <3>2 DEF ClientDisconnect, TypeOK
    <3>3. CASE \E arrived \in SUBSET mutates[cl] : ReceiveMutations(cl, arrived)
      BY <3>3 DEF ReceiveMutations, TypeOK
    <3>4. CASE \E m \in mutates[cl] : LoseMutation(cl, m)
      BY <3>4 DEF LoseMutation, TypeOK
    <3> QED
      BY <1>4, <3>1, <3>2, <3>3, <3>4
  <2>3. ASSUME NEW other \in Clients
        PROVE  OnTheWay(other)' \subseteq OnTheWay(other)
    <3>1. updates[other] \in Seq(Update)
      BY DEF TypeOK
    <3>2. {updates'[other][n] : n \in DOMAIN updates'[other]}
             \subseteq {updates[other][n] : n \in DOMAIN updates[other]}
      <4>1. CASE updates'[other] \in {<<>>, updates[other]}
        BY <4>1
      <4>2. CASE updates[other] # <<>> /\ updates'[other] = Tail(updates[other])
        <5>1. \A n \in DOMAIN Tail(updates[other]) :
                n + 1 \in DOMAIN updates[other] /\ Tail(updates[other])[n] = updates[other][n + 1]
          BY <3>1, <4>2
        <5> QED
          BY <4>2, <5>1
      <4> QED
        BY <2>2, <4>1, <4>2
    <3> QED
      BY <2>2, <3>2 DEF OnTheWay
  <2> QED
    BY <2>1, <2>3, ReceiveKeepsValues
<1>5. \/ UNCHANGED <<world, mutates, buffered, updates, replica>>
      \/ SendTick
      \/ \E e \in Entities :
           \/ Spawn(e) \/ Despawn(e) \/ Pause(e)
           \/ \E c \in Components : Write(e, c) \/ Remove(e, c)
      \/ \E cl \in Clients :
           \/ ReceiveUpdate(cl) \/ ClientDisconnect(cl)
           \/ \E arrived \in SUBSET mutates[cl] : ReceiveMutations(cl, arrived)
           \/ \E m \in mutates[cl] : LoseMutation(cl, m)
  BY DEF Next, Hide, Show, SetPriority, PanicInSend, Connect, ServerDisconnect, ReceiveAcks, CleanupAcks
<1> QED
  BY <1>1, <1>2, <1>3, <1>4, <1>5

\* Messages and copies never run ahead of one another: the inductive invariant.
THEOREM ValuesHold == Spec => []ValuesInv
<1>1. Init => ValuesInv
  BY InitDelivery DEF ValuesInv, ValuesInOrder, OnTheWay, Init, NoCopy, NoStamps
<1> QED
  BY <1>1, NextKeepsValues, PTL DEF Spec

\* A component the client keeps is never set back to an older value, however
\* the mutate messages are reordered: comparing the tick of a message with the
\* confirmed tick of the whole entity (apply_mutations) is enough.
THEOREM ValuesNeverGoBack == Spec => ValuesAdvance
<1>1. ValuesInv /\ [Next]_vars =>
        [\A cl \in Clients, e \in Entities, c \in Components :
           replica'[cl][e].values[c] = 0
             \/ replica'[cl][e].values[c] >= replica[cl][e].values[c]]_vars
  BY CopyTakesNewer
<1> QED
  BY <1>1, ValuesHold, PTL DEF Spec, ValuesAdvance
=============================================================================
