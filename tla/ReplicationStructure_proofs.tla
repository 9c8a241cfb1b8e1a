-------------------- MODULE ReplicationStructure_proofs --------------------
(***************************************************************************)
(* Proofs about structure: which entities a client has and which           *)
(* components they hold.  The invariant compares what ClientTicks records  *)
(* with the replay of the update messages on their way, so the module      *)
(* begins with what such a replay does when a message is added at the end, *)
(* taken from the front, or when mutations change the copies it starts at. *)
(***************************************************************************)
EXTENDS Replication_proofs

Copies == [Entities -> Copy]

Applied(u, copies) == [e \in Entities |-> ApplyUpdate(u, e, copies[e])]

\* The copies after each of the messages us, from the copies start on.
Replay(us, start) ==
  LET after[n \in 0 .. Len(us)] == IF n = 0 THEN start ELSE Applied(us[n], after[n - 1])
  IN after

Steps(f, us, start, k) ==
  /\ f \in [0 .. k -> Copies] /\ f[0] = start
  /\ \A n \in 1 .. k : f[n] = Applied(us[n], f[n - 1])

-----------------------------------------------------------------------------
\* A set of naturals with an element has a least one.
LEMMA LeastExists ==
  ASSUME NEW T \in SUBSET Nat, T # {}
  PROVE  \E t \in T : \A s \in T : t <= s
<1>1. PICK t \in T : \A s \in T : <<s, t>> \notin OpToRel(<, Nat)
  BY WFMin, NatLessThanWellFounded
<1>2. ASSUME NEW s \in T PROVE t <= s
  <2>1. ~(s < t)
    BY <1>1 DEF OpToRel
  <2> QED
    BY <2>1
<1> QED
  BY <1>2

LEMMA ApplyUpdateType ==
  ASSUME NEW u \in Update, NEW e \in Entities, NEW copy \in Copy
  PROVE  ApplyUpdate(u, e, copy) \in Copy
<1> DEFINE old == IF e \in u.despawns THEN NoCopy ELSE copy
           values == [c \in Components |->
                        IF u.values[e][c] > 0 THEN u.values[e][c]
                        ELSE IF c \in u.removals[e] THEN 0 ELSE old.values[c]]
<1>1. old \in Copy
  BY ShapeTypes
<1>2. u.tick \in Nat /\ u.values[e] \in [Components -> Nat]
  BY DEF Update, Stamps
<1>3. ApplyUpdate(u, e, copy) = old \/ ApplyUpdate(u, e, copy) = [history |-> u.tick, values |-> values]
  BY DEF ApplyUpdate
<1> HIDE DEF old
<1>4. values \in Stamps
  BY <1>1, <1>2 DEF Copy, Stamps
<1> QED
  BY <1>1, <1>2, <1>3, <1>4 DEF Copy

\* The recursion of Replay reaches every message.
LEMMA StepsExist ==
  ASSUME NEW us \in Seq(Update), NEW start \in Copies, NEW k \in 0 .. Len(us)
  PROVE  \E f : Steps(f, us, start, k)
<1> DEFINE T == {n \in 0 .. Len(us) : ~\E f : Steps(f, us, start, n)}
<1>1. SUFFICES ASSUME T # {} PROVE FALSE
  OBVIOUS
<1>2. PICK t \in T : \A s \in T : t <= s
  <2>1. T \in SUBSET Nat
    OBVIOUS
  <2> QED
    BY <1>1, <2>1, LeastExists
<1>3. t # 0
  <2>1. Steps([n \in 0 .. 0 |-> start], us, start, 0)
    BY DEF Steps
  <2> QED
    BY <2>1
<1>4. PICK f : Steps(f, us, start, t - 1)
  <2>1. t - 1 \in 0 .. Len(us) /\ ~(t <= t - 1)
    BY <1>3
  <2> QED
    BY <1>2, <2>1
<1> DEFINE next == Applied(us[t], f[t - 1])
           g == [n \in 0 .. t |-> IF n = t THEN next ELSE f[n]]
<1>5. next \in Copies
  <2>1. us[t] \in Update /\ f[t - 1] \in Copies
    BY <1>3, <1>4 DEF Steps
  <2> QED
    BY <2>1, ApplyUpdateType DEF Copies, Applied
<1>6. Steps(g, us, start, t)
  <2> HIDE DEF next
  <2>1. f \in [0 .. t - 1 -> Copies]
    BY <1>4 DEF Steps
  <2>2. g \in [0 .. t -> Copies] /\ g[0] = start
    BY <1>3, <1>4, <1>5, <2>1 DEF Steps
  <2>3. ASSUME NEW n \in 1 .. t
        PROVE  g[n] = Applied(us[n], g[n - 1])
    <3>1. n - 1 \in 0 .. t - 1 /\ g[n - 1] = f[n - 1]
      OBVIOUS
    <3>2. CASE n = t
      BY <3>1, <3>2 DEF next
    <3>3. CASE n # t
      BY <1>4, <3>1, <3>3 DEF Steps
    <3> QED
      BY <3>2, <3>3
  <2> QED
    BY <2>2, <2>3 DEF Steps
<1> QED
  BY <1>6

\* A function that satisfies the recursion is the one with those steps.
LEMMA StepsUnique ==
  ASSUME NEW us \in Seq(Update), NEW start \in Copies, NEW f, Steps(f, us, start, Len(us)),
         NEW h, h = [n \in 0 .. Len(us) |->
                       IF n = 0 THEN start ELSE Applied(us[n], h[n - 1])]
  PROVE  h = f
<1> DEFINE T == {n \in 0 .. Len(us) : h[n] # f[n]}
<1>1. CASE T = {}
  BY <1>1 DEF Steps
<1>2. CASE T # {}
  <2>1. PICK t \in T : \A s \in T : t <= s
    <3>1. T \in SUBSET Nat
      OBVIOUS
    <3> QED
      BY <1>2, <3>1, LeastExists
  <2>2. t # 0
    BY DEF Steps
  <2>3. t - 1 \in 0 .. Len(us) /\ h[t - 1] = f[t - 1]
    BY <2>1, <2>2
  <2>4. h[t] = Applied(us[t], h[t - 1])
    BY <2>2
  <2>5. f[t] = Applied(us[t], f[t - 1])
    BY <2>2 DEF Steps
  <2> QED
    BY <2>3, <2>4, <2>5
<1> QED
  BY <1>1, <1>2

\* What Replay is: the recursion has exactly one solution.
LEMMA ReplaySteps ==
  ASSUME NEW us \in Seq(Update), NEW start \in Copies
  PROVE  /\ Steps(Replay(us, start), us, start, Len(us))
         /\ \A f : Steps(f, us, start, Len(us)) => Replay(us, start) = f
<1> DEFINE Recursion(h) == h = [n \in 0 .. Len(us) |->
                             IF n = 0 THEN start ELSE Applied(us[n], h[n - 1])]
<1>1. PICK f : Steps(f, us, start, Len(us))
  BY StepsExist
<1>2. Recursion(f)
  BY <1>1 DEF Steps
<1>3. Replay(us, start) = CHOOSE h : Recursion(h)
  BY DEF Replay
<1>4. Recursion(Replay(us, start))
  <2> HIDE DEF Recursion
  <2> QED
    BY <1>2, <1>3
<1>5. ASSUME NEW g, Steps(g, us, start, Len(us)) PROVE Replay(us, start) = g
  <2>1. ASSUME NEW h, Recursion(h) PROVE h = g
    BY <1>5, <2>1, StepsUnique
  <2> HIDE DEF Recursion
  <2> QED
    BY <1>4, <2>1
<1> QED
  BY <1>1, <1>5
-----------------------------------------------------------------------------
\* How replays change with the messages and the copies they start from.

LEMMA ReplayType ==
  ASSUME NEW us \in Seq(Update), NEW start \in Copies
  PROVE  /\ Replay(us, start) \in [0 .. Len(us) -> Copies] /\ Replay(us, start)[0] = start
         /\ \A n \in 1 .. Len(us) :
              /\ n - 1 \in 0 .. Len(us)
              /\ Replay(us, start)[n] = Applied(us[n], Replay(us, start)[n - 1])
         /\ \A n \in 0 .. Len(us), e \in Entities : Replay(us, start)[n][e] \in Copy
<1>1. Steps(Replay(us, start), us, start, Len(us))
  BY ReplaySteps
<1>2. Replay(us, start) \in [0 .. Len(us) -> Copies]
  BY <1>1 DEF Steps
<1>3. \A n \in 0 .. Len(us), e \in Entities : Replay(us, start)[n][e] \in Copy
  BY <1>2 DEF Copies
<1> QED
  BY <1>1, <1>2, <1>3 DEF Steps

\* A message at the end is applied to the result of the others.
LEMMA ReplayAppend ==
  ASSUME NEW us \in Seq(Update), NEW start \in Copies, NEW u \in Update
  PROVE  /\ \A n \in 0 .. Len(us) : Replay(Append(us, u), start)[n] = Replay(us, start)[n]
         /\ Replay(Append(us, u), start)[Len(us) + 1] = Applied(u, Replay(us, start)[Len(us)])
<1> DEFINE r == Replay(us, start)
           next == Applied(u, r[Len(us)])
           g == [n \in 0 .. Len(us) + 1 |-> IF n = Len(us) + 1 THEN next ELSE r[n]]
<1>1. /\ Append(us, u) \in Seq(Update) /\ Len(Append(us, u)) = Len(us) + 1 /\ Len(us) \in Nat
      /\ \A n \in 1 .. Len(us) : Append(us, u)[n] = us[n]
      /\ Append(us, u)[Len(us) + 1] = u
  OBVIOUS
<1>2. /\ r \in [0 .. Len(us) -> Copies] /\ r[0] = start
      /\ \A n \in 1 .. Len(us) : r[n] = Applied(us[n], r[n - 1])
  BY ReplayType
<1>3. next \in Copies
  <2>1. r[Len(us)] \in Copies
    BY <1>1, <1>2
  <2> QED
    BY <2>1, ApplyUpdateType DEF Applied, Copies
<1> HIDE DEF r, next
<1>4. Steps(g, Append(us, u), start, Len(us) + 1)
  <2>1. g \in [0 .. Len(us) + 1 -> Copies] /\ g[0] = start
    BY <1>1, <1>2, <1>3
  <2>2. ASSUME NEW n \in 1 .. Len(us) + 1
        PROVE  g[n] = Applied(Append(us, u)[n], g[n - 1])
    <3>1. g[n - 1] = r[n - 1]
      BY <1>1
    <3>2. CASE n = Len(us) + 1
      BY <1>1, <3>1, <3>2 DEF next
    <3>3. CASE n # Len(us) + 1
      BY <1>1, <1>2, <3>1, <3>3
    <3> QED
      BY <3>2, <3>3
  <2> QED
    BY <2>1, <2>2 DEF Steps
<1>5. Replay(Append(us, u), start) = g
  BY <1>1, <1>4, ReplaySteps
<1> QED
  BY <1>1, <1>5 DEF r, next

\* Taking the first message moves the start of the replay forward.
LEMMA ReplayTail ==
  ASSUME NEW us \in Seq(Update), us # <<>>, NEW start \in Copies
  PROVE  /\ Applied(Head(us), start) \in Copies
         /\ \A n \in 0 .. Len(us) - 1 :
              /\ n + 1 \in 0 .. Len(us)
              /\ Replay(Tail(us), Applied(Head(us), start))[n] = Replay(us, start)[n + 1]
<1> DEFINE r == Replay(us, start)
           g == [n \in 0 .. Len(us) - 1 |-> r[n + 1]]
<1>1. /\ Tail(us) \in Seq(Update) /\ Len(Tail(us)) = Len(us) - 1 /\ Len(us) \in Nat /\ Len(us) # 0
      /\ \A n \in 1 .. Len(us) - 1 : Tail(us)[n] = us[n + 1]
      /\ Head(us) = us[1] /\ Head(us) \in Update
  OBVIOUS
<1>2. /\ r \in [0 .. Len(us) -> Copies] /\ r[0] = start
      /\ \A n \in 1 .. Len(us) : r[n] = Applied(us[n], r[n - 1])
  BY ReplayType
<1> HIDE DEF r
<1>3. r[1] = Applied(Head(us), start) /\ r[1] \in Copies
  BY <1>1, <1>2
<1>4. Steps(g, Tail(us), r[1], Len(us) - 1)
  <2>1. g \in [0 .. Len(us) - 1 -> Copies] /\ g[0] = r[1]
    BY <1>1, <1>2
  <2>2. ASSUME NEW n \in 1 .. Len(us) - 1
        PROVE  g[n] = Applied(Tail(us)[n], g[n - 1])
    <3>1. n + 1 \in 1 .. Len(us) /\ (n + 1) - 1 = n /\ (n - 1) + 1 = n /\ n - 1 \in 0 .. Len(us) - 1
      BY <1>1
    <3>2. r[n + 1] = Applied(us[n + 1], r[n])
      BY <1>2, <3>1
    <3>3. g[n - 1] = r[n]
      BY <3>1
    <3> QED
      BY <1>1, <3>2, <3>3
  <2> QED
    BY <2>1, <2>2 DEF Steps
<1>5. Replay(Tail(us), r[1]) = g
  BY <1>1, <1>3, <1>4, ReplaySteps
<1> QED
  BY <1>1, <1>3, <1>5 DEF r

\* Two copies with the same components, the second maybe confirmed later.
Similar(copy, later) ==
  /\ copy.history = 0 <=> later.history = 0
  /\ copy.history <= later.history
  /\ HeldComponents(copy) = HeldComponents(later)

LEMMA SimilarApplied ==
  ASSUME NEW u \in Update, NEW e \in Entities, NEW copy \in Copy, NEW later \in Copy,
         Similar(copy, later)
  PROVE  Similar(ApplyUpdate(u, e, copy), ApplyUpdate(u, e, later))
<1> DEFINE values(old) == [c \in Components |->
                             IF u.values[e][c] > 0 THEN u.values[e][c]
                             ELSE IF c \in u.removals[e] THEN 0 ELSE old.values[c]]
<1>1. CASE e \in u.despawns
  <2>1. ApplyUpdate(u, e, copy) = ApplyUpdate(u, e, later) /\ ApplyUpdate(u, e, copy) \in Copy
    BY <1>1, ApplyUpdateType DEF ApplyUpdate
  <2> QED
    BY <2>1 DEF Similar, Copy
<1>2. CASE e \notin u.despawns
  <2>1. (copy.history > 0) = (later.history > 0)
    BY DEF Similar, Copy
  <2>2. CASE e \in u.changed \/ (copy.history > 0 /\ u.removals[e] # {})
    <3>1. /\ ApplyUpdate(u, e, copy) = [history |-> u.tick, values |-> values(copy)]
          /\ ApplyUpdate(u, e, later) = [history |-> u.tick, values |-> values(later)]
      BY <1>2, <2>1, <2>2 DEF ApplyUpdate
    <3>2. \A c \in Components : (values(copy)[c] > 0) = (values(later)[c] > 0)
      BY DEF Similar, HeldComponents
    <3> HIDE DEF values
    <3>3. u.tick \in Nat
      BY DEF Update
    <3> QED
      BY <3>1, <3>2, <3>3 DEF Similar, HeldComponents
  <2>3. CASE ~(e \in u.changed \/ (copy.history > 0 /\ u.removals[e] # {}))
    <3>1. ApplyUpdate(u, e, copy) = copy /\ ApplyUpdate(u, e, later) = later
      BY <1>2, <2>1, <2>3 DEF ApplyUpdate
    <3> QED
      BY <3>1
  <2> QED
    BY <2>2, <2>3
<1> QED
  BY <1>1, <1>2

\* Mutations applied before the replay leave similar copies similar after it.
LEMMA ReplaySimilar ==
  ASSUME NEW us \in Seq(Update), NEW start \in Copies, NEW later \in Copies,
         \A e \in Entities : Similar(start[e], later[e]), NEW k \in 0 .. Len(us), NEW e \in Entities
  PROVE  Similar(Replay(us, start)[k][e], Replay(us, later)[k][e])
<1> DEFINE p == Replay(us, start)
           q == Replay(us, later)
           T == {n \in 0 .. Len(us) : ~Similar(p[n][e], q[n][e])}
<1>1. /\ p[0] = start /\ \A n \in 1 .. Len(us) : p[n] = Applied(us[n], p[n - 1])
      /\ q[0] = later /\ \A n \in 1 .. Len(us) : q[n] = Applied(us[n], q[n - 1])
      /\ \A n \in 0 .. Len(us) : p[n][e] \in Copy /\ q[n][e] \in Copy
  BY ReplayType
<1> HIDE DEF p, q
<1>2. CASE T = {}
  BY <1>2 DEF p, q
<1>3. CASE T # {}
  <2>1. PICK t \in T : \A s \in T : t <= s
    <3>1. T \in SUBSET Nat
      OBVIOUS
    <3> QED
      BY <1>3, <3>1, LeastExists
  <2>2. t # 0
    BY <1>1
  <2>3. t - 1 \in 0 .. Len(us) /\ Similar(p[t - 1][e], q[t - 1][e]) /\ t \in 1 .. Len(us)
    BY <2>1, <2>2
  <2>4. p[t][e] = ApplyUpdate(us[t], e, p[t - 1][e]) /\ q[t][e] = ApplyUpdate(us[t], e, q[t - 1][e])
    <3>1. p[t] = Applied(us[t], p[t - 1]) /\ q[t] = Applied(us[t], q[t - 1])
      BY <1>1, <2>3
    <3>2. \A copies : Applied(us[t], copies)[e] = ApplyUpdate(us[t], e, copies[e])
      BY DEF Applied
    <3> QED
      BY <3>1, <3>2
  <2>5. us[t] \in Update /\ p[t - 1][e] \in Copy /\ q[t - 1][e] \in Copy
    BY <1>1, <2>3
  <2>6. Similar(p[t][e], q[t][e])
    BY <2>3, <2>4, <2>5, SimilarApplied
  <2> QED
    BY <2>6
<1> QED
  BY <1>2, <1>3
-----------------------------------------------------------------------------
\* The invariant.

\* The client's copies now, and after each update message on its way.
Pending(cl) == Replay(updates[cl], replica[cl])
Final(cl) == Pending(cl)[Len(updates[cl])]

\* A buffered despawn is of a despawned entity, an entity on record has a tick,
\* and an end that is not connected has no state of an earlier session.
Bookkeeping ==
  /\ \A e \in Entities : /\ e \in despawnBuffer => status[e] = "despawned"
                         /\ e \notin Pausable => status[e] # "paused"
  /\ \A cl \in Clients, e \in Entities :
       /\ ticks[cl][e] = NoTicks \/ ticks[cl][e].tick > 0
       /\ ~connected[cl] => ticks[cl][e] = NoTicks
       /\ ~clientUp[cl] => replica[cl][e] = NoCopy
  /\ \A cl \in Clients : ~clientUp[cl] => mutates[cl] \cup buffered[cl] = {}

\* An entity the client does not have holds nothing.
AbsentIsEmpty ==
  \A cl \in Clients : \A k \in 0 .. Len(updates[cl]) : \A e \in Entities :
    Pending(cl)[k][e].history = 0 => HeldComponents(Pending(cl)[k][e]) = {}

\* Wherever a mutate message may still be applied, it only changes components
\* that the entity holds: otherwise the entity is gone or confirmed later.
Fits(m, e, copy) ==
  \/ copy.history = 0 \/ m.tick <= copy.history
  \/ \A c \in Components : m.values[e][c] > 0 => copy.values[c] > 0

MutationsFit ==
  \A cl \in Clients : \A m \in mutates[cl] \cup buffered[cl] :
    \A k \in 0 .. Len(updates[cl]) : \A e \in Entities :
      k = Len(updates[cl]) \/ m.updateTick < updates[cl][k + 1].tick => Fits(m, e, Pending(cl)[k][e])

\* An entity hidden by an AfterFirstVisibility filter is put on record by a
\* removal although the client has never seen it; without such filters an
\* entity on record is one that the client has.
NoEntityAfterFirst ==
  \A f \in Filters : ~(Scope[f].kind = "Entity" /\ Lifetime[f] = AfterFirstVisibility)

\* ClientTicks records the copies that the update messages lead to.
Matches(cl, e) ==
  IF ticks[cl][e] = NoTicks THEN status[e] # "despawned" => Final(cl)[e].history = 0
  ELSE /\ HeldComponents(Final(cl)[e]) = ticks[cl][e].components
       /\ NoEntityAfterFirst => Final(cl)[e].history > 0

TicksMatch == \A cl \in Clients, e \in Entities : Linked(cl) => Matches(cl, e)

StructureInv == DeliveryInv /\ Bookkeeping /\ AbsentIsEmpty /\ MutationsFit /\ TicksMatch

\* The server does not record components that a client must not have.
HiddenUntracked ==
  \A cl \in Clients, e \in Entities, c \in Components :
    HiddenComponentLifetime(hidden[cl][e] \ lost[cl][e], c) = WhileVisible =>
      c \notin ticks[cl][e].components

LEMMA PendingType ==
  ASSUME TypeOK, NEW cl \in Clients
  PROVE  /\ updates[cl] \in Seq(Update) /\ replica[cl] \in Copies /\ Len(updates[cl]) \in Nat
         /\ Len(updates[cl]) \in 0 .. Len(updates[cl]) /\ 0 \in 0 .. Len(updates[cl])
         /\ Pending(cl)[0] = replica[cl]
         /\ \A k \in 0 .. Len(updates[cl]), e \in Entities : Pending(cl)[k][e] \in Copy
         /\ \A e \in Entities : Final(cl)[e] \in Copy
<1>1. updates[cl] \in Seq(Update) /\ replica[cl] \in Copies
  BY DEF TypeOK, Copies
<1>2. Len(updates[cl]) \in Nat /\ Len(updates[cl]) \in 0 .. Len(updates[cl]) /\ 0 \in 0 .. Len(updates[cl])
  BY <1>1
<1>3. /\ Pending(cl)[0] = replica[cl]
      /\ \A k \in 0 .. Len(updates[cl]), e \in Entities : Pending(cl)[k][e] \in Copy
  BY <1>1, ReplayType DEF Pending
<1> QED
  BY <1>1, <1>2, <1>3 DEF Final

-----------------------------------------------------------------------------
\* Steps that leave the client's pipeline alone.

LEMMA PipelineUnchanged ==
  ASSUME StructureInv, UNCHANGED <<updates, replica>>,
         \A cl \in Clients : mutates'[cl] \cup buffered'[cl] \subseteq mutates[cl] \cup buffered[cl]
  PROVE  /\ AbsentIsEmpty' /\ MutationsFit'
         /\ \A cl \in Clients : Final(cl)' = Final(cl)
<1>1. \A cl \in Clients : Pending(cl)' = Pending(cl) /\ Final(cl)' = Final(cl)
  BY DEF Pending, Final
<1> QED
  BY <1>1 DEF StructureInv, AbsentIsEmpty, MutationsFit

\* Changes of the world, of visibility and of priorities.
LEMMA ChangeKeepsStructure ==
  ASSUME StructureInv, NEW e \in Entities,
         \/ Spawn(e) \/ Despawn(e) \/ Pause(e)
         \/ \E c \in Components : Write(e, c) \/ Remove(e, c)
  PROVE  Bookkeeping' /\ AbsentIsEmpty' /\ MutationsFit' /\ TicksMatch'
<1> USE DEF ackVars, channelVars, clientVars
<1>1. UNCHANGED <<updates, replica, mutates, buffered, connected, clientUp>>
  BY DEF Spawn, Despawn, Pause, Write, Remove
<1>2. /\ status \in [Entities -> {"unborn", "replicated", "paused", "despawned"}]
      /\ ticks \in [Clients -> [Entities -> EntityTicks]]
  BY DEF StructureInv, DeliveryInv, TypeOK
\* Only a despawn drops a record, and only a pause pauses.
<1>3. \A f \in Entities :
        /\ status'[f] = status[f] \/ status[f] # "despawned"
        /\ status'[f] = "paused" => status[f] = "paused" \/ f \in Pausable
        /\ f \in despawnBuffer' => f \in despawnBuffer \/ status'[f] = "despawned"
        /\ status[f] = "despawned" => status'[f] = "despawned"
  BY <1>2 DEF Spawn, Despawn, Pause, Write, Remove
<1>4. \A cl \in Clients, f \in Entities :
        \/ ticks'[cl][f] = ticks[cl][f]
        \/ ticks'[cl][f] = NoTicks /\ status'[f] = "despawned"
  <2>1. CASE ticks' = ticks
    BY <2>1
  <2>2. CASE ticks' # ticks
    BY <1>2, <2>2 DEF Spawn, Despawn, Pause, Write, Remove
  <2> QED
    BY <2>1, <2>2
<1>5. Bookkeeping'
  BY <1>1, <1>3, <1>4 DEF StructureInv, Bookkeeping
<1>6. AbsentIsEmpty' /\ MutationsFit' /\ \A cl \in Clients : Final(cl)' = Final(cl)
  BY <1>1, PipelineUnchanged
<1>7. TicksMatch'
  BY <1>1, <1>3, <1>4, <1>6 DEF StructureInv, TicksMatch, Matches, Linked
<1> QED
  BY <1>5, <1>6, <1>7

\* Settings of the server, acknowledgements, losses and the panic: the records
\* keep their components.
LEMMA ServerKeepsStructure ==
  ASSUME StructureInv, UNCHANGED <<updates, replica, connected, clientUp, status, despawnBuffer>>,
         \A cl \in Clients : mutates'[cl] \cup buffered'[cl] \subseteq mutates[cl] \cup buffered[cl],
         \A cl \in Clients, e \in Entities :
           \/ ticks'[cl][e] = ticks[cl][e]
           \/ /\ ticks[cl][e] # NoTicks /\ ticks'[cl][e].tick > 0 /\ ticks'[cl][e] # NoTicks
              /\ ticks'[cl][e].components = ticks[cl][e].components
  PROVE  Bookkeeping' /\ AbsentIsEmpty' /\ MutationsFit' /\ TicksMatch'
<1>1. AbsentIsEmpty' /\ MutationsFit' /\ \A cl \in Clients : Final(cl)' = Final(cl)
  BY PipelineUnchanged
<1>2. Bookkeeping'
  BY DEF StructureInv, Bookkeeping
<1>3. TicksMatch'
  BY <1>1 DEF StructureInv, TicksMatch, Matches, Linked
<1> QED
  BY <1>1, <1>2, <1>3

LEMMA AckKeepsRecords ==
  ASSUME StructureInv, NEW cl \in Clients, ReceiveAcks(cl), NEW other \in Clients, NEW e \in Entities
  PROVE  \/ ticks'[other][e] = ticks[other][e]
         \/ /\ ticks[other][e] # NoTicks /\ ticks'[other][e].tick > 0 /\ ticks'[other][e] # NoTicks
            /\ ticks'[other][e].components = ticks[other][e].components
<1> DEFINE acked == {i \in mutations[cl] : i.index \in Head(acks[cl])}
           newer == {i.tick : i \in {j \in acked : e \in j.entities /\ j.tick > ticks[cl][e].tick}}
           t == AckedTick(cl, e, acked)
           moved == [ticks[cl][e] EXCEPT !.tick = t]
<1>1. /\ ticks \in [Clients -> [Entities -> EntityTicks]] /\ mutations \in [Clients -> SUBSET MutateInfo]
      /\ serverTick \in Nat /\ \A i \in mutations[cl] : i.tick <= serverTick
  BY DEF StructureInv, DeliveryInv, TypeOK, StampsBounded
<1>2. ticks'[other] = IF other = cl THEN [f \in Entities |->
                        [ticks[cl][f] EXCEPT !.tick = AckedTick(cl, f, acked)]] ELSE ticks[other]
  BY <1>1 DEF ReceiveAcks
<1>3. CASE ticks[cl][e] = NoTicks \/ newer = {}
  <2>1. t = ticks[cl][e].tick
    BY <1>3 DEF AckedTick
  <2>2. [ticks[cl][e] EXCEPT !.tick = t] = ticks[cl][e]
    BY <1>1, <2>1 DEF EntityTicks
  <2> QED
    BY <1>2, <2>2
<1>4. CASE ~(ticks[cl][e] = NoTicks \/ newer = {})
  <2>1. newer \in SUBSET Nat /\ \A n \in newer : n <= serverTick
    BY <1>1 DEF MutateInfo
  <2>2. t \in newer
    BY <1>1, <1>4, <2>1, MaxExists DEF AckedTick
  <2>3. t \in Nat /\ t > ticks[cl][e].tick /\ ticks[cl][e] \in EntityTicks
    BY <1>1, <2>1, <2>2
  <2> HIDE DEF t
  <2>4. moved.tick = t /\ moved.components = ticks[cl][e].components /\ t > 0
    BY <2>3 DEF EntityTicks
  <2>5. NoTicks.tick = 0
    BY DEF NoTicks
  <2> HIDE DEF acked, newer
  <2>6. CASE other = cl
    <3>1. ticks'[other][e] = moved
      BY <1>2, <2>6 DEF t
    <3> HIDE DEF moved
    <3> QED
      BY <1>4, <2>3, <2>4, <2>5, <2>6, <3>1
  <2>7. CASE other # cl
    BY <1>2, <2>7
  <2> QED
    BY <2>6, <2>7
<1> QED
  BY <1>3, <1>4

\* Sessions.
LEMMA SessionKeepsStructure ==
  ASSUME StructureInv, NEW cl \in Clients, Connect(cl) \/ ServerDisconnect(cl)
  PROVE  Bookkeeping' /\ AbsentIsEmpty' /\ MutationsFit' /\ TicksMatch'
<1> USE DEF worldVars, ackVars, channelVars, clientVars
<1>1. /\ UNCHANGED <<updates, replica, mutates, buffered, status, despawnBuffer>>
      /\ \A other \in Clients : clientUp[other] => clientUp'[other]
  <2>1. UNCHANGED <<updates, replica, mutates, buffered, status, despawnBuffer>>
    BY DEF Connect, ServerDisconnect
  <2>2. clientUp' = clientUp \/ clientUp' = [clientUp EXCEPT ![cl] = TRUE]
    BY DEF Connect, ServerDisconnect
  <2> QED
    BY <2>1, <2>2 DEF StructureInv, DeliveryInv, TypeOK
<1>2. AbsentIsEmpty' /\ MutationsFit' /\ \A other \in Clients : Final(other)' = Final(other)
  BY <1>1, PipelineUnchanged
<1>3. /\ \A other \in Clients, e \in Entities :
           \/ ticks'[other][e] = ticks[other][e] /\ connected'[other] = connected[other]
           \/ ticks'[other][e] = NoTicks
      /\ \A other \in Clients : connected[other] /\ ~connected'[other] =>
           \A e \in Entities : ticks'[other][e] = NoTicks
  <2>1. CASE Connect(cl)
    BY <2>1 DEF Connect, StructureInv, Bookkeeping, DeliveryInv, TypeOK
  <2>2. CASE ServerDisconnect(cl)
    BY <2>2 DEF ServerDisconnect, StructureInv, Bookkeeping, DeliveryInv, TypeOK
  <2> QED
    BY <2>1, <2>2
<1>4. Bookkeeping'
  BY <1>1, <1>3 DEF StructureInv, Bookkeeping
\* A new session starts with no copy and no message.
<1>5. ASSUME NEW other \in Clients, Linked(other)', ~Linked(other), NEW e \in Entities
      PROVE  ticks'[other][e] = NoTicks /\ Final(other)[e].history = 0
  <2>1. other = cl /\ Connect(cl) /\ ~connected[cl] /\ ~clientUp[cl] /\ ticks' = ticks
    BY <1>5 DEF Linked, Connect, ServerDisconnect, StructureInv, DeliveryInv, TypeOK
  <2>2. updates[cl] = <<>> /\ replica[cl][e] = NoCopy /\ ticks[cl][e] = NoTicks
    BY <2>1 DEF StructureInv, DeliveryInv, HistoryInOrder, Bookkeeping
  <2>3. Len(updates[cl]) = 0
    BY <2>2
  <2>4. Final(cl) = replica[cl]
    BY <2>3, PendingType DEF Final, StructureInv, DeliveryInv
  <2> QED
    BY <2>1, <2>2, <2>4 DEF NoCopy
<1>6. ASSUME NEW other \in Clients, Linked(other)', Linked(other), NEW e \in Entities
      PROVE  ticks'[other][e] = ticks[other][e]
  BY <1>6 DEF Linked, Connect, ServerDisconnect, StructureInv, DeliveryInv, TypeOK
<1>7. TicksMatch'
  BY <1>1, <1>2, <1>5, <1>6 DEF StructureInv, TicksMatch, Matches
<1> QED
  BY <1>2, <1>4, <1>7
-----------------------------------------------------------------------------
\* The client's side.

\* Taking the next update message shifts the pipeline by one.
LEMMA PipelineShifts ==
  ASSUME StructureInv, NEW cl \in Clients, ReceiveUpdate(cl)
  PROVE  /\ Len(updates'[cl]) = Len(updates[cl]) - 1 /\ Len(updates[cl]) \in Nat
         /\ \A k \in 0 .. Len(updates'[cl]) :
              /\ k + 1 \in 0 .. Len(updates[cl]) /\ Pending(cl)'[k] = Pending(cl)[k + 1]
              /\ k # Len(updates'[cl]) => updates'[cl][k + 1] = updates[cl][k + 2]
         /\ Final(cl)' = Final(cl)
         /\ \A other \in Clients : other # cl =>
              /\ updates'[other] = updates[other] /\ replica'[other] = replica[other]
              /\ Pending(other)' = Pending(other) /\ Final(other)' = Final(other)
<1>1. /\ updates[cl] # <<>> /\ updates[cl] \in Seq(Update) /\ replica[cl] \in Copies
      /\ Len(updates[cl]) \in Nat
  BY PendingType DEF ReceiveUpdate, StructureInv, DeliveryInv
<1>2. updates'[cl] = Tail(updates[cl]) /\ replica'[cl] = Applied(Head(updates[cl]), replica[cl])
  BY DEF ReceiveUpdate, Applied, StructureInv, DeliveryInv, TypeOK
<1>3. \A other \in Clients : other # cl => updates'[other] = updates[other] /\ replica'[other] = replica[other]
  BY DEF ReceiveUpdate, StructureInv, DeliveryInv, TypeOK
<1>4. /\ Len(Tail(updates[cl])) = Len(updates[cl]) - 1
      /\ \A k \in 1 .. Len(updates[cl]) - 1 : Tail(updates[cl])[k] = updates[cl][k + 1]
      /\ Len(updates[cl]) # 0
  BY <1>1
<1>5. \A k \in 0 .. Len(updates[cl]) - 1 :
        k + 1 \in 0 .. Len(updates[cl]) /\ Pending(cl)'[k] = Pending(cl)[k + 1]
  BY <1>1, <1>2, ReplayTail DEF Pending
<1>6. \A k \in 0 .. Len(updates[cl]) - 1 :
        k # Len(updates[cl]) - 1 => updates'[cl][k + 1] = updates[cl][k + 2]
  <2> SUFFICES ASSUME NEW k \in 0 .. Len(updates[cl]) - 1, k # Len(updates[cl]) - 1
               PROVE  updates'[cl][k + 1] = updates[cl][k + 2]
    OBVIOUS
  <2>1. k + 1 \in 1 .. Len(updates[cl]) - 1 /\ (k + 1) + 1 = k + 2
    BY <1>1
  <2> QED
    BY <1>2, <1>4, <2>1
<1>7. Final(cl)' = Final(cl)
  <2>1. /\ Len(updates[cl]) - 1 \in 0 .. Len(updates[cl]) - 1
        /\ (Len(updates[cl]) - 1) + 1 = Len(updates[cl])
    BY <1>1, <1>4
  <2>2. Final(cl)' = Pending(cl)'[Len(updates[cl]) - 1]
    BY <1>2, <1>4 DEF Final
  <2> QED
    BY <1>5, <2>1, <2>2 DEF Final
<1>8. \A other \in Clients : other # cl =>
        Pending(other)' = Pending(other) /\ Final(other)' = Final(other)
  BY <1>3 DEF Pending, Final
<1> QED
  BY <1>1, <1>2, <1>3, <1>4, <1>5, <1>6, <1>7, <1>8

LEMMA UpdateKeepsStructure ==
  ASSUME StructureInv, NEW cl \in Clients, ReceiveUpdate(cl)
  PROVE  Bookkeeping' /\ AbsentIsEmpty' /\ MutationsFit' /\ TicksMatch'
<1>1. UNCHANGED <<mutates, buffered, connected, clientUp, status, ticks, despawnBuffer>> /\ clientUp[cl]
  BY DEF ReceiveUpdate, worldVars, ackVars
<1>2. Bookkeeping'
  BY <1>1, PipelineShifts DEF StructureInv, Bookkeeping
<1>3. AbsentIsEmpty'
  <2> SUFFICES ASSUME NEW other \in Clients, NEW k \in 0 .. Len(updates'[other]), NEW e \in Entities,
                      Pending(other)'[k][e].history = 0
               PROVE  HeldComponents(Pending(other)'[k][e]) = {}
    BY DEF AbsentIsEmpty, HeldComponents
  <2>1. CASE other = cl
    <3>1. k + 1 \in 0 .. Len(updates[cl]) /\ Pending(cl)'[k] = Pending(cl)[k + 1]
      BY <2>1, PipelineShifts
    <3> QED
      BY <2>1, <3>1 DEF StructureInv, AbsentIsEmpty
  <2>2. CASE other # cl
    <3>1. updates'[other] = updates[other] /\ Pending(other)' = Pending(other)
      BY <2>2, PipelineShifts
    <3> QED
      BY <3>1 DEF StructureInv, AbsentIsEmpty
  <2> QED
    BY <2>1, <2>2
<1>4. MutationsFit'
  <2> SUFFICES ASSUME NEW other \in Clients, NEW m \in mutates[other] \cup buffered[other],
                      NEW k \in 0 .. Len(updates'[other]), NEW e \in Entities,
                      k = Len(updates'[other]) \/ m.updateTick < updates'[other][k + 1].tick
               PROVE  Fits(m, e, Pending(other)'[k][e])
    BY <1>1 DEF MutationsFit, Fits
  <2>1. CASE other = cl
    <3>1. k + 1 = Len(updates[cl]) \/ m.updateTick < updates[cl][(k + 1) + 1].tick
      BY <2>1, PipelineShifts
    <3>2. k + 1 \in 0 .. Len(updates[cl]) /\ Pending(cl)'[k] = Pending(cl)[k + 1]
      BY <2>1, PipelineShifts
    <3> QED
      BY <2>1, <3>1, <3>2 DEF StructureInv, MutationsFit
  <2>2. CASE other # cl
    BY <2>2, PipelineShifts DEF StructureInv, MutationsFit
  <2> QED
    BY <2>1, <2>2
<1>5. \A other \in Clients : Final(other)' = Final(other)
  BY PipelineShifts
<1>6. TicksMatch'
  BY <1>1, <1>5 DEF StructureInv, TicksMatch, Matches, Linked
<1> QED
  BY <1>2, <1>3, <1>4, <1>6

LEMMA SimilarFits ==
  ASSUME NEW m \in Mutate, NEW e \in Entities, NEW copy \in Copy, NEW later \in Copy,
         Similar(copy, later), Fits(m, e, copy)
  PROVE  Fits(m, e, later)
<1>1. m.tick \in Nat /\ copy.history \in Nat /\ later.history \in Nat
  BY DEF Mutate, Copy
<1>2. \A c \in Components : copy.values[c] > 0 => later.values[c] > 0
  BY DEF Similar, HeldComponents
<1> QED
  BY <1>1, <1>2 DEF Fits, Similar

\* A mutate message that fits a copy leaves it similar.
LEMMA FittingMutations ==
  ASSUME NEW ms \in SUBSET Mutate, NEW e \in Entities, NEW copy \in Copy, NEW b \in Nat,
         \A m \in ms : m.tick <= b /\ Fits(m, e, copy)
  PROVE  /\ ApplyMutations(ms, e, copy) \in Copy
         /\ Similar(copy, ApplyMutations(ms, e, copy))
<1> DEFINE newer == {m \in ms : Carries(m, e) /\ m.tick > copy.history}
           m == Newest(newer)
<1>0. copy.history \in Nat /\ copy.values \in [Components -> Nat]
  BY DEF Copy, Stamps
<1>1. CASE copy.history = 0 \/ newer = {}
  BY <1>0, <1>1 DEF ApplyMutations, Similar
<1>2. CASE ~(copy.history = 0 \/ newer = {})
  <2>1. newer \in SUBSET Mutate /\ \A n \in newer : n.tick <= b
    OBVIOUS
  <2>2. m \in newer
    BY <1>2, <2>1, NewestIsMax
  <2>3. m.tick \in Nat /\ m.values[e] \in [Components -> Nat] /\ m.tick > copy.history
    BY <2>2 DEF Mutate, Stamps
  <2>4. \A c \in Components : m.values[e][c] > 0 => copy.values[c] > 0
    BY <1>0, <1>2, <2>2, <2>3 DEF Fits
  <2>5. ApplyMutations(ms, e, copy) = [history |-> m.tick, values |-> Overwritten(copy.values, m, e)]
    BY <1>2 DEF ApplyMutations
  <2> HIDE DEF m, newer
  <2>6. /\ Overwritten(copy.values, m, e) \in Stamps
        /\ \A c \in Components : (Overwritten(copy.values, m, e)[c] > 0) = (copy.values[c] > 0)
    BY <1>0, <2>3, <2>4 DEF Overwritten, Stamps
  <2> QED
    BY <1>0, <1>2, <2>3, <2>5, <2>6 DEF Similar, HeldComponents, Copy
<1> QED
  BY <1>1, <1>2

\* The mutate messages a frame applies fit the client's copies.
LEMMA ReadyFits ==
  ASSUME StructureInv, NEW cl \in Clients, NEW arrived \in SUBSET mutates[cl],
         NEW m \in Ready(cl, buffered[cl] \cup arrived), NEW e \in Entities
  PROVE  m \in Mutate /\ m.tick <= serverTick /\ Fits(m, e, replica[cl][e])
<1>1. /\ m \in mutates[cl] \cup buffered[cl] /\ m.updateTick <= serverUpdateTick[cl]
      /\ m \in Mutate /\ serverUpdateTick[cl] \in Nat
  BY DEF Ready, StructureInv, DeliveryInv, TypeOK
<1>2. m.tick <= serverTick
  BY <1>1 DEF StructureInv, DeliveryInv, StampsBounded
<1>3. 0 = Len(updates[cl]) \/ m.updateTick < updates[cl][0 + 1].tick
  <2>1. updates[cl] \in Seq(Update)
    BY DEF StructureInv, DeliveryInv, TypeOK
  <2>2. CASE Len(updates[cl]) # 0
    <3>1. 1 \in DOMAIN updates[cl] /\ updates[cl][1] \in Update
      BY <2>1, <2>2
    <3>2. serverUpdateTick[cl] < updates[cl][1].tick
      BY <3>1 DEF StructureInv, DeliveryInv, UpdatesInOrder
    <3> QED
      BY <1>1, <3>1, <3>2 DEF Update, Mutate
  <2> QED
    BY <2>2
<1>4. Pending(cl)[0] = replica[cl] /\ 0 \in 0 .. Len(updates[cl])
  BY PendingType DEF StructureInv, DeliveryInv
<1> QED
  BY <1>1, <1>2, <1>3, <1>4 DEF StructureInv, MutationsFit

LEMMA PipelineSimilar ==
  ASSUME StructureInv, DeliveryInv', NEW cl \in Clients, NEW arrived \in SUBSET mutates[cl],
         ReceiveMutations(cl, arrived), NEW other \in Clients, NEW e \in Entities,
         NEW k \in 0 .. Len(updates[other])
  PROVE  /\ updates' = updates
         /\ Pending(other)[k][e] \in Copy /\ Pending(other)'[k][e] \in Copy
         /\ Similar(Pending(other)[k][e], Pending(other)'[k][e])
         /\ Similar(Final(other)[e], Final(other)'[e])
<1> DEFINE ready == Ready(cl, buffered[cl] \cup arrived)
<1>1. updates' = updates
  BY DEF ReceiveMutations
<1>2. \A f \in Entities : replica'[other][f] =
        IF other = cl THEN ApplyMutations(ready, f, replica[cl][f]) ELSE replica[other][f]
  BY DEF ReceiveMutations, StructureInv, DeliveryInv, TypeOK
<1>3. /\ updates[other] \in Seq(Update) /\ Len(updates[other]) \in 0 .. Len(updates[other])
      /\ replica[other] \in Copies /\ replica'[other] \in Copies
  BY PendingType DEF StructureInv, DeliveryInv, TypeOK, Copies
<1>4. \A f \in Entities : Similar(replica[other][f], replica'[other][f])
  <2> SUFFICES ASSUME NEW f \in Entities PROVE Similar(replica[other][f], replica'[other][f])
    OBVIOUS
  <2>1. replica[other][f] \in Copy /\ serverTick \in Nat
    BY DEF StructureInv, DeliveryInv, TypeOK
  <2>2. CASE other = cl
    <3>1. ready \in SUBSET Mutate /\ \A m \in ready : m.tick <= serverTick /\ Fits(m, f, replica[cl][f])
      BY ReadyFits
    <3>2. Similar(replica[cl][f], ApplyMutations(ready, f, replica[cl][f]))
      BY <2>1, <2>2, <3>1, FittingMutations
    <3> QED
      BY <1>2, <2>2, <3>2
  <2>3. CASE other # cl
    BY <1>2, <2>1, <2>3 DEF Similar, Copy
  <2> QED
    BY <2>2, <2>3
<1>5. \A n \in 0 .. Len(updates[other]) :
        /\ Similar(Pending(other)[n][e], Pending(other)'[n][e])
        /\ Pending(other)[n][e] \in Copy /\ Pending(other)'[n][e] \in Copy
  BY <1>1, <1>3, <1>4, ReplaySimilar, ReplayType DEF Pending
<1> QED
  BY <1>1, <1>3, <1>5 DEF Final

LEMMA MutationsKeepStructure ==
  ASSUME StructureInv, DeliveryInv', NEW cl \in Clients, NEW arrived \in SUBSET mutates[cl],
         ReceiveMutations(cl, arrived)
  PROVE  Bookkeeping' /\ AbsentIsEmpty' /\ MutationsFit' /\ TicksMatch'
<1>1. UNCHANGED <<updates, connected, clientUp, status, ticks, despawnBuffer>> /\ clientUp[cl]
  BY DEF ReceiveMutations, worldVars, ackVars
<1>2. /\ \A other \in Clients : mutates'[other] \cup buffered'[other] \subseteq mutates[other] \cup buffered[other]
      /\ \A other \in Clients : other # cl => replica'[other] = replica[other]
  BY DEF ReceiveMutations, StructureInv, DeliveryInv, TypeOK
<1>3. Bookkeeping'
  BY <1>1, <1>2 DEF StructureInv, Bookkeeping
<1>4. AbsentIsEmpty'
  <2> SUFFICES ASSUME NEW other \in Clients, NEW k \in 0 .. Len(updates[other]), NEW e \in Entities,
                      Pending(other)'[k][e].history = 0
               PROVE  HeldComponents(Pending(other)'[k][e]) = {}
    BY <1>1 DEF AbsentIsEmpty, HeldComponents
  <2>1. Similar(Pending(other)[k][e], Pending(other)'[k][e])
    BY PipelineSimilar
  <2> QED
    BY <2>1 DEF StructureInv, AbsentIsEmpty, Similar
<1>5. MutationsFit'
  <2> SUFFICES ASSUME NEW other \in Clients, NEW m \in mutates[other] \cup buffered[other],
                      NEW k \in 0 .. Len(updates[other]), NEW e \in Entities,
                      k = Len(updates[other]) \/ m.updateTick < updates[other][k + 1].tick
               PROVE  Fits(m, e, Pending(other)'[k][e])
    BY <1>1, <1>2 DEF MutationsFit, Fits
  <2>1. Fits(m, e, Pending(other)[k][e]) /\ m \in Mutate
    BY DEF StructureInv, MutationsFit, DeliveryInv, TypeOK
  <2> QED
    BY <2>1, PipelineSimilar, SimilarFits
<1>6. TicksMatch'
  <2> SUFFICES ASSUME NEW other \in Clients, NEW e \in Entities, Linked(other), Matches(other, e)
               PROVE  Matches(other, e)'
    BY <1>1 DEF StructureInv, TicksMatch, Linked
  <2>1. /\ Similar(Final(other)[e], Final(other)'[e])
        /\ Final(other)[e] \in Copy /\ Final(other)'[e] \in Copy
    <3>1. Len(updates[other]) \in 0 .. Len(updates[other])
      BY PendingType DEF StructureInv, DeliveryInv
    <3> QED
      BY <1>1, <3>1, PipelineSimilar DEF Final
  <2>2. Final(other)[e].history \in Nat /\ Final(other)'[e].history \in Nat
    BY <2>1 DEF Copy
  <2> QED
    BY <1>1, <2>1, <2>2 DEF Matches, Similar
<1> QED
  BY <1>3, <1>4, <1>5, <1>6
LEMMA ClientDisconnectKeepsStructure ==
  ASSUME StructureInv, NEW cl \in Clients, ClientDisconnect(cl)
  PROVE  Bookkeeping' /\ AbsentIsEmpty' /\ MutationsFit' /\ TicksMatch'
<1>1. /\ UNCHANGED <<connected, status, ticks, despawnBuffer>>
      /\ ~clientUp'[cl] /\ updates'[cl] = <<>> /\ mutates'[cl] \cup buffered'[cl] = {}
      /\ \A e \in Entities : replica'[cl][e] = NoCopy
      /\ \A other \in Clients : other # cl =>
           /\ clientUp'[other] = clientUp[other] /\ updates'[other] = updates[other]
           /\ mutates'[other] = mutates[other] /\ buffered'[other] = buffered[other]
           /\ replica'[other] = replica[other]
  BY DEF ClientDisconnect, worldVars, ackVars, StructureInv, DeliveryInv, TypeOK
<1>2. Bookkeeping'
  BY <1>1 DEF StructureInv, Bookkeeping
<1>3. \A other \in Clients : other # cl =>
        Pending(other)' = Pending(other) /\ Final(other)' = Final(other)
  BY <1>1 DEF Pending, Final
<1>4. \A k \in 0 .. Len(updates'[cl]), e \in Entities : Pending(cl)'[k][e] = NoCopy
  <2>1. 0 .. Len(updates'[cl]) = {0} /\ updates'[cl] \in Seq(Update)
    BY <1>1
  <2>2. replica'[cl] \in Copies
    BY ShapeTypes DEF ClientDisconnect, Copies, StructureInv, DeliveryInv, TypeOK
  <2>3. Pending(cl)'[0] = replica'[cl]
    BY <2>1, <2>2, ReplayType DEF Pending
  <2> QED
    BY <1>1, <2>1, <2>3
<1>5. HeldComponents(NoCopy) = {}
  BY DEF HeldComponents, NoCopy, NoStamps
<1>6. AbsentIsEmpty'
  <2> SUFFICES ASSUME NEW other \in Clients, NEW k \in 0 .. Len(updates'[other]), NEW e \in Entities,
                      Pending(other)'[k][e].history = 0
               PROVE  HeldComponents(Pending(other)'[k][e]) = {}
    BY DEF AbsentIsEmpty, HeldComponents
  <2>1. CASE other = cl
    BY <1>4, <1>5, <2>1
  <2>2. CASE other # cl
    BY <1>1, <1>3, <2>2 DEF StructureInv, AbsentIsEmpty
  <2> QED
    BY <2>1, <2>2
<1>7. MutationsFit'
  <2> SUFFICES ASSUME NEW other \in Clients, other # cl, NEW m \in mutates'[other] \cup buffered'[other],
                      NEW k \in 0 .. Len(updates'[other]), NEW e \in Entities,
                      k = Len(updates'[other]) \/ m.updateTick < updates'[other][k + 1].tick
               PROVE  Fits(m, e, Pending(other)'[k][e])
    BY <1>1 DEF MutationsFit, Fits
  <2> QED
    BY <1>1, <1>3 DEF StructureInv, MutationsFit
<1>8. TicksMatch'
  BY <1>1, <1>3 DEF StructureInv, TicksMatch, Matches, Linked
<1> QED
  BY <1>2, <1>6, <1>7, <1>8

-----------------------------------------------------------------------------
\* A send.  What it makes of the record of one entity is what its update
\* message makes of the copy.

LEMMA EmptyUpdate ==
  ASSUME NEW u, IsEmptyUpdate(u), NEW e \in Entities, NEW copy
  PROVE  ApplyUpdate(u, e, copy) = copy
  BY DEF IsEmptyUpdate, ApplyUpdate

\* collect_despawns
LEMMA DespawnsMatch ==
  ASSUME StructureInv, NEW cl \in Clients, NEW e \in Entities, Matches(cl, e)
  PROVE  LET old == IF SendsDespawn(cl, e) THEN NoCopy ELSE Final(cl)[e]
             known == AfterDespawns(cl, e)
         IN  /\ known = NoTicks /\ status[e] # "despawned" => old.history = 0
             /\ known # NoTicks => /\ old = Final(cl)[e] /\ known = ticks[cl][e]
                                   /\ HeldComponents(old) = known.components
                                   /\ NoEntityAfterFirst => old.history > 0
<1> DEFINE old == IF SendsDespawn(cl, e) THEN NoCopy ELSE Final(cl)[e]
           known == AfterDespawns(cl, e)
<1>1. CASE ticks[cl][e] = NoTicks
  <2>1. old = Final(cl)[e] /\ known = NoTicks
    BY <1>1 DEF SendsDespawn, AfterDespawns
  <2> QED
    BY <1>1, <2>1 DEF Matches
<1>2. CASE ticks[cl][e] # NoTicks /\ Forgotten(cl, e)
  <2>1. known = NoTicks
    BY <1>2 DEF AfterDespawns
  <2>2. CASE e \in despawnBuffer
    BY <2>1, <2>2 DEF StructureInv, Bookkeeping
  <2>3. CASE VisibilityLost(cl, e)
    BY <1>2, <2>1, <2>3 DEF SendsDespawn, NoCopy
  <2> QED
    BY <1>2, <2>2, <2>3 DEF Forgotten
<1>3. CASE ticks[cl][e] # NoTicks /\ ~Forgotten(cl, e)
  BY <1>3 DEF SendsDespawn, AfterDespawns, Forgotten, Matches
<1> QED
  BY <1>1, <1>2, <1>3

\* collect_removals
LEMMA RemovalsMatch ==
  ASSUME StructureInv, NEW cl \in Clients, NEW e \in Entities
  PROVE  LET known == AfterDespawns(cl, e)
             left == AfterRemovals(cl, e)
         IN  /\ Removals(cl, e) \subseteq known.components
             /\ left.components = known.components \ Removals(cl, e)
             /\ known = NoTicks => left = NoTicks /\ Removals(cl, e) = {}
             /\ known # NoTicks => left # NoTicks /\ left.tick = known.tick /\ left.tick > 0
<1> DEFINE known == AfterDespawns(cl, e)
           left == AfterRemovals(cl, e)
           gone == Removals(cl, e)
<1>1. known \in EntityTicks /\ (known = NoTicks \/ known = ticks[cl][e])
  BY StageTypes DEF AfterDespawns, StructureInv, DeliveryInv
<1>2. gone \subseteq known.components
  BY DEF Removals, BufferedRemovals, LostComponents
<1>3. left = [known EXCEPT !.components = @ \ gone]
  BY DEF AfterRemovals
<1>4. known # NoTicks => known.tick > 0
  BY <1>1 DEF StructureInv, Bookkeeping
<1> HIDE DEF known, gone, left
<1>5. left.components = known.components \ gone /\ left.tick = known.tick
  BY <1>1, <1>3 DEF EntityTicks
<1>6. CASE known = NoTicks
  <2>1. gone = {}
    BY <1>2, <1>6 DEF NoTicks
  <2> QED
    BY <1>2, <1>3, <1>5, <1>6, <2>1 DEF NoTicks, known, gone, left
<1>7. CASE known # NoTicks
  <2>1. left # NoTicks
    BY <1>4, <1>5, <1>7 DEF NoTicks
  <2> QED
    BY <1>2, <1>4, <1>5, <1>7, <2>1 DEF known, gone, left
<1> QED
  BY <1>6, <1>7
\* The shortest of the lifetimes that hide something.
LEMMA ShortestIsLeast ==
  ASSUME NEW fs \in SUBSET Filters
  PROVE  /\ ShortestLifetime(fs) = NotHidden \/ \E f \in fs : ShortestLifetime(fs) = Lifetime[f]
         /\ \A f \in fs : ShortestLifetime(fs) <= Lifetime[f]
<1> DEFINE S == {Lifetime[f] : f \in fs} \cup {NotHidden}
<1>1. \A f \in Filters : Lifetime[f] \in Nat /\ Lifetime[f] < NotHidden
  BY ReplicationAssumption
     DEF WhileVisible, AfterFirstVisibility, AlwaysPresent, NotHidden
<1>2. S \in SUBSET Nat /\ S # {}
  BY <1>1 DEF NotHidden
<1>3. PICK l \in S : \A k \in S : l <= k
  BY <1>2, LeastExists
<1>4. \A f \in fs : l <= Lifetime[f]
  BY <1>3
<1>5. /\ ShortestLifetime(fs) \in S
      /\ \A f \in fs : ShortestLifetime(fs) <= Lifetime[f]
  BY <1>4 DEF ShortestLifetime
<1> QED
  BY <1>5

\* The parts of the update message about one entity.
LEMMA UpdateOfEntity ==
  ASSUME StructureInv, NEW cl \in Clients, NEW e \in Entities
  PROVE  LET u == UpdateMessage(cl)
             written == Inserted(cl, e) \cup Mutated(cl, e)
         IN  /\ u \in Update /\ u.tick = Now /\ Now \in Nat /\ Now > 0
             /\ e \in u.despawns <=> SendsDespawn(cl, e)
             /\ u.removals[e] = Removals(cl, e)
             /\ e \in u.changed <=> InUpdate(cl, e) /\ (StartsReplication(cl, e) \/ written # {})
             /\ \A c \in Components :
                  u.values[e][c] > 0 <=> InUpdate(cl, e) /\ c \in written
             /\ Mutated(cl, e) \subseteq AfterRemovals(cl, e).components
<1>1. serverTick \in Nat /\ world \in [Entities -> [Components -> Nat]]
  BY DEF StructureInv, DeliveryInv, TypeOK, Stamps
<1>2. \A c \in Inserted(cl, e) \cup Mutated(cl, e) : world[e][c] > 0
  BY DEF Inserted, Mutated, Present
<1>3. \A c \in Components : UpdateMessage(cl).values[e][c] > 0 <=>
        InUpdate(cl, e) /\ c \in Inserted(cl, e) \cup Mutated(cl, e)
  BY <1>1, <1>2 DEF UpdateMessage, Written, NoStamps
<1>4. UpdateMessage(cl) \in Update /\ UpdateMessage(cl).tick = Now /\ Now \in Nat /\ Now > 0
  BY <1>1, UpdateMessageType DEF StructureInv, DeliveryInv, Now
<1>5. Mutated(cl, e) \subseteq AfterRemovals(cl, e).components
  BY DEF Mutated
<1> QED
  BY <1>3, <1>4, <1>5 DEF UpdateMessage

LEMMA SendMatches ==
  ASSUME StructureInv, NEW cl \in Clients, NEW e \in Entities, Matches(cl, e)
  PROVE  LET next == ApplyUpdate(UpdateMessage(cl), e, Final(cl)[e])
             new == AfterChanges(cl, e)
         IN  IF new = NoTicks THEN status[e] # "despawned" => next.history = 0
             ELSE /\ HeldComponents(next) = new.components
                  /\ NoEntityAfterFirst => next.history > 0
<1> DEFINE u == UpdateMessage(cl)
           old == IF SendsDespawn(cl, e) THEN NoCopy ELSE Final(cl)[e]
           known == AfterDespawns(cl, e)
           left == AfterRemovals(cl, e)
           gone == Removals(cl, e)
           written == Inserted(cl, e) \cup Mutated(cl, e)
           next == ApplyUpdate(u, e, Final(cl)[e])
           new == AfterChanges(cl, e)
           values == [c \in Components |->
                        IF u.values[e][c] > 0 THEN u.values[e][c]
                        ELSE IF c \in gone THEN 0 ELSE old.values[c]]
<1>1. /\ known = NoTicks /\ status[e] # "despawned" => old.history = 0
      /\ known # NoTicks => /\ HeldComponents(old) = known.components
                            /\ NoEntityAfterFirst => old.history > 0
  BY DespawnsMatch
<1>2. /\ gone \subseteq known.components /\ left.components = known.components \ gone
      /\ known = NoTicks => left = NoTicks /\ gone = {}
      /\ known # NoTicks => left # NoTicks
  BY RemovalsMatch
<1>3. /\ u.tick = Now /\ Now \in Nat /\ Now > 0
      /\ e \in u.changed <=> InUpdate(cl, e) /\ (StartsReplication(cl, e) \/ written # {})
      /\ \A c \in Components : u.values[e][c] > 0 <=> InUpdate(cl, e) /\ c \in written
      /\ Mutated(cl, e) \subseteq left.components
  BY UpdateOfEntity
<1>4. /\ old \in Copy
      /\ old.history = 0 => HeldComponents(old) = {}
  <2>1. Final(cl)[e] \in Copy /\ Len(updates[cl]) \in 0 .. Len(updates[cl])
    BY PendingType DEF StructureInv, DeliveryInv
  <2>2. Final(cl)[e].history = 0 => HeldComponents(Final(cl)[e]) = {}
    BY <2>1 DEF StructureInv, AbsentIsEmpty, Final
  <2> QED
    BY <2>1, <2>2, ShapeTypes DEF HeldComponents, NoCopy, NoStamps
<1>5. next = IF e \in u.changed \/ (old.history > 0 /\ gone # {})
             THEN [history |-> u.tick, values |-> values] ELSE old
  <2>1. e \in u.despawns <=> SendsDespawn(cl, e)
    BY UpdateOfEntity
  <2>2. u.removals[e] = gone
    BY UpdateOfEntity
  <2> HIDE DEF u, gone
  <2> QED
    BY <2>1, <2>2 DEF ApplyUpdate
<1>6. Inserted(cl, e) \subseteq Components /\ Mutated(cl, e) \subseteq Components
      /\ known \in EntityTicks /\ left \in EntityTicks
  BY StageTypes DEF StructureInv, DeliveryInv
<1>7. \A c \in Components : values[c] > 0 <=>
        (InUpdate(cl, e) /\ c \in written) \/ (c \notin gone /\ c \in HeldComponents(old))
  <2> HIDE DEF gone, old, u
  <2> QED
    BY <1>3, <1>4 DEF HeldComponents, Copy, Stamps
<1>8. new = IF InUpdate(cl, e) THEN [tick |-> Now, components |-> left.components \cup Inserted(cl, e)]
            ELSE left
  BY DEF AfterChanges
<1>9. NoEntityAfterFirst /\ InUpdate(cl, e) /\ left = NoTicks => StartsReplication(cl, e)
  <2> DEFINE lifetime == HiddenEntityLifetime(hidden[cl][e])
             fs == {f \in hidden[cl][e] : Scope[f].kind = "Entity"}
  <2> SUFFICES ASSUME NoEntityAfterFirst, InUpdate(cl, e), left = NoTicks
               PROVE  lifetime \in {NotHidden, AlwaysPresent}
    BY DEF InUpdate, StartsReplication
  <2>1. fs \in SUBSET Filters
    BY DEF StructureInv, DeliveryInv, TypeOK
  <2>2. lifetime = NotHidden \/ \E f \in fs : lifetime = Lifetime[f]
    BY <2>1, ShortestIsLeast DEF HiddenEntityLifetime
  <2>3. \A f \in fs : Lifetime[f] \in {WhileVisible, AlwaysPresent}
    BY <2>1, ReplicationAssumption DEF NoEntityAfterFirst
  <2>4. lifetime # WhileVisible
    BY DEF InUpdate
  <2> HIDE DEF fs, lifetime
  <2> QED
    BY <2>2, <2>3, <2>4
\* An entity that the client does not have loses nothing.
<1>10. old.history > 0 \/ gone = {} \/ known = NoTicks
  <2>1. old.history \in Nat
    BY <1>4 DEF Copy
  <2> HIDE DEF old, known, gone
  <2> QED
    BY <1>1, <1>2, <1>4, <2>1
<1>11. old.history > 0 \/ gone = {}
  <2> HIDE DEF old, known, gone
  <2> QED
    BY <1>2, <1>10
<1> HIDE DEF u, old, known, left, gone, written, next, new, values
\* The record after the send is the record of an entity with these copies.
<1>12. CASE ~InUpdate(cl, e) /\ left = NoTicks
  <2>1. known = NoTicks /\ gone = {} /\ next = old /\ new = NoTicks
    BY <1>2, <1>3, <1>5, <1>8, <1>12
  <2> QED
    BY <1>1, <2>1 DEF next, new, u
<1>13. CASE ~InUpdate(cl, e) /\ left # NoTicks
  <2>1. new = left /\ HeldComponents(old) = known.components
    BY <1>1, <1>2, <1>8, <1>13
  <2>2. CASE old.history > 0 /\ gone # {}
    <3>1. next = [history |-> u.tick, values |-> values]
      BY <1>5, <2>2
    <3>2. HeldComponents(next) = known.components \ gone
      BY <1>7, <1>13, <2>1, <3>1 DEF HeldComponents
    <3> QED
      BY <1>2, <1>3, <1>13, <2>1, <3>1, <3>2 DEF next, new, u
  <2>3. CASE ~(old.history > 0 /\ gone # {})
    <3>1. next = old
      BY <1>3, <1>5, <1>13, <2>3
    <3>2. gone = {}
      BY <1>11, <2>3
    <3> QED
      BY <1>1, <1>2, <1>13, <2>1, <3>1, <3>2 DEF next, new, u
  <2> QED
    BY <2>2, <2>3
<1>14. CASE InUpdate(cl, e)
  <2>1. new # NoTicks /\ new.components = left.components \cup Inserted(cl, e)
    BY <1>3, <1>8, <1>14 DEF NoTicks
  <2>2. HeldComponents(old) \ gone = left.components
    <3>1. CASE known # NoTicks
      BY <1>1, <1>2, <3>1
    <3>2. CASE known = NoTicks
      <4>1. status[e] # "despawned"
        BY <1>14 DEF InUpdate
      <4>2. HeldComponents(old) = {} /\ left = NoTicks
        BY <1>1, <1>2, <1>4, <3>2, <4>1
      <4>3. left.components = {}
        BY <4>2 DEF NoTicks
      <4> QED
        BY <4>2, <4>3
    <3> QED
      BY <3>1, <3>2
  <2>3. CASE e \in u.changed \/ (old.history > 0 /\ gone # {})
    <3>1. next = [history |-> u.tick, values |-> values]
      BY <1>5, <2>3
    <3>2. \A c \in Components : values[c] > 0 <=> c \in left.components \cup Inserted(cl, e)
      BY <1>3, <1>7, <1>14, <2>2 DEF written
    <3>3. left.components \cup Inserted(cl, e) \subseteq Components
      BY <1>6 DEF EntityTicks, left
    <3>4. HeldComponents(next) = left.components \cup Inserted(cl, e)
      BY <3>1, <3>2, <3>3 DEF HeldComponents
    <3> QED
      BY <1>3, <2>1, <3>1, <3>4 DEF next, new, u
  <2>4. CASE ~(e \in u.changed \/ (old.history > 0 /\ gone # {}))
    <3>1. next = old /\ Inserted(cl, e) = {} /\ ~StartsReplication(cl, e)
      BY <1>3, <1>5, <1>14, <2>4 DEF written
    <3>2. gone = {}
      BY <1>11, <2>4
    <3>3. HeldComponents(next) = new.components
      BY <2>1, <2>2, <3>1, <3>2
    <3>4. NoEntityAfterFirst => next.history > 0
      BY <1>1, <1>2, <1>9, <1>14, <3>1
    <3> QED
      BY <2>1, <3>3, <3>4 DEF next, new, u
  <2> QED
    BY <2>3, <2>4
<1> QED
  BY <1>12, <1>13, <1>14

\* send_messages: the pipeline grows by the update message when it is sent.
LEMMA PipelineGrows ==
  ASSUME StructureInv, SendTick, NEW cl \in Clients
  PROVE  LET u == UpdateMessage(cl)
             n == Len(updates[cl])
         IN  /\ n \in Nat /\ u \in Update
             /\ \A k \in 0 .. n : Pending(cl)'[k] = Pending(cl)[k]
             /\ \A k \in 1 .. n : updates'[cl][k] = updates[cl][k]
             /\ \/ Len(updates'[cl]) = n /\ Final(cl)' = Final(cl)
                \/ Len(updates'[cl]) = n + 1 /\ Final(cl)' = Applied(u, Final(cl))
             /\ Linked(cl) => \A e \in Entities : Final(cl)'[e] = ApplyUpdate(u, e, Final(cl)[e])
<1> DEFINE u == UpdateMessage(cl)
           n == Len(updates[cl])
<1>1. /\ replica' = replica
      /\ updates'[cl] = IF Linked(cl) /\ ~IsEmptyUpdate(u) THEN Append(updates[cl], u) ELSE updates[cl]
  BY DEF SendTick, clientVars, Linked
<1>2. /\ updates[cl] \in Seq(Update) /\ replica[cl] \in Copies /\ n \in Nat /\ n \in 0 .. n
      /\ \A e \in Entities : Final(cl)[e] \in Copy
  BY PendingType DEF StructureInv, DeliveryInv
<1>3. u \in Update
  BY UpdateMessageType DEF StructureInv, DeliveryInv
<1>4. \A e \in Entities : \A copies : Applied(u, copies)[e] = ApplyUpdate(u, e, copies[e])
  BY DEF Applied
<1> HIDE DEF u
<1>5. CASE Linked(cl) /\ ~IsEmptyUpdate(u)
  <2>1. /\ updates'[cl] = Append(updates[cl], u) /\ Len(updates'[cl]) = n + 1
        /\ \A k \in 1 .. n : updates'[cl][k] = updates[cl][k]
    BY <1>1, <1>2, <1>3, <1>5
  <2>2. /\ \A k \in 0 .. n : Replay(Append(updates[cl], u), replica[cl])[k] = Replay(updates[cl], replica[cl])[k]
        /\ Replay(Append(updates[cl], u), replica[cl])[n + 1] = Applied(u, Replay(updates[cl], replica[cl])[n])
    BY <1>2, <1>3, ReplayAppend
  <2>3. Pending(cl)' = Replay(Append(updates[cl], u), replica[cl])
    BY <1>1, <2>1 DEF Pending
  <2>4. Final(cl)' = Applied(u, Final(cl))
    BY <2>1, <2>2, <2>3 DEF Final, Pending
  <2> QED
    BY <1>2, <1>3, <1>4, <2>1, <2>2, <2>3, <2>4 DEF Pending, u
<1>6. CASE ~(Linked(cl) /\ ~IsEmptyUpdate(u))
  <2>1. updates'[cl] = updates[cl] /\ Pending(cl)' = Pending(cl) /\ Final(cl)' = Final(cl)
    BY <1>1, <1>6 DEF Pending, Final
  <2>2. Linked(cl) => \A e \in Entities : Final(cl)'[e] = ApplyUpdate(u, e, Final(cl)[e])
    BY <1>6, <2>1, EmptyUpdate
  <2> QED
    BY <1>2, <1>3, <2>1, <2>2 DEF u
<1> QED
  BY <1>5, <1>6

\* An update message leaves a copy alone, ends it or confirms it now.
LEMMA UpdatedCopy ==
  ASSUME StructureInv, NEW cl \in Clients, NEW e \in Entities
  PROVE  LET next == ApplyUpdate(UpdateMessage(cl), e, Final(cl)[e])
         IN  /\ next \in Copy
             /\ next = NoCopy \/ next = Final(cl)[e] \/ next.history = serverTick + 1
<1>1. UpdateMessage(cl) \in Update /\ UpdateMessage(cl).tick = serverTick + 1
  BY UpdateMessageType DEF StructureInv, DeliveryInv, Now
<1>2. Final(cl)[e] \in Copy
  BY PendingType DEF StructureInv, DeliveryInv
<1>3. ApplyUpdate(UpdateMessage(cl), e, Final(cl)[e]) \in Copy
  BY <1>1, <1>2, ApplyUpdateType
<1> DEFINE u == UpdateMessage(cl)
<1> HIDE DEF u
<1>4. LET next == ApplyUpdate(u, e, Final(cl)[e])
      IN  next = NoCopy \/ next = Final(cl)[e] \/ next.history = u.tick
  BY DEF ApplyUpdate
<1> QED
  BY <1>1, <1>3, <1>4 DEF u

\* A mutate message carries components that the server has on record and that
\* no update message of the same send touches.
LEMMA MutationsAreTracked ==
  ASSUME StructureInv, NEW cl \in Clients, NEW packet \in [Entities -> 1 .. MaxPackets],
         NEW m \in MutateMessages(cl, packet), NEW e \in Entities, NEW c \in Components,
         m.values[e][c] > 0
  PROVE  c \in AfterChanges(cl, e).components /\ AfterChanges(cl, e) # NoTicks
<1>1. PICK p \in UsedPackets(cl, packet) :
        m.values = [f \in Entities |-> IF f \in MutatedEntities(cl) /\ packet[f] = p
                                       THEN Written(f, Mutated(cl, f)) ELSE NoStamps]
  BY DEF MutateMessages
<1>2. m.values[e] = IF e \in MutatedEntities(cl) /\ packet[e] = p
                    THEN Written(e, Mutated(cl, e)) ELSE NoStamps
  BY <1>1
<1>3. NoStamps[c] = 0 /\ Written(e, Mutated(cl, e))[c] = IF c \in Mutated(cl, e) THEN world[e][c] ELSE 0
  BY DEF NoStamps, Written
<1>4. e \in MutatedEntities(cl) /\ c \in Mutated(cl, e)
  BY <1>2, <1>3
<1>5. ~InUpdate(cl, e) /\ c \in AfterRemovals(cl, e).components
  BY <1>4 DEF MutatedEntities, Mutated
<1>6. NoTicks.components = {}
  BY DEF NoTicks
<1> QED
  BY <1>5, <1>6 DEF AfterChanges

LEMMA SendKeepsRecords ==
  ASSUME StructureInv, SendTick
  PROVE  Bookkeeping' /\ AbsentIsEmpty' /\ TicksMatch'
<1>1. /\ UNCHANGED <<status, connected, clientUp, replica, buffered>> /\ despawnBuffer' = {}
      /\ \A cl \in Clients, e \in Entities :
           ticks'[cl][e] = IF connected[cl] THEN AfterChanges(cl, e) ELSE ticks[cl][e]
      /\ \A cl \in Clients : ~clientUp[cl] => mutates'[cl] = mutates[cl]
  BY DEF SendTick, clientVars
<1>2. \A cl \in Clients, e \in Entities : AfterChanges(cl, e) = NoTicks \/ AfterChanges(cl, e).tick > 0
  BY RemovalsMatch, UpdateOfEntity DEF AfterChanges
<1>3. Bookkeeping'
  BY <1>1, <1>2 DEF StructureInv, Bookkeeping
<1>4. AbsentIsEmpty'
  <2> SUFFICES ASSUME NEW cl \in Clients, NEW k \in 0 .. Len(updates'[cl]), NEW e \in Entities,
                      Pending(cl)'[k][e].history = 0
               PROVE  HeldComponents(Pending(cl)'[k][e]) = {}
    BY DEF AbsentIsEmpty, HeldComponents
  <2>1. CASE k \in 0 .. Len(updates[cl])
    BY <2>1, PipelineGrows DEF StructureInv, AbsentIsEmpty
  <2>2. CASE k \notin 0 .. Len(updates[cl])
    <3>1. Pending(cl)'[k][e] = ApplyUpdate(UpdateMessage(cl), e, Final(cl)[e])
      <4>1. k = Len(updates'[cl]) /\ Final(cl)' = Applied(UpdateMessage(cl), Final(cl))
        BY <2>2, PipelineGrows
      <4>2. Pending(cl)'[k] = Final(cl)'
        BY <4>1 DEF Final
      <4> QED
        BY <4>1, <4>2 DEF Applied
    <3>2. Final(cl)[e].history = 0 => HeldComponents(Final(cl)[e]) = {}
      BY PendingType DEF StructureInv, DeliveryInv, AbsentIsEmpty, Final
    <3>3. HeldComponents(NoCopy) = {}
      BY DEF HeldComponents, NoCopy, NoStamps
    <3>4. serverTick + 1 # 0
      BY DEF StructureInv, DeliveryInv, TypeOK
    <3> QED
      BY <3>1, <3>2, <3>3, <3>4, UpdatedCopy
  <2> QED
    BY <2>1, <2>2
<1>5. TicksMatch'
  <2> SUFFICES ASSUME NEW cl \in Clients, NEW e \in Entities, Linked(cl)
               PROVE  Matches(cl, e)'
    BY <1>1 DEF TicksMatch, Linked
  <2>1. Matches(cl, e)
    BY DEF StructureInv, TicksMatch
  <2>2. /\ Final(cl)'[e] = ApplyUpdate(UpdateMessage(cl), e, Final(cl)[e])
        /\ ticks'[cl][e] = AfterChanges(cl, e)
    BY <1>1, PipelineGrows DEF Linked
  <2> QED
    BY <1>1, <2>1, <2>2, SendMatches DEF Matches
<1> QED
  BY <1>3, <1>4, <1>5

LEMMA SendKeepsFit ==
  ASSUME StructureInv, DeliveryInv', SendTick
  PROVE  MutationsFit'
<1> SUFFICES ASSUME NEW cl \in Clients, NEW m \in mutates'[cl] \cup buffered'[cl],
                    NEW k \in 0 .. Len(updates'[cl]), NEW e \in Entities,
                    k = Len(updates'[cl]) \/ m.updateTick < updates'[cl][k + 1].tick
             PROVE  Fits(m, e, Pending(cl)'[k][e])
  BY DEF MutationsFit, Fits
<1> DEFINE n == Len(updates[cl])
<1>1. /\ n \in Nat /\ \A i \in 0 .. n : Pending(cl)'[i] = Pending(cl)[i]
      /\ \A i \in 1 .. n : updates'[cl][i] = updates[cl][i]
      /\ \/ Len(updates'[cl]) = n
         \/ Len(updates'[cl]) = n + 1 /\ Final(cl)' = Applied(UpdateMessage(cl), Final(cl))
  BY PipelineGrows
<1>2. m \in Mutate
  BY DEF DeliveryInv, TypeOK
<1>3. CASE m \in mutates[cl] \cup buffered[cl]
  <2>1. m.tick <= serverTick
    BY <1>3 DEF StructureInv, DeliveryInv, StampsBounded
  <2>2. CASE k \in 0 .. n
    <3>1. k = n \/ m.updateTick < updates[cl][k + 1].tick
      <4>1. k # n => k + 1 \in 1 .. n /\ k # Len(updates'[cl])
        BY <1>1, <2>2
      <4> QED
        BY <1>1, <4>1
    <3> QED
      BY <1>1, <1>3, <2>2, <3>1 DEF StructureInv, MutationsFit
  <2>3. CASE k \notin 0 .. n
    <3>1. k = Len(updates'[cl]) /\ Final(cl)' = Applied(UpdateMessage(cl), Final(cl))
      BY <1>1, <2>3
    <3>2. Pending(cl)'[k][e] = ApplyUpdate(UpdateMessage(cl), e, Final(cl)[e])
      BY <3>1 DEF Final, Applied
    <3>3. Fits(m, e, Final(cl)[e])
      BY <1>1, <1>3 DEF StructureInv, MutationsFit, Final
    <3>4. NoCopy.history = 0
      BY DEF NoCopy
    <3>5. m.tick <= serverTick + 1
      BY <1>2, <2>1 DEF StructureInv, DeliveryInv, TypeOK, Mutate
    <3> QED
      BY <3>2, <3>3, <3>4, <3>5, UpdatedCopy DEF Fits
  <2> QED
    BY <2>2, <2>3
<1>4. CASE m \notin mutates[cl] \cup buffered[cl]
  <2>1. PICK packet \in [Entities -> 1 .. MaxPackets] :
          m \in MutateMessages(cl, packet) /\ connected[cl] /\ clientUp[cl]
    BY <1>4 DEF SendTick, clientVars
  <2>2. m.updateTick = updateTick'[cl] /\ connected' = connected
    BY <2>1, MutateMessagesType DEF SendTick, StructureInv, DeliveryInv
  \* Every update message on its way is one that the message waits for.
  <2>3. k = Len(updates'[cl])
    <3>1. \A i \in DOMAIN updates'[cl] : updates'[cl][i].tick <= updateTick'[cl] /\ updates'[cl][i] \in Update
      BY <2>1, <2>2 DEF DeliveryInv, UpdatesInOrder, TypeOK
    <3>2. k # Len(updates'[cl]) => k + 1 \in DOMAIN updates'[cl]
      BY <1>1 DEF DeliveryInv, TypeOK
    <3>3. updateTick'[cl] \in Nat
      BY DEF DeliveryInv, TypeOK
    <3> QED
      BY <2>2, <3>1, <3>2, <3>3 DEF Update
  <2>4. Pending(cl)'[k][e] = ApplyUpdate(UpdateMessage(cl), e, Final(cl)[e])
    BY <2>1, <2>3, PipelineGrows DEF Final, Linked
  <2>5. Matches(cl, e)
    BY <2>1 DEF StructureInv, TicksMatch, Linked
  <2>6. ASSUME NEW c \in Components, m.values[e][c] > 0
        PROVE  Pending(cl)'[k][e].values[c] > 0
    <3>1. c \in AfterChanges(cl, e).components /\ AfterChanges(cl, e) # NoTicks
      BY <2>1, <2>6, MutationsAreTracked
    <3>2. c \in HeldComponents(ApplyUpdate(UpdateMessage(cl), e, Final(cl)[e]))
      BY <2>5, <3>1, SendMatches
    <3> QED
      BY <2>4, <3>2 DEF HeldComponents
  <2> QED
    BY <2>6 DEF Fits
<1> QED
  BY <1>3, <1>4

-----------------------------------------------------------------------------
\* The inductive invariant.

LEMMA InitStructure == Init => StructureInv
<1> SUFFICES ASSUME Init PROVE StructureInv
  OBVIOUS
<1>1. DeliveryInv
  BY InitDelivery
<1>2. \A cl \in Clients, e \in Entities :
        /\ replica[cl][e] = NoCopy /\ ticks[cl][e] = NoTicks /\ updates[cl] = <<>>
        /\ mutates[cl] \cup buffered[cl] = {} /\ ~connected[cl] /\ status[e] = "unborn"
  BY DEF Init
<1>3. Bookkeeping /\ TicksMatch
  BY <1>2 DEF Init, Bookkeeping, TicksMatch, Linked
<1>4. HeldComponents(NoCopy) = {}
  BY DEF HeldComponents, NoCopy, NoStamps
<1>5. AbsentIsEmpty
  <2> SUFFICES ASSUME NEW cl \in Clients, NEW k \in 0 .. Len(updates[cl]), NEW e \in Entities
               PROVE  HeldComponents(Pending(cl)[k][e]) = {}
    BY DEF AbsentIsEmpty
  <2>1. k = 0
    BY <1>2
  <2>2. Pending(cl)[0] = replica[cl]
    BY <1>1, PendingType DEF DeliveryInv
  <2> QED
    BY <1>2, <1>4, <2>1, <2>2
<1>6. MutationsFit
  BY DEF Init, MutationsFit
<1> QED
  BY <1>1, <1>3, <1>5, <1>6 DEF StructureInv

\* Steps of the server that send nothing, losses and stutters.
LEMMA SettingKeepsStructure ==
  ASSUME StructureInv,
         \/ \E cl \in Clients, e \in Entities :
              \/ \E f \in Filters : Hide(cl, e, f) \/ Show(cl, e, f)
              \/ \E p \in Periods : SetPriority(cl, e, p)
         \/ PanicInSend
         \/ \E cl \in Clients : \/ ReceiveAcks(cl)
                                \/ \E t \in 1 .. serverTick : CleanupAcks(cl, t)
                                \/ \E m \in mutates[cl] : LoseMutation(cl, m)
         \/ UNCHANGED vars
  PROVE  Bookkeeping' /\ AbsentIsEmpty' /\ MutationsFit' /\ TicksMatch'
<1> USE DEF worldVars, channelVars, clientVars
<1>1. UNCHANGED <<updates, replica, connected, clientUp, status, despawnBuffer, buffered>>
  BY DEF Hide, Show, SetPriority, PanicInSend, ReceiveAcks, CleanupAcks, LoseMutation, vars
<1>2. \A cl \in Clients : mutates'[cl] \subseteq mutates[cl]
  BY DEF Hide, Show, SetPriority, PanicInSend, ReceiveAcks, CleanupAcks, LoseMutation, vars,
     StructureInv, DeliveryInv, TypeOK
<1>3. ticks' = ticks \/ \E cl \in Clients : ReceiveAcks(cl)
  BY DEF ackVars, Hide, Show, SetPriority, PanicInSend, CleanupAcks, LoseMutation, vars
<1>4. ASSUME NEW cl \in Clients, NEW e \in Entities
      PROVE  \/ ticks'[cl][e] = ticks[cl][e]
             \/ /\ ticks[cl][e] # NoTicks /\ ticks'[cl][e].tick > 0 /\ ticks'[cl][e] # NoTicks
                /\ ticks'[cl][e].components = ticks[cl][e].components
  BY <1>3, AckKeepsRecords
<1>5. \A cl \in Clients : mutates'[cl] \cup buffered'[cl] \subseteq mutates[cl] \cup buffered[cl]
  BY <1>1, <1>2
<1> QED
  BY <1>1, <1>4, <1>5, ServerKeepsStructure

LEMMA NextKeepsStructure == StructureInv /\ [Next]_vars => StructureInv'
<1> SUFFICES ASSUME StructureInv, [Next]_vars PROVE StructureInv'
  OBVIOUS
<1> DEFINE Kept == (Bookkeeping /\ AbsentIsEmpty /\ MutationsFit /\ TicksMatch)'
<1>1. DeliveryInv'
  BY NextKeepsDelivery DEF StructureInv
<1>2. ASSUME NEW e \in Entities,
             \/ Spawn(e) \/ Despawn(e) \/ Pause(e)
             \/ \E c \in Components : Write(e, c) \/ Remove(e, c)
      PROVE  Kept
  BY <1>2, ChangeKeepsStructure
<1>3. ASSUME SendTick PROVE Kept
  BY <1>1, <1>3, SendKeepsRecords, SendKeepsFit
<1>4. ASSUME NEW cl \in Clients, Connect(cl) \/ ServerDisconnect(cl)
      PROVE  Kept
  BY <1>4, SessionKeepsStructure
<1>5. ASSUME NEW cl \in Clients, ClientDisconnect(cl)
      PROVE  Kept
  BY <1>5, ClientDisconnectKeepsStructure
<1>6. ASSUME NEW cl \in Clients, ReceiveUpdate(cl)
      PROVE  Kept
  BY <1>6, UpdateKeepsStructure
<1>7. ASSUME NEW cl \in Clients, NEW arrived \in SUBSET mutates[cl], ReceiveMutations(cl, arrived)
      PROVE  Kept
  BY <1>1, <1>7, MutationsKeepStructure
<1>8. Kept
  <2>1. \/ \E e \in Entities : \/ Spawn(e) \/ Despawn(e) \/ Pause(e)
                               \/ \E c \in Components : Write(e, c) \/ Remove(e, c)
        \/ SendTick
        \/ \E cl \in Clients :
             \/ Connect(cl) \/ ServerDisconnect(cl) \/ ClientDisconnect(cl) \/ ReceiveUpdate(cl)
             \/ \E arrived \in SUBSET mutates[cl] : ReceiveMutations(cl, arrived)
        \/ \E cl \in Clients, e \in Entities :
             \/ \E f \in Filters : Hide(cl, e, f) \/ Show(cl, e, f)
             \/ \E p \in Periods : SetPriority(cl, e, p)
        \/ PanicInSend
        \/ \E cl \in Clients : \/ ReceiveAcks(cl)
                               \/ \E t \in 1 .. serverTick : CleanupAcks(cl, t)
                               \/ \E m \in mutates[cl] : LoseMutation(cl, m)
        \/ UNCHANGED vars
    BY DEF Next
  <2> HIDE DEF Kept
  <2>2. ASSUME \/ \E cl \in Clients, e \in Entities :
                    \/ \E f \in Filters : Hide(cl, e, f) \/ Show(cl, e, f)
                    \/ \E p \in Periods : SetPriority(cl, e, p)
               \/ PanicInSend
               \/ \E cl \in Clients : \/ ReceiveAcks(cl)
                                      \/ \E t \in 1 .. serverTick : CleanupAcks(cl, t)
                                      \/ \E m \in mutates[cl] : LoseMutation(cl, m)
               \/ UNCHANGED vars
        PROVE  Kept
    BY <2>2, SettingKeepsStructure DEF Kept
  <2> QED
    BY <1>2, <1>3, <1>4, <1>5, <1>6, <1>7, <2>1, <2>2
<1> QED
  BY <1>1, <1>8 DEF StructureInv

\* The inductive invariant of structure: wherever the update messages on their
\* way have taken the client, the mutate messages it may apply there change
\* only components it holds, and at their end its copies are what ClientTicks
\* records (collect_despawns .. send_messages, apply_update_message).
THEOREM StructureHolds == Spec => []StructureInv
  BY InitStructure, NextKeepsStructure, PTL DEF Spec

-----------------------------------------------------------------------------
\* The properties.

\* The client's side of the network, settled: like the end of the pipeline,
\* with some copies confirmed later.
LEMMA SettledSimilar ==
  ASSUME StructureInv, NEW cl \in Clients, NEW e \in Entities
  PROVE  Similar(Final(cl)[e], Settled(cl)[e]) /\ Final(cl)[e] \in Copy /\ Settled(cl)[e] \in Copy
<1>1. Replayed(cl) = Final(cl)
  BY DEF Replayed, Final, Pending, Replay, Applied
<1>2. Settled(cl)[e] = ApplyMutations(buffered[cl], e, Final(cl)[e])
  BY <1>1 DEF Settled
<1>3. Final(cl)[e] \in Copy /\ Len(updates[cl]) \in 0 .. Len(updates[cl])
  BY PendingType DEF StructureInv, DeliveryInv
<1>4. /\ buffered[cl] \in SUBSET Mutate /\ serverTick \in Nat
      /\ \A m \in buffered[cl] : m.tick <= serverTick /\ Fits(m, e, Final(cl)[e])
  <2>1. buffered[cl] \in SUBSET Mutate /\ serverTick \in Nat
    BY DEF StructureInv, DeliveryInv, TypeOK
  <2>2. \A m \in buffered[cl] : m.tick <= serverTick
    BY DEF StructureInv, DeliveryInv, StampsBounded
  <2>3. \A m \in buffered[cl] : Fits(m, e, Final(cl)[e])
    BY <1>3 DEF StructureInv, MutationsFit, Final
  <2> QED
    BY <2>1, <2>2, <2>3
<1> QED
  BY <1>2, <1>3, <1>4, FittingMutations

\* What ClientTicks records for an entity is what the client has, or will have
\* when the messages on their way arrive, unless a filter hides entities with
\* AfterFirstVisibility (update_ticks would record one the client never saw).
THEOREM RecordsAreHeld ==
  ASSUME NoEntityAfterFirst
  PROVE  Spec => []TrackedIsHeld
<1>1. StructureInv => TrackedIsHeld
  <2> SUFFICES ASSUME StructureInv, NEW cl \in Clients, NEW e \in Entities,
                      Linked(cl), ticks[cl][e] # NoTicks
               PROVE  /\ Settled(cl)[e].history > 0
                      /\ HeldComponents(Settled(cl)[e]) = ticks[cl][e].components
    BY DEF TrackedIsHeld
  <2>1. Final(cl)[e].history > 0 /\ HeldComponents(Final(cl)[e]) = ticks[cl][e].components
    BY DEF StructureInv, TicksMatch, Matches
  <2> QED
    BY <2>1, SettledSimilar DEF Similar, Copy
<1> QED
  BY <1>1, StructureHolds, PTL

-----------------------------------------------------------------------------
\* What a WhileVisible filter hides is not on record once it was sent.

LEMMA HiddenWhileVisible ==
  ASSUME NEW fs \in SUBSET Filters, NEW c
  PROVE  HiddenComponentLifetime(fs, c) = WhileVisible <=>
           \E f \in fs : HidesComponent(f, c) /\ Lifetime[f] = WhileVisible
<1> DEFINE hiding == {f \in fs : HidesComponent(f, c)}
           l == ShortestLifetime(hiding)
<1>1. /\ \A f \in hiding : Lifetime[f] \in {0, 1, 2}
      /\ l = NotHidden \/ \E f \in hiding : l = Lifetime[f]
      /\ \A f \in hiding : l <= Lifetime[f]
  <2>1. hiding \in SUBSET Filters
    OBVIOUS
  <2> QED
    BY <2>1, ShortestIsLeast, ReplicationAssumption DEF WhileVisible, AfterFirstVisibility, AlwaysPresent
<1>2. HiddenComponentLifetime(fs, c) = l
  BY DEF HiddenComponentLifetime
<1> HIDE DEF l
<1> QED
  BY <1>1, <1>2 DEF WhileVisible, NotHidden

\* Records shrink, visibility losses are only added, or the record ends.
LEMMA HiddenKept ==
  ASSUME TypeOK, HiddenUntracked,
         \A cl \in Clients, e \in Entities :
           \/ ticks'[cl][e] = NoTicks
           \/ /\ ticks'[cl][e].components \subseteq ticks[cl][e].components
              /\ hidden'[cl][e] \ lost'[cl][e] \subseteq hidden[cl][e] \ lost[cl][e]
  PROVE  HiddenUntracked'
<1> SUFFICES ASSUME NEW cl \in Clients, NEW e \in Entities, NEW c \in Components,
                    HiddenComponentLifetime(hidden'[cl][e] \ lost'[cl][e], c) = WhileVisible
             PROVE  c \notin ticks'[cl][e].components
  BY DEF HiddenUntracked, HiddenComponentLifetime, ShortestLifetime, HidesComponent
<1>1. CASE ticks'[cl][e] = NoTicks
  BY <1>1 DEF NoTicks
<1>2. CASE /\ ticks'[cl][e].components \subseteq ticks[cl][e].components
           /\ hidden'[cl][e] \ lost'[cl][e] \subseteq hidden[cl][e] \ lost[cl][e]
  <2>1. hidden[cl][e] \ lost[cl][e] \in SUBSET Filters
    BY DEF TypeOK
  <2>2. hidden'[cl][e] \ lost'[cl][e] \in SUBSET Filters
    BY <1>2, <2>1
  <2>3. HiddenComponentLifetime(hidden[cl][e] \ lost[cl][e], c) = WhileVisible
    BY <1>2, <2>1, <2>2, HiddenWhileVisible
  <2> QED
    BY <1>2, <2>3 DEF HiddenUntracked
<1> QED
  BY <1>1, <1>2

\* A send removes from the records what visibility lost and inserts nothing hidden.
LEMMA SendKeepsHidden ==
  ASSUME StructureInv, StructureInv', HiddenUntracked, SendTick
  PROVE  HiddenUntracked'
<1> SUFFICES ASSUME NEW cl \in Clients, NEW e \in Entities, NEW c \in Components,
                    HiddenComponentLifetime(hidden'[cl][e] \ lost'[cl][e], c) = WhileVisible
             PROVE  c \notin ticks'[cl][e].components
  BY DEF HiddenUntracked, HiddenComponentLifetime, ShortestLifetime, HidesComponent
<1>1. /\ hidden'[cl][e] = IF e \in despawnBuffer THEN {} ELSE hidden[cl][e]
      /\ connected' = connected
      /\ connected[cl] => ticks'[cl][e] = AfterChanges(cl, e)
  BY DEF SendTick
<1>2. hidden[cl][e] \in SUBSET Filters /\ lost[cl][e] \in SUBSET Filters
  BY DEF StructureInv, DeliveryInv, TypeOK
<1>3. PICK f \in hidden[cl][e] : HidesComponent(f, c) /\ Lifetime[f] = WhileVisible
  <2>1. hidden'[cl][e] \ lost'[cl][e] \in SUBSET Filters
    BY <1>1, <1>2
  <2> QED
    BY <1>1, <2>1, HiddenWhileVisible
<1>4. HiddenComponentLifetime(hidden[cl][e], c) = WhileVisible
  BY <1>2, <1>3, HiddenWhileVisible
<1>5. c \notin AfterRemovals(cl, e).components
  <2>1. AfterRemovals(cl, e).components = AfterDespawns(cl, e).components \ Removals(cl, e)
    BY RemovalsMatch
  <2>2. CASE f \in lost[cl][e]
    <3>1. Lifetime[f] <= WhileVisible
      BY <1>3 DEF WhileVisible
    <3> QED
      BY <1>3, <2>1, <2>2, <3>1 DEF Removals, LostComponents
  <2>3. CASE f \notin lost[cl][e]
    <3>1. HiddenComponentLifetime(hidden[cl][e] \ lost[cl][e], c) = WhileVisible
      <4>1. hidden[cl][e] \ lost[cl][e] \in SUBSET Filters /\ f \in hidden[cl][e] \ lost[cl][e]
        BY <1>2, <1>3, <2>3
      <4> QED
        BY <1>3, <4>1, HiddenWhileVisible
    <3>2. c \notin ticks[cl][e].components
      BY <3>1 DEF HiddenUntracked
    <3> QED
      BY <2>1, <3>2 DEF AfterDespawns, NoTicks
  <2> QED
    BY <2>2, <2>3
<1>6. c \notin Inserted(cl, e)
  BY <1>4 DEF Inserted, WhileVisible, NotHidden, AlwaysPresent
<1>7. CASE connected[cl]
  BY <1>1, <1>5, <1>6, <1>7 DEF AfterChanges
<1>8. CASE ~connected[cl]
  <2>1. ticks'[cl][e] = NoTicks
    BY <1>1, <1>8 DEF StructureInv, Bookkeeping
  <2> QED
    BY <2>1 DEF NoTicks
<1> QED
  BY <1>7, <1>8

LEMMA NextKeepsHidden == StructureInv /\ StructureInv' /\ HiddenUntracked /\ [Next]_vars => HiddenUntracked'
<1> SUFFICES ASSUME StructureInv, StructureInv', HiddenUntracked, [Next]_vars PROVE HiddenUntracked'
  OBVIOUS
<1>1. TypeOK
  BY DEF StructureInv, DeliveryInv
<1>2. CASE SendTick
  BY <1>2, SendKeepsHidden
<1>3. ASSUME NEW cl \in Clients, NEW e \in Entities, NEW f \in Filters, Hide(cl, e, f) \/ Show(cl, e, f)
      PROVE  HiddenUntracked'
  <2>1. /\ ticks' = ticks
        /\ \/ /\ hidden' = [hidden EXCEPT ![cl][e] = @ \cup {f}]
              /\ lost' = [lost EXCEPT ![cl][e] = @ \cup {f}]
           \/ /\ hidden' = [hidden EXCEPT ![cl][e] = @ \ {f}]
              /\ lost' = [lost EXCEPT ![cl][e] = @ \ {f}]
    BY <1>3 DEF Hide, Show, ackVars
  <2>2. /\ hidden \in [Clients -> [Entities -> SUBSET Filters]]
        /\ lost \in [Clients -> [Entities -> SUBSET Filters]]
    BY <1>1 DEF TypeOK
  <2>3. ASSUME NEW other \in Clients, NEW g \in Entities
        PROVE  hidden'[other][g] \ lost'[other][g] \subseteq hidden[other][g] \ lost[other][g]
    <3>1. \/ hidden'[other][g] = hidden[other][g] /\ lost'[other][g] = lost[other][g]
          \/ /\ hidden'[other][g] = hidden[other][g] \cup {f}
             /\ lost'[other][g] = lost[other][g] \cup {f}
          \/ hidden'[other][g] = hidden[other][g] \ {f} /\ lost'[other][g] = lost[other][g] \ {f}
      <4>1. CASE other = cl /\ g = e
        BY <2>1, <2>2, <4>1
      <4>2. CASE ~(other = cl /\ g = e)
        <5>1. hidden'[other][g] = hidden[other][g]
          BY <2>1, <2>2, <4>2
        <5>2. lost'[other][g] = lost[other][g]
          BY <2>1, <2>2, <4>2
        <5> QED
          BY <5>1, <5>2
      <4> QED
        BY <4>1, <4>2
    <3> QED
      BY <3>1
  <2> QED
    BY <1>1, <2>1, <2>3, HiddenKept
<1>4. ASSUME NEW cl \in Clients, ReceiveAcks(cl)
      PROVE  HiddenUntracked'
  <2>1. UNCHANGED <<hidden, lost>>
    BY <1>4 DEF ReceiveAcks, visibilityVars
  <2>2. \A other \in Clients, e \in Entities : ticks'[other][e].components = ticks[other][e].components
    BY <1>4, AckKeepsRecords
  <2> QED
    BY <1>1, <2>1, <2>2, HiddenKept
<1>5. ASSUME NEW cl \in Clients, ServerDisconnect(cl)
      PROVE  HiddenUntracked'
  <2>1. /\ \A e \in Entities : ticks'[cl][e] = NoTicks
        /\ \A other \in Clients : other # cl =>
             /\ ticks'[other] = ticks[other]
             /\ hidden'[other] = hidden[other] /\ lost'[other] = lost[other]
    BY <1>1, <1>5 DEF ServerDisconnect, TypeOK
  <2>2. \A other \in Clients, e \in Entities :
           \/ ticks'[other][e] = NoTicks
           \/ /\ ticks'[other][e].components \subseteq ticks[other][e].components
              /\ hidden'[other][e] \ lost'[other][e] \subseteq hidden[other][e] \ lost[other][e]
    BY <2>1
  <2> QED
    BY <1>1, <2>2, HiddenKept
<1>6. ASSUME NEW e \in Entities, Despawn(e)
      PROVE  HiddenUntracked'
  <2>1. /\ UNCHANGED <<hidden, lost>>
        /\ \A cl \in Clients, g \in Entities : ticks'[cl][g] = NoTicks \/ ticks'[cl][g] = ticks[cl][g]
    BY <1>1, <1>6 DEF Despawn, visibilityVars, TypeOK
  <2> QED
    BY <1>1, <2>1, HiddenKept
<1>7. CASE UNCHANGED <<ticks, hidden, lost>>
  BY <1>1, <1>7, HiddenKept
<1> QED
  BY <1>2, <1>3, <1>4, <1>5, <1>6, <1>7
     DEF Next, vars, worldVars, ackVars, visibilityVars, Spawn, Pause, Write, Remove, SetPriority,
         PanicInSend, Connect, ClientDisconnect, CleanupAcks, ReceiveUpdate, ReceiveMutations, LoseMutation

\* Once the send systems ran after an entity or component became hidden by a
\* WhileVisible filter, the client no longer holds it and no message in flight
\* gives it back (LostComponents of collect_removals, collect_despawns).
THEOREM HiddenLeavesClients == Spec => []HiddenIsGone
<1>1. StructureInv /\ HiddenUntracked => HiddenIsGone
  <2> SUFFICES ASSUME StructureInv, HiddenUntracked, NEW cl \in Clients, NEW e \in Entities,
                      NEW c \in Components, Linked(cl), status[e] # "despawned",
                      HiddenComponentLifetime(hidden[cl][e] \ lost[cl][e], c) = WhileVisible
               PROVE  Settled(cl)[e].values[c] = 0
    BY DEF HiddenIsGone
  <2>1. c \notin ticks[cl][e].components /\ Matches(cl, e)
    BY DEF HiddenUntracked, StructureInv, TicksMatch
  <2>2. /\ Final(cl)[e].history = 0 => HeldComponents(Final(cl)[e]) = {}
        /\ Similar(Final(cl)[e], Settled(cl)[e]) /\ Settled(cl)[e] \in Copy
    BY SettledSimilar, PendingType DEF StructureInv, DeliveryInv, AbsentIsEmpty, Final
  <2>3. c \notin HeldComponents(Settled(cl)[e])
    BY <2>1, <2>2 DEF Matches, Similar
  <2> QED
    BY <2>2, <2>3 DEF HeldComponents, Copy, Stamps
<1>2. Init => HiddenUntracked
  BY DEF Init, HiddenUntracked, NoTicks
<1> QED
  BY <1>1, <1>2, StructureHolds, NextKeepsHidden, PTL DEF Spec
=============================================================================
