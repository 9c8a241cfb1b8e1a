--------------------------- MODULE Messages_proofs ---------------------------
(***************************************************************************)
(* Proofs about Messages: its types, and that what is shown to a client is *)
(* in order (SeenInOrder), goes to everyone it was for and to nobody who   *)
(* connected later (AudienceIsExact), and that what a client writes is     *)
(* handled once (HandledOnce).                                             *)
(*                                                                         *)
(* The inductive invariant has one part per concern: the types, the order  *)
(* in which the server hands out ids (ServerOrder), and for each client    *)
(* the two ends of its connection (TargetInv, EndInv), the line of         *)
(* messages to it (Line, BehindLine), who is on that line (Audience), what *)
(* the client can map of it (Mappable), what must still be on it (Kept),   *)
(* and the messages that go the other way (OnceInv).                       *)
(***************************************************************************)
EXTENDS Messages, FiniteSetTheorems, FunctionTheorems, SequenceTheorems, TLAPS

-----------------------------------------------------------------------------
(* Types.                                                                  *)

Ticks == 0..MaxTick
Sessions == 0..MaxSession

WrittenType == [kind : Kinds, entity : Entities \cup {None},
                targets : [to : {"All", "AllExcept", "Single"},
                           who : (Clients \cup {Server, None}) \X Nat]]
StoredType == [id : Nat, excluded : SUBSET Clients]
LinkType == [status : {"Absent", "Waiting", "Connected", "Authorized"}, session : Sessions,
             updateTick : Ticks, known : SUBSET Entities, since : Nat, authSince : Nat]
UpdateType == [tick : Ticks, world : SUBSET Entities]
PacketType == [id : Nat, tick : Ticks]
UpIds == Nat \cup Protocols
UpType == [kind : UpKinds, id : UpIds]
OutType == [kind : UpKinds, id : UpIds, sent : BOOLEAN]
HandledType == [kind : UpKinds, id : UpIds, at : {Server, "Local"}]
AppType == [state : {"Disconnected", "Connecting", "Connected"}, protocol : Protocols,
            updateTick : Ticks, replica : SUBSET Entities, queue : Seq(PacketType),
            out : Seq(OutType), wrote : 0..MaxMessages, session : Sessions]

TypeInv ==
  /\ serverTick \in Ticks
  /\ spawned \subseteq Entities /\ world \subseteq spawned
  /\ written \in Seq(WrittenType)
  /\ toClients \in Seq(Nat) /\ seenLocally \in Seq(Nat)
  /\ buffer \in Seq(StoredType)
  /\ disconnects \subseteq Clients
  /\ link \in [Clients -> LinkType]
  /\ updates \in [Clients -> Seq(UpdateType)]
  /\ down \in [Clients -> Seq(PacketType)]
  /\ up \in [Clients -> Seq(UpType)]
  /\ app \in [Clients -> AppType]
  /\ seen \in [Clients -> Seq(Nat)]
  /\ handled \in [Clients -> Seq(HandledType)]

-----------------------------------------------------------------------------
(* The parts of the invariant.                                             *)

\* What is not yet processed is the end of what was written; the buffer has
\* dependent messages that were processed, the older ones first.
ServerOrder ==
  /\ Len(toClients) <= Len(written)
  /\ \A i \in DOMAIN toClients : toClients[i] = Processed + i
  /\ \A i \in DOMAIN seenLocally : seenLocally[i] \in MessageIds
  /\ \A i \in DOMAIN buffer :
       /\ buffer[i].id \in 1..Processed
       /\ written[buffer[i].id].kind = "Dependent"
       /\ \A j \in DOMAIN buffer : i < j => buffer[i].id < buffer[j].id
  /\ \A id \in MessageIds : written[id].entity \in spawned \cup {None}

\* A target names a session that the client has had, and one that was accepted.
Addressee(w, id, cl) == w[id].targets.who[1] = cl
TargetInv(w, cl, l, a) ==
  \A id \in DOMAIN w :
    Addressee(w, id, cl) =>
      /\ 1 <= w[id].targets.who[2] /\ w[id].targets.who[2] <= a.session
      /\ l.status = "Waiting" => w[id].targets.who[2] < a.session

\* The two ends of a connection: the entity on the server and the client app.
EndInv(n, tick, l, a, s, d) ==
  /\ l.status = "Absent" => l = NoLink
  /\ l.status # "Absent" =>
       /\ l.session = a.session /\ 1 <= a.session
       /\ \A i \in DOMAIN d : d[i].tick <= l.updateTick
       /\ \A i \in DOMAIN a.queue : a.queue[i].tick <= l.updateTick
  /\ l.status = "Waiting" => s = <<>> /\ a.queue = <<>> /\ d = <<>>
  /\ l.updateTick <= tick /\ l.since <= n /\ l.authSince <= n
  /\ a.state # "Connected" => a.updateTick = 0 /\ a.replica = {} /\ a.queue = <<>>

\* Two messages of one kind, whose channel keeps the order.
Chained(w, a, b) == w[a].kind = w[b].kind /\ ChannelOf[w[a].kind] = "Ordered"

Ascending(w, ids) == \A i, j \in DOMAIN ids : i < j /\ Chained(w, ids[i], ids[j]) => ids[i] < ids[j]
Precedes(w, p, q) == Chained(w, p.id, q.id) => p.id < q.id /\ p.tick <= q.tick
AscendingPackets(w, ps) == \A i, j \in DOMAIN ps : i < j => Precedes(w, ps[i], ps[j])
AllPrecede(w, ps, qs) == \A i \in DOMAIN ps, j \in DOMAIN qs : Precedes(w, ps[i], qs[j])
AllBefore(w, ids, ps) ==
  \A i \in DOMAIN ids, j \in DOMAIN ps : Chained(w, ids[i], ps[j].id) => ids[i] < ps[j].id

\* The line of messages to a client: shown, then in its queue, then on their
\* way.  n bounds the ids and tick is the update tick of the client.
Line(w, n, tick, s, q, d) ==
  /\ \A i \in DOMAIN s : s[i] \in 1..n
  /\ \A i \in DOMAIN q : q[i].id \in 1..n /\ q[i].tick > tick /\ w[q[i].id].kind = "Dependent"
  /\ \A i \in DOMAIN d : d[i].id \in 1..n /\ (w[d[i].id].kind # "Dependent" => d[i].tick = 0)
  /\ Ascending(w, s) /\ AscendingPackets(w, q) /\ AscendingPackets(w, d)
  /\ AllBefore(w, s, q) /\ AllBefore(w, s, d) /\ AllPrecede(w, q, d)

\* A dependent message on the line was written before what is in the buffer.
BehindLine(w, s, q, d, b) ==
  \A k \in DOMAIN b :
    /\ \A i \in DOMAIN s : w[s[i]].kind = "Dependent" => s[i] < b[k].id
    /\ \A i \in DOMAIN q : q[i].id < b[k].id
    /\ \A i \in DOMAIN d : w[d[i].id].kind = "Dependent" => d[i].id < b[k].id

\* Everything on the line of a connected client is newer than its connection,
\* and what is older in the buffer excludes it.
NewerThan(since, s, q, d) ==
  /\ \A i \in DOMAIN s : s[i] > since
  /\ \A i \in DOMAIN q : q[i].id > since
  /\ \A i \in DOMAIN d : d[i].id > since
Audience(b, cl, l, a, s, d) ==
  l.status \in {"Connected", "Authorized"} =>
    /\ NewerThan(l.since, s, a.queue, d)
    /\ \A k \in DOMAIN b : b[k].id <= l.since => cl \in b[k].excluded

\* A client that applied, or will apply, an update as new as a dependent
\* message has the entity that the message refers to, while it exists.
MapsOnTime(w, alive, a, us, ps) ==
  \A i \in DOMAIN ps :
    w[ps[i].id].kind = "Dependent" /\ w[ps[i].id].entity \in alive =>
      /\ ps[i].tick <= a.updateTick => w[ps[i].id].entity \in a.replica
      /\ \A n \in DOMAIN us : ps[i].tick <= us[n].tick => w[ps[i].id].entity \in us[n].world
UpToDate(l, tick, replica) == tick <= l.updateTick /\ (tick = l.updateTick => replica = l.known)
Mappable(w, alive, l, a, us, d) ==
  a.state = "Connected" /\ l.status # "Absent" =>
    /\ UpToDate(l, a.updateTick, a.replica)
    /\ \A n \in DOMAIN us : UpToDate(l, us[n].tick, us[n].world)
    /\ MapsOnTime(w, alive, a, us, a.queue) /\ MapsOnTime(w, alive, a, us, d)

\* What is shown, queued or on its way to a client.
OnLine(id, s, q, d) ==
  \/ \E i \in DOMAIN s : s[i] = id
  \/ \E i \in DOMAIN q : q[i].id = id
  \/ \E i \in DOMAIN d : d[i].id = id

\* What must not be lost (NothingIsLost): a processed message for r that is
\* newer than its authorization.
IsFor(w, id, r) ==
  \/ w[id].targets.to = "All"
  \/ w[id].targets.to = "AllExcept" /\ r # w[id].targets.who
  \/ w[id].targets.to = "Single" /\ r = w[id].targets.who
Due(w, id, alive, r, since) ==
  /\ since < id /\ IsFor(w, id, r)
  /\ ChannelOf[w[id].kind] # "Unreliable"
  /\ w[id].entity = None \/ (w[id].kind = "Dependent" /\ w[id].entity \in alive)
Stored(id, b, cl) == \E k \in DOMAIN b : b[k].id = id /\ cl \notin b[k].excluded
Kept(w, n, alive, b, cl, l, a, s, d) ==
  l.status = "Authorized" /\ a.state = "Connected" =>
    \A id \in 1..n :
      Due(w, id, alive, <<cl, l.session>>, l.authSince) =>
        OnLine(id, s, a.queue, d) \/ Stored(id, b, cl)

\* What holds of each client, of the messages w that were written, the first n
\* of which were processed, the server's tick, entities and buffer, the two
\* ends of the connection, and what is on its way and was shown.
EndsMeet(w, n, tick, alive, b, cl, l, a, us, s, d) ==
  /\ TargetInv(w, cl, l, a)
  /\ EndInv(n, tick, l, a, s, d)
  /\ Line(w, n, a.updateTick, s, a.queue, d)
  /\ BehindLine(w, s, a.queue, d, b)
  /\ Audience(b, cl, l, a, s, d)
  /\ Mappable(w, alive, l, a, us, d)
  /\ Kept(w, n, alive, b, cl, l, a, s, d)
DownInv(cl) ==
  EndsMeet(written, Processed, serverTick, world, buffer, cl,
           link[cl], app[cl], updates[cl], seen[cl], down[cl])

\* The messages of a client: those it wrote and did not yet send or handle,
\* those on their way to the server, and those that were handled.
IsMessage(m) == m.kind # "ProtocolHash"
DistinctIds(ms) ==
  \A i, j \in DOMAIN ms : IsMessage(ms[i]) /\ IsMessage(ms[j]) /\ ms[i].id = ms[j].id => i = j
Numbered(ms, wrote) == \A i \in DOMAIN ms : IsMessage(ms[i]) => ms[i].id \in 1..wrote
HandledApart(hs) ==
  \A i, j \in DOMAIN hs : i # j /\ hs[i].id = hs[j].id => hs[i].kind = "Shared" /\ hs[i].at # hs[j].at
NotYetIn(out, ms) ==
  \A i \in DOMAIN out, j \in DOMAIN ms :
    ~out[i].sent /\ IsMessage(out[i]) /\ IsMessage(ms[j]) => out[i].id # ms[j].id
OnlySharedLocally(us, hs) ==
  \A i \in DOMAIN us, j \in DOMAIN hs :
    IsMessage(us[i]) /\ us[i].id = hs[j].id =>
      us[i].kind = "Shared" /\ hs[j].kind = "Shared" /\ hs[j].at = "Local"
OnceInv(state, out, wrote, us, hs) ==
  /\ Numbered(out, wrote) /\ Numbered(us, wrote) /\ Numbered(hs, wrote)
  /\ DistinctIds(out) /\ DistinctIds(us) /\ HandledApart(hs)
  /\ \A j \in DOMAIN hs : IsMessage(hs[j])
  /\ NotYetIn(out, us) /\ NotYetIn(out, hs) /\ OnlySharedLocally(us, hs)
  /\ state # "Connected" => \A i \in DOMAIN out : ~out[i].sent /\ IsMessage(out[i])
UpInv(cl) == OnceInv(app[cl].state, app[cl].out, app[cl].wrote, up[cl], handled[cl])

MessagesInv ==
  /\ TypeInv /\ ServerOrder
  /\ \A cl \in Clients : DownInv(cl) /\ UpInv(cl)

-----------------------------------------------------------------------------
(* Sequences: what Pick, RemoveAt and Enqueue leave, add and keep in order. *)

\* r has entries of s, those at the positions f, in their order.
Thins(f, r, s) ==
  /\ f \in [DOMAIN r -> DOMAIN s]
  /\ \A i \in DOMAIN r : r[i] = s[f[i]]
  /\ \A i, j \in DOMAIN r : i < j => f[i] < f[j]

Upto(keep, j) == {k \in keep : k <= j}
Ranks(keep) == [j \in keep |-> Cardinality(Upto(keep, j))]

\* The k-th of a set of positions is the one that has k of them up to itself.
LEMMA RanksBijective ==
  ASSUME NEW n \in Nat, NEW keep \in SUBSET (1..n)
  PROVE  /\ Cardinality(keep) \in Nat
         /\ Ranks(keep) \in [keep -> 1..Cardinality(keep)]
         /\ \A i, j \in keep : i < j => Ranks(keep)[i] < Ranks(keep)[j]
         /\ \A k \in 1..Cardinality(keep) : \E j \in keep : Ranks(keep)[j] = k
<1>1. IsFiniteSet(keep) /\ Cardinality(keep) \in Nat
  <2>1. IsFiniteSet(1..n)
    BY FS_Interval
  <2>2. IsFiniteSet(keep)
    BY <2>1, FS_Subset
  <2> QED
    BY <2>2, FS_CardinalityType
<1>2. ASSUME NEW j \in keep
      PROVE  /\ IsFiniteSet(Upto(keep, j))
             /\ Cardinality(Upto(keep, j)) \in 1..Cardinality(keep)
  <2>1. Upto(keep, j) \in SUBSET keep /\ j \in Upto(keep, j)
    BY DEF Upto
  <2>2. IsFiniteSet(Upto(keep, j)) /\ Cardinality(Upto(keep, j)) <= Cardinality(keep)
    BY <1>1, <2>1, FS_Subset
  <2>3. Cardinality(Upto(keep, j)) # 0 /\ Cardinality(Upto(keep, j)) \in Nat
    BY <2>1, <2>2, FS_EmptySet, FS_CardinalityType
  <2> QED
    BY <1>1, <2>2, <2>3
<1>3. Ranks(keep) \in [keep -> 1..Cardinality(keep)]
  BY <1>2 DEF Ranks
<1>4. ASSUME NEW i \in keep, NEW j \in keep, i < j
      PROVE  Ranks(keep)[i] < Ranks(keep)[j]
  <2>1. Upto(keep, i) \in SUBSET Upto(keep, j) /\ j \in Upto(keep, j) /\ j \notin Upto(keep, i)
    <3>1. \A k \in keep : k \in Int
      OBVIOUS
    <3>2. ASSUME NEW k \in keep, k <= i PROVE k <= j
      <4>1. k \in Int /\ i \in Int /\ j \in Int
        BY <3>1
      <4> QED
        BY <1>4, <3>2, <4>1
    <3>3. j <= j /\ ~(j <= i)
      <4>1. i \in Int /\ j \in Int
        BY <3>1
      <4> QED
        BY <1>4, <4>1
    <3> QED
      BY <3>2, <3>3 DEF Upto
  <2>2. IsFiniteSet(Upto(keep, j))
    BY <1>2
  <2>3. /\ Cardinality(Upto(keep, i)) <= Cardinality(Upto(keep, j))
        /\ Cardinality(Upto(keep, i)) # Cardinality(Upto(keep, j))
    BY <2>1, <2>2, FS_Subset
  <2>4. /\ Ranks(keep)[i] = Cardinality(Upto(keep, i)) /\ Ranks(keep)[j] = Cardinality(Upto(keep, j))
        /\ Cardinality(Upto(keep, i)) \in Nat /\ Cardinality(Upto(keep, j)) \in Nat
    BY <1>2 DEF Ranks
  <2> QED
    BY <2>3, <2>4
<1>5. Ranks(keep) \in Injection(keep, 1..Cardinality(keep))
  <2>1. ASSUME NEW i \in keep, NEW j \in keep, Ranks(keep)[i] = Ranks(keep)[j]
        PROVE  i = j
    <3>1. Ranks(keep)[i] \in Nat /\ ~(i < j) /\ ~(j < i)
      BY <1>3, <1>4, <2>1
    <3> QED
      BY <3>1
  <2> QED
    BY <1>3, <2>1 DEF Injection, IsInjective
<1>6. Ranks(keep) \in Surjection(keep, 1..Cardinality(keep))
  <2>1. /\ IsFiniteSet(1..Cardinality(keep))
        /\ Cardinality(1..Cardinality(keep)) = Cardinality(keep)
    BY <1>1, FS_Interval
  <2> QED
    BY <1>5, <2>1, FS_Injection
<1> QED
  BY <1>1, <1>3, <1>4, <1>6 DEF Surjection

\* Pick has the entries at the chosen positions, all of them and no other, in
\* their order.
LEMMA PickFacts ==
  ASSUME NEW S, NEW s \in Seq(S), NEW keep \in SUBSET DOMAIN s
  PROVE  /\ Pick(s, keep) \in Seq(S)
         /\ \E f : /\ Thins(f, Pick(s, keep), s)
                   /\ \A i \in DOMAIN Pick(s, keep) : f[i] \in keep
                   /\ \A k \in keep : \E i \in DOMAIN Pick(s, keep) : f[i] = k
<1> DEFINE C == Cardinality(keep)
           At(i) == Nth(keep, i)
           f == [i \in 1..C |-> At(i)]
<1>1. Len(s) \in Nat /\ keep \in SUBSET (1..Len(s)) /\ s \in [1..Len(s) -> S]
  BY LenProperties
<1>2. /\ C \in Nat
      /\ Ranks(keep) \in [keep -> 1..C]
      /\ \A i, j \in keep : i < j => Ranks(keep)[i] < Ranks(keep)[j]
      /\ \A k \in 1..C : \E j \in keep : Ranks(keep)[j] = k
  BY <1>1, RanksBijective
<1>3. \A i \in 1..C : At(i) \in keep /\ Ranks(keep)[At(i)] = i
  BY <1>2 DEF Nth, Ranks, Upto
<1>5. Pick(s, keep) = [i \in 1..C |-> s[At(i)]]
  BY DEF Pick
<1> HIDE DEF At
<1>6. Pick(s, keep) \in [1..C -> S]
  BY <1>1, <1>3, <1>5
<1>7. Pick(s, keep) \in Seq(S) /\ DOMAIN Pick(s, keep) = 1..C
  BY <1>2, <1>6, SeqDef
<1>8. Thins(f, Pick(s, keep), s)
  <2>1. ASSUME NEW i \in 1..C, NEW j \in 1..C, i < j
        PROVE  At(i) < At(j)
    <3>1. /\ At(i) \in keep /\ At(j) \in keep
          /\ Ranks(keep)[At(i)] = i /\ Ranks(keep)[At(j)] = j
      BY <1>3
    <3>2. At(i) \in Nat /\ At(j) \in Nat
      BY <1>1, <3>1
    <3>3. At(i) # At(j)
      BY <2>1, <3>1
    <3>4. ~(At(j) < At(i))
      BY <1>2, <2>1, <3>1
    <3> QED
      BY <3>2, <3>3, <3>4
  <2>2. f \in [1..C -> DOMAIN s]
    BY <1>3
  <2> QED
    BY <1>5, <1>7, <2>1, <2>2 DEF Thins
<1>9. \A i \in 1..C : f[i] \in keep
  BY <1>3
<1>10. ASSUME NEW k \in keep PROVE \E i \in 1..C : f[i] = k
  <2>1. Ranks(keep)[k] \in 1..C
    BY <1>2
  <2> DEFINE i == Ranks(keep)[k]
  <2>2. At(i) \in keep /\ Ranks(keep)[At(i)] = i
    BY <1>3, <2>1
  <2>3. At(i) = k
    <3>1. ~(At(i) < k) /\ ~(k < At(i)) /\ At(i) \in Nat /\ k \in Nat
      BY <1>1, <1>2, <2>1, <2>2
    <3> QED
      BY <3>1
  <2> QED
    BY <2>1, <2>3
<1> QED
  BY <1>7, <1>8, <1>9, <1>10

\* RemoveAt leaves everything but one entry, in order.
LEMMA RemoveAtFacts ==
  ASSUME NEW S, NEW s \in Seq(S), NEW p \in DOMAIN s
  PROVE  /\ RemoveAt(s, p) \in Seq(S)
         /\ \E f : /\ Thins(f, RemoveAt(s, p), s)
                   /\ \A k \in DOMAIN s : k # p => \E i \in DOMAIN RemoveAt(s, p) : f[i] = k
                   /\ \A i \in DOMAIN RemoveAt(s, p) : f[i] # p
<1> DEFINE left == SubSeq(s, 1, p - 1)
           right == SubSeq(s, p + 1, Len(s))
           r == left \o right
           f == [i \in 1..(Len(s) - 1) |-> IF i < p THEN i ELSE i + 1]
<1>1. Len(s) \in Nat /\ DOMAIN s = 1..Len(s) /\ p \in 1..Len(s)
  BY LenProperties
<1>2. /\ left \in Seq(S) /\ Len(left) = p - 1
      /\ \A i \in 1..(p - 1) : left[i] = s[i]
  <2>1. \A i \in 1..(p - 1) : s[i] \in S
    BY <1>1, ElementOfSeq
  <2> QED
    BY <1>1, <2>1, SubSeqProperties
<1>3. /\ right \in Seq(S) /\ Len(right) = Len(s) - p
      /\ \A i \in 1..(Len(s) - p) : right[i] = s[p + i]
  <2>1. \A i \in (p + 1)..Len(s) : s[i] \in S
    BY <1>1, ElementOfSeq
  <2>2. /\ right \in Seq(S)
        /\ Len(right) = IF p + 1 <= Len(s) THEN Len(s) - (p + 1) + 1 ELSE 0
        /\ \A i \in 1..(Len(s) - (p + 1) + 1) : right[i] = s[(p + 1) + i - 1]
    BY <1>1, <2>1, SubSeqProperties
  <2> QED
    BY <1>1, <2>2
<1> HIDE DEF left, right
<1>4. /\ r \in Seq(S) /\ Len(r) = Len(s) - 1
      /\ \A i \in 1..(Len(s) - 1) : r[i] = IF i <= p - 1 THEN left[i] ELSE right[i - (p - 1)]
  <2>1. /\ r \in Seq(S) /\ Len(r) = Len(left) + Len(right)
        /\ \A i \in 1..(Len(left) + Len(right)) :
             r[i] = IF i <= Len(left) THEN left[i] ELSE right[i - Len(left)]
    BY <1>2, <1>3, ConcatProperties
  <2>2. Len(left) + Len(right) = Len(s) - 1
    BY <1>1, <1>2, <1>3
  <2> QED
    BY <1>2, <2>1, <2>2
<1>5. \A i \in 1..(Len(s) - 1) : r[i] = s[f[i]]
  <2>1. ASSUME NEW i \in 1..(Len(s) - 1) PROVE r[i] = s[f[i]]
    <3>1. CASE i < p
      BY <1>1, <1>2, <1>4, <3>1
    <3>2. CASE i >= p
      <4>1. i - (p - 1) \in 1..(Len(s) - p) /\ p + (i - (p - 1)) = i + 1 /\ f[i] = i + 1
        BY <1>1, <3>2
      <4>2. r[i] = right[i - (p - 1)]
        <5>1. i \in Int /\ p \in Int /\ ~(i <= p - 1)
          BY <1>1, <3>2
        <5> HIDE DEF r
        <5> QED
          BY <1>4, <5>1
      <4>3. right[i - (p - 1)] = s[i + 1]
        BY <1>3, <4>1
      <4> HIDE DEF r, f
      <4> QED
        BY <4>1, <4>2, <4>3
    <3>3. i < p \/ i >= p
      BY <1>1
    <3> QED
      BY <3>1, <3>2, <3>3
  <2> QED
    BY <2>1
<1>6. DOMAIN r = 1..(Len(s) - 1)
  BY <1>4, LenProperties
<1>7. f \in [1..(Len(s) - 1) -> 1..Len(s)]
  BY <1>1
<1>8. \A i, j \in 1..(Len(s) - 1) : i < j => f[i] < f[j]
  BY <1>1
<1>9. \A i \in 1..(Len(s) - 1) : f[i] # p
  BY <1>1
<1>10. ASSUME NEW k \in 1..Len(s), k # p PROVE \E i \in 1..(Len(s) - 1) : f[i] = k
  <2> DEFINE i == IF k < p THEN k ELSE k - 1
  <2>1. i \in 1..(Len(s) - 1) /\ f[i] = k
    BY <1>1, <1>10
  <2> QED
    BY <2>1
<1>11. RemoveAt(s, p) = r
  BY DEF RemoveAt, left, right
<1> HIDE DEF r, f
<1>12. Thins(f, r, s)
  BY <1>1, <1>5, <1>6, <1>7, <1>8 DEF Thins
<1> QED
  BY <1>1, <1>4, <1>6, <1>9, <1>10, <1>11, <1>12

\* r has m, and what q has, and nothing else.
Adds(r, q, m) ==
  /\ \A i \in DOMAIN r : r[i] = m \/ \E j \in DOMAIN q : r[i] = q[j]
  /\ \E i \in DOMAIN r : r[i] = m
  /\ \A j \in DOMAIN q : \E i \in DOMAIN r : r[i] = q[j]

\* Enqueue adds one message and keeps the others.
LEMMA EnqueueFacts ==
  ASSUME NEW S, NEW q \in Seq(S), NEW m \in S
  PROVE  /\ Enqueue(q, m) \in Seq(S)
         /\ Adds(Enqueue(q, m), q, m)
         /\ (\A i \in DOMAIN q : q[i].tick <= m.tick) => Enqueue(q, m) = Append(q, m)
<1> DEFINE olders == {i \in DOMAIN q : q[i].tick <= m.tick}
           p == Cardinality(olders)
           left == SubSeq(q, 1, p)
           right == SubSeq(q, p + 1, Len(q))
           start == left \o <<m>>
           r == start \o right
<1>1. Len(q) \in Nat /\ DOMAIN q = 1..Len(q)
  BY LenProperties
<1>2. IsFiniteSet(DOMAIN q) /\ Cardinality(DOMAIN q) = Len(q)
  <2>1. IsFiniteSet(1..Len(q)) /\ Cardinality(1..Len(q)) = IF 1 > Len(q) THEN 0 ELSE Len(q) - 1 + 1
    BY <1>1, FS_Interval
  <2> QED
    BY <1>1, <2>1
<1>3. olders \in SUBSET DOMAIN q
  OBVIOUS
<1>4. p \in 0..Len(q)
  <2> HIDE DEF olders
  <2>1. IsFiniteSet(olders) /\ Cardinality(olders) <= Cardinality(DOMAIN q)
    BY <1>2, <1>3, FS_Subset
  <2>2. Cardinality(olders) \in Nat
    BY <2>1, FS_CardinalityType
  <2> QED
    BY <1>1, <1>2, <2>1, <2>2
<1> HIDE DEF p
<1>5. left \in Seq(S) /\ Len(left) = p /\ \A i \in 1..p : left[i] = q[i]
  <2>1. \A i \in 1..p : q[i] \in S
    BY <1>1, <1>4, ElementOfSeq
  <2> QED
    BY <1>1, <1>4, <2>1, SubSeqProperties
<1>6. /\ right \in Seq(S) /\ Len(right) = Len(q) - p
      /\ \A i \in 1..(Len(q) - p) : right[i] = q[p + i]
  <2>1. \A i \in (p + 1)..Len(q) : q[i] \in S
    BY <1>1, <1>4, ElementOfSeq
  <2>2. /\ right \in Seq(S)
        /\ Len(right) = IF p + 1 <= Len(q) THEN Len(q) - (p + 1) + 1 ELSE 0
        /\ \A i \in 1..(Len(q) - (p + 1) + 1) : right[i] = q[(p + 1) + i - 1]
    BY <1>1, <1>4, <2>1, SubSeqProperties
  <2> HIDE DEF right
  <2>3. \A i \in 1..(Len(q) - p) :
          i \in 1..(Len(q) - (p + 1) + 1) /\ (p + 1) + i - 1 = p + i
    BY <1>1, <1>4
  <2>4. Len(right) = Len(q) - p
    <3> HIDE DEF r, start, left
    <3>0. Len(q) \in Int /\ p \in Int /\ p <= Len(q)
      BY <1>1, <1>4
    <3>1. CASE p + 1 <= Len(q)
      <4>1. Len(q) - (p + 1) + 1 = Len(q) - p
        BY <3>0
      <4> QED
        BY <2>2, <3>1, <4>1
    <3>2. CASE ~(p + 1 <= Len(q))
      <4>1. Len(q) - p = 0
        BY <3>0, <3>2
      <4> QED
        BY <2>2, <3>2, <4>1
    <3> QED
      BY <3>1, <3>2
  <2> QED
    BY <2>2, <2>3, <2>4
<1>7. <<m>> \in Seq(S) /\ Len(<<m>>) = 1 /\ <<m>>[1] = m
  OBVIOUS
<1> HIDE DEF left, right
<1>8. /\ start \in Seq(S) /\ Len(start) = p + 1
      /\ \A i \in 1..p : start[i] = q[i]
      /\ start[p + 1] = m
  <2>1. /\ start \in Seq(S) /\ Len(start) = Len(left) + Len(<<m>>)
        /\ \A i \in 1..(Len(left) + Len(<<m>>)) :
             start[i] = IF i <= Len(left) THEN left[i] ELSE <<m>>[i - Len(left)]
    BY <1>5, <1>7, ConcatProperties
  <2>2. Len(start) = p + 1
    BY <1>4, <1>5, <1>7, <2>1
  <2>3. \A i \in 1..(p + 1) : start[i] = IF i <= p THEN left[i] ELSE <<m>>[i - p]
    BY <1>4, <1>5, <1>7, <2>1
  <2> HIDE DEF start
  <2>4. \A i \in 1..p : start[i] = q[i]
    BY <1>4, <1>5, <2>3
  <2>5. start[p + 1] = <<m>>[1]
    <3>1. p + 1 \in 1..(p + 1) /\ ~(p + 1 <= p) /\ (p + 1) - p = 1
      BY <1>4
    <3> QED
      BY <2>3, <3>1
  <2> QED
    BY <1>7, <2>1, <2>2, <2>4, <2>5
<1> HIDE DEF start
<1>9. /\ r \in Seq(S) /\ Len(r) = Len(q) + 1
      /\ \A i \in 1..p : r[i] = q[i]
      /\ r[p + 1] = m
      /\ \A i \in (p + 2)..(Len(q) + 1) : r[i] = q[i - 1]
  <2>1. /\ r \in Seq(S) /\ Len(r) = Len(start) + Len(right)
        /\ \A i \in 1..(Len(start) + Len(right)) :
             r[i] = IF i <= Len(start) THEN start[i] ELSE right[i - Len(start)]
    BY <1>6, <1>8, ConcatProperties
  <2> HIDE DEF r
  <2>2. Len(r) = Len(q) + 1
    BY <1>1, <1>4, <1>6, <1>8, <2>1
  <2>3. \A i \in 1..(Len(q) + 1) : r[i] = IF i <= p + 1 THEN start[i] ELSE right[i - (p + 1)]
    BY <1>1, <1>4, <1>6, <1>8, <2>1
  <2>4. ASSUME NEW i \in 1..p PROVE r[i] = q[i]
    <3>1. i \in 1..(Len(q) + 1) /\ i <= p + 1
      BY <1>1, <1>4
    <3> QED
      BY <1>8, <2>3, <3>1
  <2>5. r[p + 1] = m
    <3>1. p + 1 \in 1..(Len(q) + 1) /\ p + 1 <= p + 1
      BY <1>1, <1>4
    <3> QED
      BY <1>8, <2>3, <3>1
  <2>6. ASSUME NEW i \in (p + 2)..(Len(q) + 1) PROVE r[i] = q[i - 1]
    <3>1. /\ i \in 1..(Len(q) + 1) /\ ~(i <= p + 1)
          /\ i - (p + 1) \in 1..(Len(q) - p) /\ p + (i - (p + 1)) = i - 1
      BY <1>1, <1>4
    <3>2. r[i] = right[i - (p + 1)]
      BY <2>3, <3>1
    <3>3. right[i - (p + 1)] = q[p + (i - (p + 1))]
      BY <1>6, <3>1
    <3> QED
      BY <3>1, <3>2, <3>3
  <2> QED
    BY <2>1, <2>2, <2>4, <2>5, <2>6
<1>10. Enqueue(q, m) = r
  <2>1. Enqueue(q, m) = InsertAt(q, p + 1, m)
    BY DEF Enqueue, p
  <2>2. InsertAt(q, p + 1, m) = SubSeq(q, 1, (p + 1) - 1) \o <<m>> \o SubSeq(q, p + 1, Len(q))
    BY DEF InsertAt
  <2>3. (p + 1) - 1 = p
    BY <1>1, <1>4
  <2> QED
    BY <2>1, <2>2, <2>3 DEF r, start, left, right
<1> HIDE DEF r
<1>11. DOMAIN r = 1..(Len(q) + 1)
  BY <1>9, LenProperties
<1>12. ASSUME NEW i \in DOMAIN r PROVE r[i] = m \/ \E j \in DOMAIN q : r[i] = q[j]
  <2>1. CASE i \in 1..p
    BY <1>1, <1>4, <1>9, <2>1
  <2>2. CASE i = p + 1
    BY <1>9, <2>2
  <2>3. CASE i \in (p + 2)..(Len(q) + 1)
    <3>1. i - 1 \in 1..Len(q)
      BY <1>1, <1>4, <2>3
    <3> QED
      BY <1>1, <1>9, <2>3, <3>1
  <2> QED
    BY <1>1, <1>4, <1>11, <2>1, <2>2, <2>3
<1>13. \E i \in DOMAIN r : r[i] = m
  <2>1. p + 1 \in DOMAIN r
    BY <1>1, <1>4, <1>11
  <2> QED
    BY <1>9, <2>1
<1>14. ASSUME NEW j \in DOMAIN q PROVE \E i \in DOMAIN r : r[i] = q[j]
  <2>1. CASE j <= p
    <3>1. j \in 1..p /\ j \in DOMAIN r
      BY <1>1, <1>4, <1>11, <2>1
    <3> QED
      BY <1>9, <3>1
  <2>2. CASE j > p
    <3>1. j + 1 \in (p + 2)..(Len(q) + 1) /\ (j + 1) - 1 = j /\ j + 1 \in DOMAIN r
      BY <1>1, <1>4, <1>11, <2>2
    <3> QED
      BY <1>9, <3>1
  <2> QED
    BY <1>1, <1>4, <2>1, <2>2
<1>15. ASSUME \A i \in DOMAIN q : q[i].tick <= m.tick PROVE r = Append(q, m)
  <2>1. olders = DOMAIN q
    BY <1>15
  <2>2. p = Len(q)
    BY <1>2, <2>1 DEF p
  <2>3. /\ Append(q, m) \in Seq(S) /\ Len(Append(q, m)) = Len(q) + 1
        /\ \A i \in 1..Len(q) : Append(q, m)[i] = q[i]
        /\ Append(q, m)[Len(q) + 1] = m
    BY AppendProperties
  <2>4. ASSUME NEW i \in 1..(Len(q) + 1) PROVE r[i] = Append(q, m)[i]
    <3>1. CASE i \in 1..Len(q)
      BY <1>9, <2>2, <2>3, <3>1
    <3>2. CASE i = Len(q) + 1
      BY <1>9, <2>2, <2>3, <3>2
    <3> QED
      BY <1>1, <3>1, <3>2
  <2> QED
    BY <1>9, <2>3, <2>4, SeqEqual
<1> QED
  BY <1>9, <1>10, <1>12, <1>13, <1>14, <1>15 DEF Adds

-----------------------------------------------------------------------------
(* What happens to the line of messages to a client.                       *)

\* A message leaves the line.
LEMMA LineThinned ==
  ASSUME NEW w, NEW n, NEW t, NEW s, NEW q, NEW d, NEW e, NEW f,
         Line(w, n, t, s, q, d), Thins(f, e, d)
  PROVE  Line(w, n, t, s, q, e)
<1>1. \A i \in DOMAIN e : f[i] \in DOMAIN d /\ e[i] = d[f[i]]
  BY DEF Thins
<1>2. \A i \in DOMAIN e : e[i].id \in 1..n /\ (w[e[i].id].kind # "Dependent" => e[i].tick = 0)
  BY <1>1 DEF Line
<1>3. AscendingPackets(w, e)
  BY <1>1 DEF Line, Thins, AscendingPackets
<1>4. AllBefore(w, s, e) /\ AllPrecede(w, q, e)
  BY <1>1 DEF Line, AllBefore, AllPrecede
<1> QED
  BY <1>2, <1>3, <1>4 DEF Line

\* The line does not change when more messages are written and processed.
LEMMA LineGrows ==
  ASSUME NEW w, NEW v, NEW n \in Nat, NEW k \in Nat, n <= k,
         NEW t, NEW s, NEW q, NEW d, Line(w, n, t, s, q, d),
         \A id \in 1..n : v[id] = w[id]
  PROVE  Line(v, k, t, s, q, d)
<1>1. \A a, b \in 1..n : Chained(v, a, b) <=> Chained(w, a, b)
  BY DEF Chained
<1>2. 1..n \subseteq 1..k
  OBVIOUS
<1>3. /\ \A i \in DOMAIN s : s[i] \in 1..n
      /\ \A i \in DOMAIN q : q[i].id \in 1..n
      /\ \A i \in DOMAIN d : d[i].id \in 1..n
  BY DEF Line
<1>4. /\ \A i \in DOMAIN s : s[i] \in 1..k
      /\ \A i \in DOMAIN q : q[i].id \in 1..k /\ q[i].tick > t /\ v[q[i].id].kind = "Dependent"
      /\ \A i \in DOMAIN d : d[i].id \in 1..k /\ (v[d[i].id].kind # "Dependent" => d[i].tick = 0)
  BY <1>2, <1>3 DEF Line
<1>5. Ascending(v, s)
  BY <1>1, <1>3 DEF Line, Ascending
<1>6. AscendingPackets(v, q) /\ AscendingPackets(v, d)
  BY <1>1, <1>3 DEF Line, AscendingPackets, Precedes
<1>7. AllBefore(v, s, q) /\ AllBefore(v, s, d)
  BY <1>1, <1>3 DEF Line, AllBefore
<1>8. AllPrecede(v, q, d)
  BY <1>1, <1>3 DEF Line, AllPrecede, Precedes
<1> QED
  BY <1>4, <1>5, <1>6, <1>7, <1>8 DEF Line

\* Messages are sent: they follow what is on the line.
LEMMA LineSent ==
  ASSUME NEW w, NEW n, NEW t, NEW s, NEW q, NEW d \in Seq(PacketType), NEW e \in Seq(PacketType),
         Line(w, n, t, s, q, d),
         \A i \in DOMAIN e : e[i].id \in 1..n /\ (w[e[i].id].kind # "Dependent" => e[i].tick = 0),
         AscendingPackets(w, e), AllBefore(w, s, e), AllPrecede(w, q, e), AllPrecede(w, d, e)
  PROVE  Line(w, n, t, s, q, d \o e)
<1> DEFINE r == d \o e
<1>1. /\ r \in Seq(PacketType) /\ Len(r) = Len(d) + Len(e)
      /\ \A i \in 1..(Len(d) + Len(e)) : r[i] = IF i <= Len(d) THEN d[i] ELSE e[i - Len(d)]
  BY ConcatProperties
<1>2. /\ Len(d) \in Nat /\ Len(e) \in Nat
      /\ DOMAIN d = 1..Len(d) /\ DOMAIN e = 1..Len(e)
  BY LenProperties
<1>3. DOMAIN r = 1..(Len(d) + Len(e))
  BY <1>1, LenProperties
<1> HIDE DEF r
<1>4. ASSUME NEW i \in DOMAIN r
      PROVE  \/ i \in DOMAIN d /\ r[i] = d[i]
             \/ i > Len(d) /\ i - Len(d) \in DOMAIN e /\ r[i] = e[i - Len(d)]
  <2>1. CASE i <= Len(d)
    <3>1. i \in 1..Len(d)
      BY <1>2, <1>3, <2>1
    <3> QED
      BY <1>1, <1>2, <1>3, <2>1, <3>1
  <2>2. CASE ~(i <= Len(d))
    <3>1. i > Len(d) /\ i - Len(d) \in 1..Len(e)
      BY <1>2, <1>3, <2>2
    <3> QED
      BY <1>1, <1>2, <1>3, <2>2, <3>1
  <2> QED
    BY <2>1, <2>2
<1>5. \A i \in DOMAIN r : r[i].id \in 1..n /\ (w[r[i].id].kind # "Dependent" => r[i].tick = 0)
  BY <1>4 DEF Line
<1>6. AllBefore(w, s, r) /\ AllPrecede(w, q, r)
  BY <1>4 DEF Line, AllBefore, AllPrecede
<1>7. ASSUME NEW i \in DOMAIN r, NEW j \in DOMAIN r, i < j
      PROVE  Precedes(w, r[i], r[j])
  <2>1. i \in Int /\ j \in Int /\ Len(d) \in Int
    BY <1>2, <1>3
  <2>2. CASE j \in DOMAIN d /\ r[j] = d[j]
    <3>1. i \in DOMAIN d /\ r[i] = d[i]
      <4>1. ~(i > Len(d))
        BY <1>2, <1>7, <2>1, <2>2
      <4> QED
        BY <1>4, <4>1
    <3> QED
      BY <1>7, <2>2, <3>1 DEF Line, AscendingPackets
  <2>3. CASE j > Len(d) /\ j - Len(d) \in DOMAIN e /\ r[j] = e[j - Len(d)]
    <3>1. CASE i \in DOMAIN d /\ r[i] = d[i]
      BY <2>3, <3>1 DEF AllPrecede
    <3>2. CASE i > Len(d) /\ i - Len(d) \in DOMAIN e /\ r[i] = e[i - Len(d)]
      <4>1. i - Len(d) < j - Len(d)
        BY <1>7, <2>1
      <4> QED
        BY <2>3, <3>2, <4>1 DEF AscendingPackets
    <3> QED
      BY <1>4, <3>1, <3>2
  <2> QED
    BY <1>4, <2>2, <2>3
<1>8. AscendingPackets(w, r)
  BY <1>7 DEF AscendingPackets
<1> QED
  BY <1>5, <1>6, <1>8 DEF Line, r

\* A message may leave the network: its channel has nothing older of its kind.
FirstOnChannel(w, d, p) ==
  ChannelOf[w[d[p].id].kind] = "Ordered" =>
    \A j \in 1..(p - 1) : w[d[j].id].kind # w[d[p].id].kind

\* The message that leaves the network precedes what stays on it.
LEMMA FirstPrecedes ==
  ASSUME NEW w, NEW d \in Seq(PacketType), NEW p \in DOMAIN d, FirstOnChannel(w, d, p),
         AscendingPackets(w, d), NEW e, NEW f, Thins(f, e, d),
         \A i \in DOMAIN e : f[i] # p
  PROVE  \A i \in DOMAIN e : Precedes(w, d[p], e[i])
<1>1. ASSUME NEW i \in DOMAIN e PROVE Precedes(w, d[p], e[i])
  <2>1. f[i] \in DOMAIN d /\ e[i] = d[f[i]] /\ f[i] # p
    BY DEF Thins
  <2>2. DOMAIN d = 1..Len(d) /\ Len(d) \in Nat
    BY LenProperties
  <2>3. CASE f[i] < p
    <3>1. f[i] \in 1..(p - 1)
      BY <2>1, <2>2, <2>3
    <3>2. ~Chained(w, d[p].id, e[i].id)
      BY <2>1, <3>1 DEF Chained, FirstOnChannel
    <3> QED
      BY <3>2 DEF Precedes
  <2>4. CASE p < f[i]
    BY <2>1, <2>4 DEF AscendingPackets
  <2>5. f[i] < p \/ p < f[i]
    BY <2>1, <2>2
  <2> QED
    BY <2>3, <2>4, <2>5
<1> QED
  BY <1>1

\* A message is shown when it arrives.
LEMMA LineShown ==
  ASSUME NEW w, NEW n \in Nat, NEW t \in Nat, NEW s \in Seq(Nat), NEW q \in Seq(PacketType),
         NEW d \in Seq(PacketType), NEW p \in DOMAIN d,
         Line(w, n, t, s, q, d), FirstOnChannel(w, d, p), d[p].tick <= t,
         NEW e, NEW f, Thins(f, e, d), \A i \in DOMAIN e : f[i] # p
  PROVE  Line(w, n, t, Append(s, d[p].id), q, e)
<1> DEFINE m == d[p]
           r == Append(s, m.id)
<1>1. /\ m \in PacketType /\ m.id \in 1..n /\ m.id \in Nat /\ m.tick \in Nat
      /\ w[m.id].kind # "Dependent" => m.tick = 0
  <2>1. m \in PacketType
    BY LenProperties, ElementOfSeq
  <2>2. m.id \in 1..n /\ (w[m.id].kind # "Dependent" => m.tick = 0)
    BY DEF Line
  <2>3. m.tick \in Nat /\ m.id \in Nat
    BY <2>1 DEF PacketType, Ticks
  <2> QED
    BY <2>1, <2>2, <2>3
<1>2. \A i \in DOMAIN e : Precedes(w, m, e[i])
  BY FirstPrecedes DEF Line
<1>3. Line(w, n, t, s, q, e)
  BY LineThinned
<1>4. /\ r \in Seq(Nat) /\ DOMAIN r = 1..(Len(s) + 1) /\ Len(s) \in Nat /\ DOMAIN s = 1..Len(s)
      /\ \A i \in 1..Len(s) : r[i] = s[i]
      /\ r[Len(s) + 1] = m.id
  <2>1. /\ r \in Seq(Nat) /\ Len(r) = Len(s) + 1
        /\ \A i \in 1..Len(s) : r[i] = s[i]
        /\ r[Len(s) + 1] = m.id
    BY <1>1, AppendProperties
  <2> QED
    BY <2>1, LenProperties
<1> HIDE DEF r, m
<1>5. \A i \in DOMAIN r : (i \in DOMAIN s /\ r[i] = s[i]) \/ (i = Len(s) + 1 /\ r[i] = m.id)
  BY <1>4
<1>6. \A i \in DOMAIN s : Chained(w, s[i], m.id) => s[i] < m.id
  BY DEF Line, AllBefore, m
<1>7. ASSUME NEW i \in DOMAIN q PROVE ~Chained(w, m.id, q[i].id)
  <2>1. q[i].tick > t /\ q[i] \in PacketType
    BY LenProperties, ElementOfSeq DEF Line
  <2>2. Chained(w, q[i].id, m.id) => q[i].tick <= m.tick
    BY DEF Line, AllPrecede, Precedes, m
  <2>3. q[i].tick \in Nat /\ ~(q[i].tick <= m.tick)
    BY <1>1, <2>1 DEF PacketType, Ticks, m
  <2>4. Chained(w, m.id, q[i].id) => Chained(w, q[i].id, m.id)
    BY DEF Chained
  <2> QED
    BY <2>2, <2>3, <2>4
<1>8. \A i \in DOMAIN r : r[i] \in 1..n
  BY <1>1, <1>5 DEF Line
<1>9. Ascending(w, r)
  <2>1. ASSUME NEW i \in DOMAIN r, NEW j \in DOMAIN r, i < j, Chained(w, r[i], r[j])
        PROVE  r[i] < r[j]
    <3>1. i \in DOMAIN s /\ r[i] = s[i]
      <4>1. i \in 1..(Len(s) + 1) /\ j \in 1..(Len(s) + 1) /\ Len(s) \in Nat
        BY <1>4
      <4>2. i \in 1..Len(s)
        BY <2>1, <4>1
      <4> QED
        BY <1>4, <4>2
    <3>2. CASE j \in DOMAIN s /\ r[j] = s[j]
      BY <1>3, <2>1, <3>1, <3>2 DEF Line, Ascending
    <3>3. CASE j = Len(s) + 1 /\ r[j] = m.id
      BY <1>6, <2>1, <3>1, <3>3
    <3> QED
      BY <1>5, <3>2, <3>3
  <2> QED
    BY <2>1 DEF Ascending
<1>10. AllBefore(w, r, q)
  BY <1>3, <1>5, <1>7 DEF Line, AllBefore
<1>11. AllBefore(w, r, e)
  BY <1>2, <1>3, <1>5 DEF Line, AllBefore, Precedes
<1>12. Line(w, n, t, r, q, e)
  BY <1>3, <1>8, <1>9, <1>10, <1>11 DEF Line
<1> QED
  BY <1>12 DEF r, m

\* A message waits for its update: it goes to the end of the queue if its
\* channel is ordered.
LEMMA LineQueued ==
  ASSUME NEW w, NEW n \in Nat, NEW t \in Nat, NEW s \in Seq(Nat), NEW q \in Seq(PacketType),
         NEW d \in Seq(PacketType), NEW p \in DOMAIN d,
         Line(w, n, t, s, q, d), FirstOnChannel(w, d, p), d[p].tick > t,
         NEW e, NEW f, Thins(f, e, d), \A i \in DOMAIN e : f[i] # p
  PROVE  Line(w, n, t, s, Enqueue(q, d[p]), e)
<1> DEFINE m == d[p]
           r == Enqueue(q, m)
<1>1. /\ m \in PacketType /\ m.id \in 1..n /\ m.tick \in Nat
      /\ w[m.id].kind = "Dependent"
  <2>1. m \in PacketType
    BY LenProperties, ElementOfSeq
  <2>2. m.id \in 1..n /\ (w[m.id].kind # "Dependent" => m.tick = 0)
    BY DEF Line
  <2>3. m.tick \in Nat
    BY <2>1 DEF PacketType, Ticks
  <2>4. m.tick # 0
    BY <2>3
  <2> QED
    BY <2>1, <2>2, <2>3, <2>4
<1>2. \A i \in DOMAIN e : Precedes(w, m, e[i])
  BY FirstPrecedes DEF Line
<1>3. Line(w, n, t, s, q, e)
  BY LineThinned
<1>4. /\ r \in Seq(PacketType)
      /\ \A i \in DOMAIN r : r[i] = m \/ \E j \in DOMAIN q : r[i] = q[j]
      /\ (\A i \in DOMAIN q : q[i].tick <= m.tick) => r = Append(q, m)
  <2>1. m \in PacketType
    BY <1>1
  <2> HIDE DEF m
  <2>2. /\ r \in Seq(PacketType) /\ Adds(r, q, m)
        /\ (\A i \in DOMAIN q : q[i].tick <= m.tick) => r = Append(q, m)
    BY <2>1, EnqueueFacts
  <2> QED
    BY <2>2 DEF Adds
<1>5. \A i \in DOMAIN q : Precedes(w, q[i], m)
  BY DEF Line, AllPrecede
<1>6. \A i \in DOMAIN s : Chained(w, s[i], m.id) => s[i] < m.id
  BY DEF Line, AllBefore
<1>7. m.tick > t
  OBVIOUS
<1> HIDE DEF r, m
<1>8. \A i \in DOMAIN r : r[i].id \in 1..n /\ r[i].tick > t /\ w[r[i].id].kind = "Dependent"
  BY <1>1, <1>3, <1>4, <1>7 DEF Line
<1>9. AllBefore(w, s, r) /\ AllPrecede(w, r, e)
  BY <1>2, <1>3, <1>4, <1>6 DEF Line, AllBefore, AllPrecede
<1>10. AscendingPackets(w, r)
  <2>1. CASE ChannelOf["Dependent"] # "Ordered"
    <3>1. \A i, j \in DOMAIN r : ~Chained(w, r[i].id, r[j].id)
      BY <1>8, <2>1 DEF Chained
    <3> QED
      BY <3>1 DEF AscendingPackets, Precedes
  <2>2. CASE ChannelOf["Dependent"] = "Ordered"
    <3>1. \A i \in DOMAIN q : Chained(w, q[i].id, m.id)
      BY <1>1, <2>2 DEF Line, Chained
    <3>2. r = Append(q, m)
      BY <1>4, <1>5, <3>1 DEF Precedes
    <3>3. /\ r \in Seq(PacketType) /\ Len(r) = Len(q) + 1
          /\ \A i \in 1..Len(q) : r[i] = q[i]
          /\ r[Len(q) + 1] = m
      BY <1>1, <3>2, AppendProperties
    <3>4. Len(q) \in Nat /\ DOMAIN q = 1..Len(q) /\ DOMAIN r = 1..(Len(q) + 1)
      BY <3>3, LenProperties
    <3>5. \A i \in DOMAIN r : (i \in DOMAIN q /\ r[i] = q[i]) \/ (i = Len(q) + 1 /\ r[i] = m)
      BY <3>3, <3>4
    <3>6. ASSUME NEW i \in DOMAIN r, NEW j \in DOMAIN r, i < j PROVE Precedes(w, r[i], r[j])
      <4>1. i \in DOMAIN q /\ r[i] = q[i]
        BY <3>4, <3>5, <3>6
      <4>2. CASE j \in DOMAIN q /\ r[j] = q[j]
        BY <1>3, <3>6, <4>1, <4>2 DEF Line, AscendingPackets
      <4>3. CASE j = Len(q) + 1 /\ r[j] = m
        BY <1>5, <4>1, <4>3
      <4> QED
        BY <3>5, <4>2, <4>3
    <3> QED
      BY <3>6 DEF AscendingPackets
  <2> QED
    BY <2>1, <2>2
<1>11. Line(w, n, t, s, r, e)
  BY <1>3, <1>8, <1>9, <1>10 DEF Line
<1> QED
  BY <1>11 DEF r, m

\* r has ids of messages of the queue that are not newer than t, in their order.
Reads(f, r, q, t) ==
  /\ f \in [DOMAIN r -> DOMAIN q]
  /\ \A i \in DOMAIN r : r[i] = q[f[i]].id /\ q[f[i]].tick <= t
  /\ \A i, j \in DOMAIN r : i < j => f[i] < f[j]
ReadsAll(r, q, t) == \A k \in DOMAIN q : q[k].tick <= t => \E i \in DOMAIN r : r[i] = q[k].id

\* The ids that leave the queue.
LEMMA ReadyFacts ==
  ASSUME NEW q \in Seq(PacketType), NEW t
  PROVE  /\ Ids(Ready(q, t)) \in Seq(Nat)
         /\ ReadsAll(Ids(Ready(q, t)), q, t)
         /\ \E f : Reads(f, Ids(Ready(q, t)), q, t)
<1> DEFINE keep == {i \in DOMAIN q : q[i].tick <= t}
           p == Pick(q, keep)
<1>1. keep \in SUBSET DOMAIN q
  OBVIOUS
<1> HIDE DEF keep
<1>2. p \in Seq(PacketType)
  BY <1>1, PickFacts
<1>3. PICK f : /\ Thins(f, p, q)
               /\ \A i \in DOMAIN p : f[i] \in keep
               /\ \A k \in keep : \E i \in DOMAIN p : f[i] = k
  BY <1>1, PickFacts
<1>4. Ids(Ready(q, t)) = [i \in DOMAIN p |-> p[i].id]
  BY DEF Ids, Ready, keep
<1> HIDE DEF p
<1> DEFINE r == [i \in DOMAIN p |-> p[i].id]
<1>5. r \in Seq(Nat)
  <2>1. /\ Len(p) \in Nat /\ DOMAIN p = 1..Len(p)
        /\ \A i \in DOMAIN p : p[i] \in PacketType
    BY <1>2, LenProperties, ElementOfSeq
  <2>2. \A i \in DOMAIN p : p[i].id \in Nat
    BY <2>1 DEF PacketType
  <2>3. r \in [1..Len(p) -> Nat]
    BY <2>1, <2>2
  <2> QED
    BY <2>1, <2>3, SeqDef
<1>6. Reads(f, r, q, t)
  BY <1>3 DEF Reads, Thins, keep
<1>7. ReadsAll(r, q, t)
  <2>1. ASSUME NEW k \in DOMAIN q, q[k].tick <= t PROVE \E i \in DOMAIN r : r[i] = q[k].id
    <3>1. k \in keep
      BY <2>1 DEF keep
    <3>2. PICK i \in DOMAIN p : f[i] = k
      BY <1>3, <3>1
    <3>3. p[i] = q[k]
      BY <1>3, <3>2 DEF Thins
    <3> QED
      BY <3>2, <3>3
  <2> QED
    BY <2>1 DEF ReadsAll
<1> QED
  BY <1>4, <1>5, <1>6, <1>7

\* A selection of them is still in their order.
LEMMA ReadsPicked ==
  ASSUME NEW q \in Seq(PacketType), NEW t, NEW ids \in Seq(Nat), NEW f, Reads(f, ids, q, t),
         NEW keep \in SUBSET DOMAIN ids
  PROVE  Pick(ids, keep) \in Seq(Nat) /\ \E g : Reads(g, Pick(ids, keep), q, t)
<1> DEFINE r == Pick(ids, keep)
<1>1. r \in Seq(Nat)
  BY PickFacts
<1>2. PICK h : Thins(h, r, ids)
  BY PickFacts
<1> HIDE DEF r
<1> DEFINE g == [i \in DOMAIN r |-> f[h[i]]]
<1>3. \A i \in DOMAIN r : h[i] \in DOMAIN ids /\ r[i] = ids[h[i]]
  BY <1>2 DEF Thins
<1>4. g \in [DOMAIN r -> DOMAIN q]
  BY <1>3 DEF Reads
<1>5. \A i \in DOMAIN r : r[i] = q[g[i]].id /\ q[g[i]].tick <= t
  BY <1>3 DEF Reads
<1>6. \A i, j \in DOMAIN r : i < j => g[i] < g[j]
  BY <1>2, <1>3 DEF Reads, Thins
<1> HIDE DEF g
<1>7. Reads(g, r, q, t)
  BY <1>4, <1>5, <1>6 DEF Reads
<1> QED
  BY <1>1, <1>7 DEF r

\* What is newer stays in the queue, in its order.
LEMMA RemainingFacts ==
  ASSUME NEW q \in Seq(PacketType), NEW t
  PROVE  /\ Remaining(q, t) \in Seq(PacketType)
         /\ \A k \in DOMAIN q : q[k].tick > t => \E i \in DOMAIN Remaining(q, t) : Remaining(q, t)[i] = q[k]
         /\ \A i \in DOMAIN Remaining(q, t) : Remaining(q, t)[i].tick > t
         /\ \E f : Thins(f, Remaining(q, t), q)
<1> DEFINE keep == {i \in DOMAIN q : q[i].tick > t}
           p == Pick(q, keep)
<1>1. keep \in SUBSET DOMAIN q
  OBVIOUS
<1> HIDE DEF keep
<1>2. p \in Seq(PacketType)
  BY <1>1, PickFacts
<1>3. PICK f : /\ Thins(f, p, q)
               /\ \A i \in DOMAIN p : f[i] \in keep
               /\ \A k \in keep : \E i \in DOMAIN p : f[i] = k
  BY <1>1, PickFacts
<1>4. Remaining(q, t) = p
  BY DEF Remaining, keep
<1> HIDE DEF p
<1>5. \A i \in DOMAIN p : p[i].tick > t
  BY <1>3 DEF Thins, keep
<1>6. \A k \in DOMAIN q : q[k].tick > t => \E i \in DOMAIN p : p[i] = q[k]
  BY <1>3 DEF Thins, keep
<1> QED
  BY <1>2, <1>3, <1>4, <1>5, <1>6

\* An update is applied: what it was needed for is shown, what is newer stays.
LEMMA LineReady ==
  ASSUME NEW w, NEW n \in Nat, NEW t, NEW u \in Nat, NEW s \in Seq(Nat), NEW q \in Seq(PacketType),
         NEW d, Line(w, n, t, s, q, d),
         NEW r \in Seq(Nat), NEW g, Reads(g, r, q, u),
         NEW rest \in Seq(PacketType), NEW f, Thins(f, rest, q),
         \A i \in DOMAIN rest : rest[i].tick > u
  PROVE  Line(w, n, u, s \o r, rest, d)
<1> DEFINE v == s \o r
<1>1. /\ DOMAIN s = 1..Len(s) /\ Len(s) \in Nat
      /\ DOMAIN r = 1..Len(r) /\ Len(r) \in Nat
      /\ DOMAIN q = 1..Len(q) /\ Len(q) \in Nat
  BY LenProperties
<1>2. /\ v \in Seq(Nat) /\ Len(v) = Len(s) + Len(r)
      /\ \A i \in 1..(Len(s) + Len(r)) : v[i] = IF i <= Len(s) THEN s[i] ELSE r[i - Len(s)]
  BY ConcatProperties
<1>3. DOMAIN v = 1..(Len(s) + Len(r))
  BY <1>2, LenProperties
<1> HIDE DEF v
<1>4. ASSUME NEW i \in DOMAIN v
      PROVE  \/ i \in DOMAIN s /\ v[i] = s[i]
             \/ i > Len(s) /\ i - Len(s) \in DOMAIN r /\ v[i] = r[i - Len(s)]
  <2>1. CASE i <= Len(s)
    BY <1>1, <1>2, <1>3, <2>1
  <2>2. CASE ~(i <= Len(s))
    <3>1. i > Len(s) /\ i - Len(s) \in 1..Len(r)
      BY <1>1, <1>3, <2>2
    <3> QED
      BY <1>1, <1>2, <1>3, <2>2, <3>1
  <2> QED
    BY <2>1, <2>2
<1>5. \A i \in DOMAIN r : g[i] \in DOMAIN q /\ r[i] = q[g[i]].id /\ q[g[i]].tick <= u
  BY DEF Reads
<1>6. \A i \in DOMAIN rest : f[i] \in DOMAIN q /\ rest[i] = q[f[i]] /\ rest[i].tick > u
  BY DEF Thins
<1>7. \A i \in DOMAIN q : q[i].tick \in Nat
  <2>1. \A i \in DOMAIN q : q[i] \in PacketType
    BY <1>1, ElementOfSeq
  <2> QED
    BY <2>1 DEF PacketType, Ticks
<1>8. \A i \in DOMAIN v : v[i] \in 1..n
  <2>1. /\ \A i \in DOMAIN s : s[i] \in 1..n
        /\ \A i \in DOMAIN q : q[i].id \in 1..n
    BY DEF Line
  <2>2. \A i \in DOMAIN r : r[i] \in 1..n
    BY <1>5, <2>1
  <2> QED
    BY <1>4, <2>1, <2>2
<1>9. \A i \in DOMAIN rest : rest[i].id \in 1..n /\ rest[i].tick > u /\ w[rest[i].id].kind = "Dependent"
  <2>1. \A i \in DOMAIN q : q[i].id \in 1..n /\ w[q[i].id].kind = "Dependent"
    BY DEF Line
  <2> SUFFICES ASSUME NEW i \in DOMAIN rest
               PROVE  rest[i].id \in 1..n /\ rest[i].tick > u /\ w[rest[i].id].kind = "Dependent"
    OBVIOUS
  <2>2. f[i] \in DOMAIN q /\ rest[i] = q[f[i]] /\ rest[i].tick > u
    BY <1>6
  <2> QED
    BY <2>1, <2>2
<1>10. Ascending(w, v)
  <2>1. ASSUME NEW i \in DOMAIN v, NEW j \in DOMAIN v, i < j, Chained(w, v[i], v[j])
        PROVE  v[i] < v[j]
    <3>1. CASE j \in DOMAIN s /\ v[j] = s[j]
      <4>1. i \in DOMAIN s /\ v[i] = s[i]
        BY <1>1, <1>3, <1>4, <2>1, <3>1
      <4> QED
        BY <2>1, <3>1, <4>1 DEF Line, Ascending
    <3>2. CASE j > Len(s) /\ j - Len(s) \in DOMAIN r /\ v[j] = r[j - Len(s)]
      <4>1. CASE i \in DOMAIN s /\ v[i] = s[i]
        BY <1>5, <2>1, <3>2, <4>1 DEF Line, AllBefore
      <4>2. CASE i > Len(s) /\ i - Len(s) \in DOMAIN r /\ v[i] = r[i - Len(s)]
        <5>1. i - Len(s) < j - Len(s)
          BY <1>1, <1>3, <2>1
        <5>2. g[i - Len(s)] < g[j - Len(s)]
          BY <3>2, <4>2, <5>1 DEF Reads
        <5> QED
          BY <1>5, <2>1, <3>2, <4>2, <5>2 DEF Line, AscendingPackets, Precedes
      <4> QED
        BY <1>4, <4>1, <4>2
    <3> QED
      BY <1>4, <3>1, <3>2
  <2> QED
    BY <2>1 DEF Ascending
<1>11. AscendingPackets(w, rest)
  BY <1>6 DEF Line, Thins, AscendingPackets
<1>12. AllBefore(w, v, rest)
  <2>1. ASSUME NEW i \in DOMAIN v, NEW j \in DOMAIN rest, Chained(w, v[i], rest[j].id)
        PROVE  v[i] < rest[j].id
    <3>1. CASE i \in DOMAIN s /\ v[i] = s[i]
      BY <1>6, <2>1, <3>1 DEF Line, AllBefore
    <3>2. CASE i - Len(s) \in DOMAIN r /\ v[i] = r[i - Len(s)]
      <4> DEFINE a == g[i - Len(s)]
                 b == f[j]
      <4>1. /\ a \in DOMAIN q /\ v[i] = q[a].id /\ q[a].tick <= u
            /\ b \in DOMAIN q /\ rest[j] = q[b] /\ q[b].tick > u
        BY <1>5, <1>6, <3>2
      <4> HIDE DEF a, b
      <4>2. ~(q[b].tick <= q[a].tick)
        BY <1>7, <4>1
      <4>3. Chained(w, q[b].id, q[a].id)
        BY <2>1, <4>1 DEF Chained
      <4>4. ~(b < a)
        BY <4>1, <4>2, <4>3 DEF Line, AscendingPackets, Precedes
      <4>5. a # b
        BY <1>7, <4>1, <4>2
      <4>6. a < b
        BY <1>1, <4>1, <4>4, <4>5
      <4> QED
        BY <2>1, <4>1, <4>6 DEF Line, AscendingPackets, Precedes
    <3> QED
      BY <1>4, <3>1, <3>2
  <2> QED
    BY <2>1 DEF AllBefore
<1>13. AllBefore(w, v, d)
  <2>1. ASSUME NEW i \in DOMAIN v, NEW j \in DOMAIN d, Chained(w, v[i], d[j].id)
        PROVE  v[i] < d[j].id
    <3>1. CASE i \in DOMAIN s /\ v[i] = s[i]
      BY <2>1, <3>1 DEF Line, AllBefore
    <3>2. CASE i - Len(s) \in DOMAIN r /\ v[i] = r[i - Len(s)]
      <4> DEFINE a == g[i - Len(s)]
      <4>1. a \in DOMAIN q /\ v[i] = q[a].id
        BY <1>5, <3>2
      <4> HIDE DEF a
      <4> QED
        BY <2>1, <4>1 DEF Line, AllPrecede, Precedes
    <3> QED
      BY <1>4, <3>1, <3>2
  <2> QED
    BY <2>1 DEF AllBefore
<1>14. AllPrecede(w, rest, d)
  BY <1>6 DEF Line, AllPrecede
<1>15. Line(w, n, u, v, rest, d)
  BY <1>8, <1>9, <1>10, <1>11, <1>12, <1>13, <1>14 DEF Line
<1> QED
  BY <1>15 DEF v

-----------------------------------------------------------------------------
(* What a frame of the server sends, buffers and shows.                    *)

\* Ids increase along a sequence of messages.
Increasing(ms) == \A i, j \in DOMAIN ms : i < j => ms[i].id < ms[j].id

\* Every message that goes out at once, and nothing else, in order.
LEMMA SentAtOnceFacts ==
  ASSUME TypeInv, ServerOrder, NEW cl \in Clients
  PROVE  /\ SentAtOnce(cl) \in Seq(PacketType)
         /\ Increasing(SentAtOnce(cl))
         /\ \A i \in DOMAIN SentAtOnce(cl) :
              /\ SentAtOnce(cl)[i].id \in (Processed + 1)..Len(written)
              /\ SentAtOnce(cl)[i].tick = 0
              /\ written[SentAtOnce(cl)[i].id].kind # "Dependent"
              /\ IdOf(cl) \in Addressed(SentAtOnce(cl)[i].id)
         /\ \A k \in DOMAIN toClients :
              written[toClients[k]].kind # "Dependent" /\ IdOf(cl) \in Addressed(toClients[k]) =>
                \E i \in DOMAIN SentAtOnce(cl) : SentAtOnce(cl)[i].id = toClients[k]
<1> DEFINE goes(id) == written[id].kind # "Dependent" /\ IdOf(cl) \in Addressed(id)
           keep == {i \in DOMAIN toClients : goes(toClients[i])}
           ids == Pick(toClients, keep)
           r == [i \in DOMAIN ids |-> [id |-> ids[i], tick |-> 0]]
<1>1. keep \in SUBSET DOMAIN toClients
  OBVIOUS
<1>2. /\ Len(toClients) \in Nat /\ DOMAIN toClients = 1..Len(toClients) /\ toClients \in Seq(Nat)
      /\ Len(written) \in Nat /\ Len(toClients) <= Len(written)
      /\ \A i \in DOMAIN toClients : toClients[i] = Processed + i
  BY LenProperties DEF TypeInv, ServerOrder
<1>3. Processed \in Nat /\ Processed + Len(toClients) = Len(written)
  BY <1>2 DEF Processed
<1>4. SentAtOnce(cl) = r
  BY DEF SentAtOnce
<1> HIDE DEF keep
<1>5. ids \in Seq(Nat)
  BY <1>1, <1>2, PickFacts
<1>6. PICK f : /\ Thins(f, ids, toClients)
               /\ \A i \in DOMAIN ids : f[i] \in keep
               /\ \A k \in keep : \E i \in DOMAIN ids : f[i] = k
  BY <1>1, <1>2, PickFacts
<1> HIDE DEF ids
<1>7. \A i \in DOMAIN ids : f[i] \in DOMAIN toClients /\ ids[i] = toClients[f[i]]
  BY <1>6 DEF Thins
<1>8. r \in Seq(PacketType)
  <2>1. Len(ids) \in Nat /\ DOMAIN ids = 1..Len(ids) /\ \A i \in DOMAIN ids : ids[i] \in Nat
    BY <1>5, LenProperties, ElementOfSeq
  <2>2. 0 \in Ticks
    BY MessagesAssumption DEF Ticks
  <2>3. r \in [1..Len(ids) -> PacketType]
    BY <2>1, <2>2 DEF PacketType
  <2> QED
    BY <2>1, <2>3, SeqDef
<1>9. \A i \in DOMAIN r : r[i].id = ids[i] /\ r[i].tick = 0 /\ i \in DOMAIN ids
  OBVIOUS
<1>10. \A i \in DOMAIN ids : ids[i] \in (Processed + 1)..Len(written) /\ goes(ids[i])
  <2>1. ASSUME NEW i \in DOMAIN ids PROVE ids[i] \in (Processed + 1)..Len(written)
    <3>1. f[i] \in 1..Len(toClients) /\ ids[i] = Processed + f[i]
      BY <1>2, <1>7
    <3> QED
      BY <1>2, <1>3, <3>1
  <2> QED
    BY <1>6, <1>7, <2>1 DEF keep
<1>11. \A i, j \in DOMAIN ids : i < j => ids[i] < ids[j]
  <2>1. ASSUME NEW i \in DOMAIN ids, NEW j \in DOMAIN ids, i < j PROVE ids[i] < ids[j]
    <3>1. /\ f[i] \in 1..Len(toClients) /\ ids[i] = Processed + f[i]
          /\ f[j] \in 1..Len(toClients) /\ ids[j] = Processed + f[j]
          /\ f[i] < f[j]
      BY <1>2, <1>6, <1>7, <2>1 DEF Thins
    <3> QED
      BY <1>2, <1>3, <3>1
  <2> QED
    BY <2>1
<1>12. ASSUME NEW k \in DOMAIN toClients, goes(toClients[k])
       PROVE  \E i \in DOMAIN r : r[i].id = toClients[k]
  <2>1. k \in keep
    BY <1>12 DEF keep
  <2>2. PICK i \in DOMAIN ids : f[i] = k
    BY <1>6, <2>1
  <2>3. i \in DOMAIN r /\ r[i].id = toClients[k]
    BY <1>7, <1>9, <2>2
  <2> QED
    BY <2>3
<1> HIDE DEF r
<1>13. Increasing(r)
  BY <1>9, <1>11 DEF Increasing
<1> QED
  BY <1>4, <1>8, <1>9, <1>10, <1>12, <1>13

\* The buffer with the dependent messages of this frame after those it had.
LEMMA BufferedFacts ==
  ASSUME TypeInv, ServerOrder
  PROVE  /\ Buffered \in Seq(StoredType)
         /\ Increasing(Buffered)
         /\ \A i \in DOMAIN Buffered :
              /\ Buffered[i].id \in 1..Len(written)
              /\ written[Buffered[i].id].kind = "Dependent"
              /\ \/ \E k \in DOMAIN buffer : Buffered[i] = buffer[k]
                 \/ Buffered[i].id > Processed /\ Buffered[i].excluded = {}
         /\ \A k \in DOMAIN buffer : \E i \in DOMAIN Buffered : Buffered[i] = buffer[k]
         /\ \A k \in DOMAIN toClients :
              written[toClients[k]].kind = "Dependent" =>
                \E i \in DOMAIN Buffered : Buffered[i].id = toClients[k] /\ Buffered[i].excluded = {}
<1> DEFINE goes(id) == written[id].kind = "Dependent"
           keep == {i \in DOMAIN toClients : goes(toClients[i])}
           ids == Pick(toClients, keep)
           new == [i \in DOMAIN ids |-> [id |-> ids[i], excluded |-> {}]]
           r == buffer \o new
<1>1. keep \in SUBSET DOMAIN toClients
  OBVIOUS
<1>2. /\ Len(toClients) \in Nat /\ DOMAIN toClients = 1..Len(toClients) /\ toClients \in Seq(Nat)
      /\ Len(written) \in Nat /\ Len(toClients) <= Len(written)
      /\ \A i \in DOMAIN toClients : toClients[i] = Processed + i
  BY LenProperties DEF TypeInv, ServerOrder
<1>3. Processed \in Nat /\ Processed + Len(toClients) = Len(written)
  BY <1>2 DEF Processed
<1>4. Buffered = r
  BY DEF Buffered
<1> HIDE DEF keep
<1>5. ids \in Seq(Nat)
  BY <1>1, <1>2, PickFacts
<1>6. PICK f : /\ Thins(f, ids, toClients)
               /\ \A i \in DOMAIN ids : f[i] \in keep
               /\ \A k \in keep : \E i \in DOMAIN ids : f[i] = k
  BY <1>1, <1>2, PickFacts
<1> HIDE DEF ids
<1>7. \A i \in DOMAIN ids : f[i] \in DOMAIN toClients /\ ids[i] = toClients[f[i]]
  BY <1>6 DEF Thins
<1>8. new \in Seq(StoredType)
  <2>1. Len(ids) \in Nat /\ DOMAIN ids = 1..Len(ids) /\ \A i \in DOMAIN ids : ids[i] \in Nat
    BY <1>5, LenProperties, ElementOfSeq
  <2>2. new \in [1..Len(ids) -> StoredType]
    BY <2>1 DEF StoredType
  <2> QED
    BY <2>1, <2>2, SeqDef
<1>9. /\ DOMAIN new = DOMAIN ids
      /\ \A i \in DOMAIN new : new[i].id = ids[i] /\ new[i].excluded = {}
  OBVIOUS
<1> HIDE DEF new
<1>10. \A i \in DOMAIN ids : ids[i] \in (Processed + 1)..Len(written) /\ goes(ids[i])
  <2>1. ASSUME NEW i \in DOMAIN ids PROVE ids[i] \in (Processed + 1)..Len(written)
    <3>1. f[i] \in 1..Len(toClients) /\ ids[i] = Processed + f[i]
      BY <1>2, <1>7
    <3> QED
      BY <1>2, <1>3, <3>1
  <2> QED
    BY <1>6, <1>7, <2>1 DEF keep
<1>11. \A i, j \in DOMAIN ids : i < j => ids[i] < ids[j]
  <2>1. ASSUME NEW i \in DOMAIN ids, NEW j \in DOMAIN ids, i < j PROVE ids[i] < ids[j]
    <3>1. /\ f[i] \in 1..Len(toClients) /\ ids[i] = Processed + f[i]
          /\ f[j] \in 1..Len(toClients) /\ ids[j] = Processed + f[j]
          /\ f[i] < f[j]
      BY <1>2, <1>6, <1>7, <2>1 DEF Thins
    <3> QED
      BY <1>2, <1>3, <3>1
  <2> QED
    BY <2>1
<1>12. ASSUME NEW k \in DOMAIN toClients, goes(toClients[k])
       PROVE  \E i \in DOMAIN new : new[i].id = toClients[k] /\ new[i].excluded = {}
  <2>1. k \in keep
    BY <1>12 DEF keep
  <2>2. PICK i \in DOMAIN ids : f[i] = k
    BY <1>6, <2>1
  <2>3. i \in DOMAIN new /\ new[i].id = toClients[k] /\ new[i].excluded = {}
    BY <1>7, <1>9, <2>2
  <2> QED
    BY <2>3
<1>13. /\ buffer \in Seq(StoredType) /\ Len(buffer) \in Nat /\ DOMAIN buffer = 1..Len(buffer)
       /\ Len(new) \in Nat /\ DOMAIN new = 1..Len(new)
  BY <1>8, LenProperties DEF TypeInv
<1>14. /\ r \in Seq(StoredType) /\ Len(r) = Len(buffer) + Len(new)
       /\ \A i \in 1..(Len(buffer) + Len(new)) :
            r[i] = IF i <= Len(buffer) THEN buffer[i] ELSE new[i - Len(buffer)]
  BY <1>8, <1>13, ConcatProperties
<1>15. DOMAIN r = 1..(Len(buffer) + Len(new))
  BY <1>14, LenProperties
<1> HIDE DEF r
<1>16. ASSUME NEW i \in DOMAIN r
       PROVE  \/ i \in DOMAIN buffer /\ r[i] = buffer[i]
              \/ i > Len(buffer) /\ i - Len(buffer) \in DOMAIN new /\ r[i] = new[i - Len(buffer)]
  <2>1. CASE i <= Len(buffer)
    BY <1>13, <1>14, <1>15, <2>1
  <2>2. CASE ~(i <= Len(buffer))
    <3>1. i > Len(buffer) /\ i - Len(buffer) \in 1..Len(new)
      BY <1>13, <1>15, <2>2
    <3> QED
      BY <1>13, <1>14, <1>15, <2>2, <3>1
  <2> QED
    BY <2>1, <2>2
<1>17. /\ \A k \in DOMAIN buffer : k \in DOMAIN r /\ r[k] = buffer[k]
       /\ \A k \in DOMAIN new : Len(buffer) + k \in DOMAIN r /\ r[Len(buffer) + k] = new[k]
  <2>1. ASSUME NEW k \in DOMAIN buffer PROVE k \in DOMAIN r /\ r[k] = buffer[k]
    <3>1. k \in 1..(Len(buffer) + Len(new)) /\ k <= Len(buffer)
      BY <1>13
    <3> QED
      BY <1>14, <1>15, <3>1
  <2>2. ASSUME NEW k \in DOMAIN new PROVE Len(buffer) + k \in DOMAIN r /\ r[Len(buffer) + k] = new[k]
    <3>1. /\ Len(buffer) + k \in 1..(Len(buffer) + Len(new)) /\ ~(Len(buffer) + k <= Len(buffer))
          /\ (Len(buffer) + k) - Len(buffer) = k
      BY <1>13
    <3>2. r[Len(buffer) + k] = new[(Len(buffer) + k) - Len(buffer)]
      BY <1>14, <3>1
    <3> QED
      BY <1>15, <3>1, <3>2
  <2> QED
    BY <2>1, <2>2
<1>18. /\ \A k \in DOMAIN buffer :
            buffer[k].id \in 1..Processed /\ written[buffer[k].id].kind = "Dependent"
       /\ \A k, j \in DOMAIN buffer : k < j => buffer[k].id < buffer[j].id
  BY DEF ServerOrder
<1>19. \A i \in DOMAIN r :
         /\ r[i].id \in 1..Len(written)
         /\ written[r[i].id].kind = "Dependent"
         /\ (\E k \in DOMAIN buffer : r[i] = buffer[k]) \/ (r[i].id > Processed /\ r[i].excluded = {})
  <2>1. ASSUME NEW i \in DOMAIN r, i \in DOMAIN buffer, r[i] = buffer[i]
        PROVE  r[i].id \in 1..Len(written) /\ written[r[i].id].kind = "Dependent"
    <3>1. r[i].id \in 1..Processed
      BY <1>18, <2>1
    <3>2. r[i].id \in 1..Len(written)
      BY <1>2, <1>3, <3>1
    <3> QED
      BY <1>18, <2>1, <3>2
  <2>2. ASSUME NEW i \in DOMAIN r, NEW k \in DOMAIN new, r[i] = new[k]
        PROVE  /\ r[i].id \in 1..Len(written) /\ written[r[i].id].kind = "Dependent"
               /\ r[i].id > Processed /\ r[i].excluded = {}
    <3>1. r[i].id \in (Processed + 1)..Len(written) /\ goes(r[i].id) /\ r[i].excluded = {}
      BY <1>9, <1>10, <2>2
    <3>2. r[i].id \in 1..Len(written) /\ r[i].id > Processed
      BY <1>2, <1>3, <3>1
    <3> QED
      BY <3>1, <3>2
  <2> QED
    BY <1>16, <2>1, <2>2
<1>20. Increasing(r)
  <2>1. ASSUME NEW i \in DOMAIN r, NEW j \in DOMAIN r, i < j PROVE r[i].id < r[j].id
    <3>1. CASE j \in DOMAIN buffer /\ r[j] = buffer[j]
      <4>1. i \in DOMAIN buffer /\ r[i] = buffer[i]
        BY <1>13, <1>15, <1>16, <2>1, <3>1
      <4> QED
        BY <1>18, <2>1, <3>1, <4>1
    <3>2. CASE j > Len(buffer) /\ j - Len(buffer) \in DOMAIN new /\ r[j] = new[j - Len(buffer)]
      <4>1. CASE i \in DOMAIN buffer /\ r[i] = buffer[i]
        <5>1. r[i].id \in 1..Processed
          BY <1>18, <4>1
        <5>2. r[j].id \in (Processed + 1)..Len(written)
          BY <1>9, <1>10, <3>2
        <5> QED
          BY <1>2, <1>3, <5>1, <5>2
      <4>2. CASE i > Len(buffer) /\ i - Len(buffer) \in DOMAIN new /\ r[i] = new[i - Len(buffer)]
        <5>1. i - Len(buffer) < j - Len(buffer)
          BY <1>13, <1>15, <2>1
        <5> QED
          BY <1>9, <1>11, <3>2, <4>2, <5>1
      <4> QED
        BY <1>16, <4>1, <4>2
    <3> QED
      BY <1>16, <3>1, <3>2
  <2> QED
    BY <2>1 DEF Increasing
<1>21. \A k \in DOMAIN buffer : \E i \in DOMAIN r : r[i] = buffer[k]
  BY <1>17
<1>22. ASSUME NEW k \in DOMAIN toClients, goes(toClients[k])
       PROVE  \E i \in DOMAIN r : r[i].id = toClients[k] /\ r[i].excluded = {}
  <2>1. PICK i \in DOMAIN new : new[i].id = toClients[k] /\ new[i].excluded = {}
    BY <1>12, <1>22
  <2> QED
    BY <1>17, <2>1
<1> QED
  BY <1>4, <1>14, <1>19, <1>20, <1>21, <1>22

\* Every buffered message for the client, and nothing else, in order, with the
\* update tick of the client after this frame's replication.
LEMMA SentFromBufferFacts ==
  ASSUME TypeInv, ServerOrder, NEW cl \in Clients, AfterReplication(cl, TRUE).updateTick \in Ticks
  PROVE  /\ SentFromBuffer(cl) \in Seq(PacketType)
         /\ Increasing(SentFromBuffer(cl))
         /\ \A i \in DOMAIN SentFromBuffer(cl) :
              /\ SentFromBuffer(cl)[i].tick = AfterReplication(cl, TRUE).updateTick
              /\ cl \in Authorized
              /\ \E k \in DOMAIN Buffered :
                   /\ SentFromBuffer(cl)[i].id = Buffered[k].id
                   /\ cl \notin Buffered[k].excluded /\ IsRecipient(Buffered[k].id, cl)
         /\ \A k \in DOMAIN Buffered :
              cl \in Authorized /\ cl \notin Buffered[k].excluded /\ IsRecipient(Buffered[k].id, cl) =>
                \E i \in DOMAIN SentFromBuffer(cl) : SentFromBuffer(cl)[i].id = Buffered[k].id
<1> DEFINE goes(b) == cl \in Authorized /\ cl \notin b.excluded /\ IsRecipient(b.id, cl)
           bs == Buffered
           keep == {i \in DOMAIN bs : goes(bs[i])}
           sets == Pick(bs, keep)
           tick == AfterReplication(cl, TRUE).updateTick
           r == [i \in DOMAIN sets |-> [id |-> sets[i].id, tick |-> tick]]
<1>1. SentFromBuffer(cl) = r
  BY DEF SentFromBuffer
<1>2. bs \in Seq(StoredType) /\ Increasing(bs)
  BY BufferedFacts
<1> HIDE DEF bs, tick
<1>3. keep \in SUBSET DOMAIN bs
  OBVIOUS
<1> HIDE DEF keep
<1>4. sets \in Seq(StoredType)
  BY <1>2, <1>3, PickFacts
<1>5. PICK f : /\ Thins(f, sets, bs)
               /\ \A i \in DOMAIN sets : f[i] \in keep
               /\ \A k \in keep : \E i \in DOMAIN sets : f[i] = k
  BY <1>2, <1>3, PickFacts
<1> HIDE DEF sets
<1>6. r \in Seq(PacketType)
  <2>1. /\ Len(sets) \in Nat /\ DOMAIN sets = 1..Len(sets)
        /\ \A i \in DOMAIN sets : sets[i] \in StoredType
    BY <1>4, LenProperties, ElementOfSeq
  <2>2. \A i \in DOMAIN sets : sets[i].id \in Nat
    BY <2>1 DEF StoredType
  <2>3. tick \in Ticks
    BY DEF tick
  <2>4. r \in [1..Len(sets) -> PacketType]
    BY <2>1, <2>2, <2>3 DEF PacketType
  <2> QED
    BY <2>1, <2>4, SeqDef
<1>7. /\ DOMAIN r = DOMAIN sets
      /\ \A i \in DOMAIN r : r[i].id = sets[i].id /\ r[i].tick = tick
  OBVIOUS
<1> HIDE DEF r
<1>8. \A i \in DOMAIN r : f[i] \in DOMAIN bs /\ r[i].id = bs[f[i]].id /\ goes(bs[f[i]])
  BY <1>5, <1>7 DEF Thins, keep
<1>9. Increasing(r)
  BY <1>2, <1>5, <1>7, <1>8 DEF Increasing, Thins
<1>10. ASSUME NEW k \in DOMAIN bs, goes(bs[k])
       PROVE  \E i \in DOMAIN r : r[i].id = bs[k].id
  <2>1. k \in keep
    BY <1>10 DEF keep
  <2>2. PICK i \in DOMAIN sets : f[i] = k
    BY <1>5, <2>1
  <2> QED
    BY <1>7, <1>8, <2>2
<1>11. \A i \in DOMAIN r :
         /\ r[i].tick = tick /\ cl \in Authorized
         /\ \E k \in DOMAIN bs :
              r[i].id = bs[k].id /\ cl \notin bs[k].excluded /\ IsRecipient(bs[k].id, cl)
  BY <1>7, <1>8
<1> QED
  BY <1>1, <1>6, <1>9, <1>10, <1>11 DEF bs, tick

\* What the server shows to itself.
LEMMA ShownLocallyFacts ==
  ASSUME TypeInv, ServerOrder
  PROVE  /\ ShownLocally \in Seq(Nat)
         /\ \A i \in DOMAIN ShownLocally : ShownLocally[i] \in MessageIds
<1> DEFINE keep == {i \in DOMAIN toClients : IsRecipient(toClients[i], Server)}
<1>1. keep \in SUBSET DOMAIN toClients
  OBVIOUS
<1>2. ShownLocally = Pick(toClients, keep)
  BY DEF ShownLocally
<1> HIDE DEF keep
<1>3. toClients \in Seq(Nat) /\ Len(toClients) \in Nat /\ DOMAIN toClients = 1..Len(toClients)
  BY LenProperties DEF TypeInv
<1>4. PICK f : Thins(f, Pick(toClients, keep), toClients)
  BY <1>1, <1>3, PickFacts
<1>5. \A i \in DOMAIN toClients : toClients[i] \in MessageIds
  <2>1. ASSUME NEW i \in DOMAIN toClients PROVE toClients[i] \in MessageIds
    <3>1. /\ Len(written) \in Nat /\ Len(toClients) <= Len(written)
          /\ toClients[i] = (Len(written) - Len(toClients)) + i
      BY LenProperties DEF TypeInv, ServerOrder, Processed
    <3> QED
      BY <1>3, <3>1 DEF MessageIds
  <2> QED
    BY <2>1
<1>6. Pick(toClients, keep) \in Seq(Nat)
  BY <1>1, <1>3, PickFacts
<1> QED
  BY <1>2, <1>4, <1>5, <1>6 DEF Thins

-----------------------------------------------------------------------------
(* What a client sends, keeps and handles itself.                          *)

LEMMA UnsentFacts ==
  ASSUME NEW out \in Seq(OutType)
  PROVE  /\ Unsent(out) \in Seq(OutType)
         /\ \E f : Thins(f, Unsent(out), out)
         /\ \A i \in DOMAIN Unsent(out) : ~Unsent(out)[i].sent
<1> DEFINE keep == {i \in DOMAIN out : ~out[i].sent}
<1>1. keep \in SUBSET DOMAIN out /\ Unsent(out) = Pick(out, keep)
  BY DEF Unsent
<1> HIDE DEF keep
<1>2. Pick(out, keep) \in Seq(OutType)
  BY <1>1, PickFacts
<1>3. PICK f : Thins(f, Pick(out, keep), out) /\ \A i \in DOMAIN Pick(out, keep) : f[i] \in keep
  BY <1>1, PickFacts
<1>4. \A i \in DOMAIN Pick(out, keep) : ~Pick(out, keep)[i].sent
  BY <1>3, Zenon DEF Thins, keep
<1> QED
  BY <1>1, <1>2, <1>3, <1>4

LEMMA SharedFacts ==
  ASSUME NEW out \in Seq(OutType)
  PROVE  /\ SharedIn(out) \in Seq(OutType)
         /\ \E f : Thins(f, SharedIn(out), out)
         /\ \A i \in DOMAIN SharedIn(out) : SharedIn(out)[i].kind = "Shared"
<1> DEFINE keep == {i \in DOMAIN out : out[i].kind = "Shared"}
<1>1. keep \in SUBSET DOMAIN out /\ SharedIn(out) = Pick(out, keep)
  BY DEF SharedIn
<1> HIDE DEF keep
<1>2. Pick(out, keep) \in Seq(OutType)
  BY <1>1, PickFacts
<1>3. PICK f : Thins(f, Pick(out, keep), out) /\ \A i \in DOMAIN Pick(out, keep) : f[i] \in keep
  BY <1>1, PickFacts
<1>4. \A i \in DOMAIN Pick(out, keep) : Pick(out, keep)[i].kind = "Shared"
  BY <1>3 DEF Thins, keep
<1> QED
  BY <1>1, <1>2, <1>3, <1>4

LEMMA NotSharedFacts ==
  ASSUME NEW out \in Seq(OutType)
  PROVE  /\ NotSharedIn(out) \in Seq(OutType)
         /\ \E f : Thins(f, NotSharedIn(out), out)
<1> DEFINE keep == {i \in DOMAIN out : out[i].kind # "Shared"}
<1>1. keep \in SUBSET DOMAIN out /\ NotSharedIn(out) = Pick(out, keep)
  BY DEF NotSharedIn
<1> HIDE DEF keep
<1>2. Pick(out, keep) \in Seq(OutType)
  BY <1>1, PickFacts
<1>3. PICK f : Thins(f, Pick(out, keep), out)
  BY <1>1, PickFacts
<1> QED
  BY <1>1, <1>2, <1>3

LEMMA AsLocalFacts ==
  ASSUME NEW out \in Seq(OutType)
  PROVE  /\ AsLocal(out) \in Seq(HandledType)
         /\ DOMAIN AsLocal(out) = DOMAIN out
         /\ \A i \in DOMAIN out : /\ AsLocal(out)[i].kind = out[i].kind
                                  /\ AsLocal(out)[i].id = out[i].id /\ AsLocal(out)[i].at = "Local"
<1>1. /\ Len(out) \in Nat /\ DOMAIN out = 1..Len(out)
      /\ \A i \in DOMAIN out : out[i] \in OutType
  BY LenProperties, ElementOfSeq
<1>2. AsLocal(out) \in [1..Len(out) -> HandledType]
  <2>1. \A i \in DOMAIN out : out[i].kind \in UpKinds /\ out[i].id \in UpIds
    BY <1>1 DEF OutType
  <2>2. \A i \in DOMAIN out : [kind |-> out[i].kind, id |-> out[i].id, at |-> "Local"] \in HandledType
    BY <2>1 DEF HandledType
  <2> QED
    BY <1>1, <2>2 DEF AsLocal
<1>3. AsLocal(out) \in Seq(HandledType)
  BY <1>1, <1>2, SeqDef
<1> QED
  BY <1>3 DEF AsLocal

\* The messages that go to the server, and those that are kept as sent.
AsUp(out) == [i \in DOMAIN out |-> [kind |-> out[i].kind, id |-> out[i].id]]
AsSent(out) == [i \in DOMAIN out |-> [kind |-> out[i].kind, id |-> out[i].id, sent |-> TRUE]]

LEMMA AsUpFacts ==
  ASSUME NEW out \in Seq(OutType)
  PROVE  AsUp(out) \in Seq(UpType) /\ AsSent(out) \in Seq(OutType)
<1>1. /\ Len(out) \in Nat /\ DOMAIN out = 1..Len(out)
      /\ \A i \in DOMAIN out : out[i] \in OutType
  BY LenProperties, ElementOfSeq
<1>2. \A i \in DOMAIN out : out[i].kind \in UpKinds /\ out[i].id \in UpIds
  BY <1>1 DEF OutType
<1>3. AsUp(out) \in [1..Len(out) -> UpType]
  <2>1. \A i \in DOMAIN out : [kind |-> out[i].kind, id |-> out[i].id] \in UpType
    BY <1>2 DEF UpType
  <2> QED
    BY <1>1, <2>1 DEF AsUp
<1>4. AsSent(out) \in [1..Len(out) -> OutType]
  <2>1. \A i \in DOMAIN out : [kind |-> out[i].kind, id |-> out[i].id, sent |-> TRUE] \in OutType
    BY <1>2 DEF OutType
  <2> QED
    BY <1>1, <2>1 DEF AsSent
<1> QED
  BY <1>1, <1>3, <1>4, SeqDef

-----------------------------------------------------------------------------
(* What the steps of a client do to its resources.                         *)

\* The records of the other clients stay as they are.
OthersKept(f, g, cl) == \A c \in Clients : c # cl => g[c] = f[c]

AppIs(a, state, protocol, updateTick, replica, queue, out, wrote, session) ==
  /\ a.state = state /\ a.protocol = protocol /\ a.updateTick = updateTick /\ a.replica = replica
  /\ a.queue = queue /\ a.out = out /\ a.wrote = wrote /\ a.session = session

\* A record of an app is the record of its fields.
LEMMA AppTyped ==
  ASSUME NEW a \in AppType
  PROVE  /\ a.state \in {"Disconnected", "Connecting", "Connected"} /\ a.protocol \in Protocols
         /\ a.updateTick \in Ticks /\ a.replica \in SUBSET Entities /\ a.queue \in Seq(PacketType)
         /\ a.out \in Seq(OutType) /\ a.wrote \in 0..MaxMessages /\ a.session \in Sessions
BY DEF AppType

LEMMA StateEffect ==
  ASSUME NEW f \in [Clients -> AppType], NEW cl \in Clients, NEW g,
         NEW x \in {"Disconnected", "Connecting", "Connected"},
         g = [f EXCEPT ![cl].state = x]
  PROVE  /\ g \in [Clients -> AppType] /\ OthersKept(f, g, cl)
         /\ AppIs(g[cl], x, f[cl].protocol, f[cl].updateTick, f[cl].replica, f[cl].queue, f[cl].out,
                  f[cl].wrote, f[cl].session)
<1>1. g = [f EXCEPT ![cl] = [f[cl] EXCEPT !.state = x]]
  OBVIOUS
<1>2. [f[cl] EXCEPT !.state = x] \in AppType
  BY DEF AppType
<1>3. g[cl] = [f[cl] EXCEPT !.state = x]
  BY <1>1
<1>4. AppIs(g[cl], x, f[cl].protocol, f[cl].updateTick, f[cl].replica, f[cl].queue, f[cl].out,
            f[cl].wrote, f[cl].session)
  BY <1>3 DEF AppIs, AppType
<1> QED
  BY <1>1, <1>2, <1>4 DEF OthersKept

LEMMA OpenEffect ==
  ASSUME NEW f \in [Clients -> AppType], NEW cl \in Clients, NEW g,
         NEW p \in Protocols, f[cl].session < MaxSession,
         g = [f EXCEPT ![cl].state = "Connected", ![cl].session = @ + 1, ![cl].protocol = p,
               ![cl].out = Append(@, [kind |-> "ProtocolHash", id |-> p, sent |-> FALSE])]
  PROVE  /\ g \in [Clients -> AppType] /\ OthersKept(f, g, cl)
         /\ AppIs(g[cl], "Connected", p, f[cl].updateTick, f[cl].replica, f[cl].queue,
                  Append(f[cl].out, [kind |-> "ProtocolHash", id |-> p, sent |-> FALSE]),
                  f[cl].wrote, f[cl].session + 1)
<1> DEFINE hash == [kind |-> "ProtocolHash", id |-> p, sent |-> FALSE]
           h == [f[cl] EXCEPT !.state = "Connected", !.session = @ + 1, !.protocol = p,
                  !.out = Append(@, hash)]
<1>1. hash \in OutType
  BY DEF OutType, UpKinds, UpIds
<1>2. Append(f[cl].out, hash) \in Seq(OutType)
  BY <1>1, AppTyped, AppendProperties
<1>3. f[cl].session + 1 \in Sessions
  BY AppTyped, MessagesAssumption DEF Sessions
<1>4. g = [f EXCEPT ![cl] = h]
  OBVIOUS
<1>5. h \in AppType
  BY <1>2, <1>3 DEF AppType
<1> QED
  BY <1>4, <1>5 DEF OthersKept, AppIs, AppType

LEMMA ResetEffect ==
  ASSUME NEW f \in [Clients -> AppType], NEW cl \in Clients, NEW g,
         g = [f EXCEPT ![cl] = AfterReset(@)]
  PROVE  /\ g \in [Clients -> AppType] /\ OthersKept(f, g, cl)
         /\ AppIs(g[cl], "Disconnected", f[cl].protocol, 0, {}, <<>>, <<>>, f[cl].wrote, f[cl].session)
<1> DEFINE h == AfterReset(f[cl])
<1>1. g = [f EXCEPT ![cl] = h]
  OBVIOUS
<1>2. 0 \in Ticks /\ <<>> \in Seq(PacketType) /\ <<>> \in Seq(OutType)
  BY MessagesAssumption DEF Ticks
<1>3. h = [f[cl] EXCEPT !.state = "Disconnected", !.updateTick = 0, !.replica = {}, !.queue = <<>>,
                        !.out = <<>>]
  BY DEF AfterReset
<1> HIDE DEF h
<1>4. h \in AppType
  BY <1>2, <1>3 DEF AppType
<1>5. AppIs(h, "Disconnected", f[cl].protocol, 0, {}, <<>>, <<>>, f[cl].wrote, f[cl].session)
  BY <1>3 DEF AppIs, AppType
<1>6. g[cl] = h
  BY <1>1
<1> QED
  BY <1>1, <1>4, <1>5, <1>6 DEF OthersKept

LEMMA WriteEffect ==
  ASSUME NEW f \in [Clients -> AppType], NEW cl \in Clients, NEW g, NEW m \in OutType,
         f[cl].wrote < MaxMessages,
         g = [f EXCEPT ![cl].wrote = @ + 1, ![cl].out = Append(@, m)]
  PROVE  /\ g \in [Clients -> AppType] /\ OthersKept(f, g, cl)
         /\ AppIs(g[cl], f[cl].state, f[cl].protocol, f[cl].updateTick, f[cl].replica, f[cl].queue,
                  Append(f[cl].out, m), f[cl].wrote + 1, f[cl].session)
<1> DEFINE h == [f[cl] EXCEPT !.wrote = @ + 1, !.out = Append(@, m)]
<1>1. g = [f EXCEPT ![cl] = h]
  OBVIOUS
<1>2. Append(f[cl].out, m) \in Seq(OutType)
  BY AppTyped, AppendProperties
<1>3. f[cl].wrote + 1 \in 0..MaxMessages
  BY AppTyped, MessagesAssumption
<1>4. h \in AppType
  BY <1>2, <1>3 DEF AppType
<1>5. AppIs(h, f[cl].state, f[cl].protocol, f[cl].updateTick, f[cl].replica, f[cl].queue,
            Append(f[cl].out, m), f[cl].wrote + 1, f[cl].session)
  BY DEF AppIs, AppType
<1> HIDE DEF h
<1>6. g[cl] = h
  BY <1>1
<1> QED
  BY <1>1, <1>4, <1>5, <1>6 DEF OthersKept

LEMMA OutEffect ==
  ASSUME NEW f \in [Clients -> AppType], NEW cl \in Clients, NEW g, NEW out \in Seq(OutType),
         g = [f EXCEPT ![cl].out = out]
  PROVE  /\ g \in [Clients -> AppType] /\ OthersKept(f, g, cl)
         /\ AppIs(g[cl], f[cl].state, f[cl].protocol, f[cl].updateTick, f[cl].replica, f[cl].queue,
                  out, f[cl].wrote, f[cl].session)
<1> DEFINE h == [f[cl] EXCEPT !.out = out]
<1>1. g = [f EXCEPT ![cl] = h]
  OBVIOUS
<1>2. h \in AppType
  BY DEF AppType
<1>3. AppIs(h, f[cl].state, f[cl].protocol, f[cl].updateTick, f[cl].replica, f[cl].queue,
            out, f[cl].wrote, f[cl].session)
  BY DEF AppIs, AppType
<1> HIDE DEF h
<1>4. g[cl] = h
  BY <1>1
<1> QED
  BY <1>1, <1>2, <1>3, <1>4 DEF OthersKept

LEMMA QueueEffect ==
  ASSUME NEW f \in [Clients -> AppType], NEW cl \in Clients, NEW g, NEW queue \in Seq(PacketType),
         g = [f EXCEPT ![cl].queue = queue]
  PROVE  /\ g \in [Clients -> AppType] /\ OthersKept(f, g, cl)
         /\ AppIs(g[cl], f[cl].state, f[cl].protocol, f[cl].updateTick, f[cl].replica, queue,
                  f[cl].out, f[cl].wrote, f[cl].session)
<1> DEFINE h == [f[cl] EXCEPT !.queue = queue]
<1>1. g = [f EXCEPT ![cl] = h]
  OBVIOUS
<1>2. h \in AppType
  BY DEF AppType
<1>3. AppIs(h, f[cl].state, f[cl].protocol, f[cl].updateTick, f[cl].replica, queue,
            f[cl].out, f[cl].wrote, f[cl].session)
  BY DEF AppIs, AppType
<1> HIDE DEF h
<1>4. g[cl] = h
  BY <1>1
<1> QED
  BY <1>1, <1>2, <1>3, <1>4 DEF OthersKept

LEMMA UpdateEffect ==
  ASSUME NEW f \in [Clients -> AppType], NEW cl \in Clients, NEW g, NEW tick \in Ticks,
         NEW replica \in SUBSET Entities, NEW queue \in Seq(PacketType),
         g = [f EXCEPT ![cl].updateTick = tick, ![cl].replica = replica, ![cl].queue = queue]
  PROVE  /\ g \in [Clients -> AppType] /\ OthersKept(f, g, cl)
         /\ AppIs(g[cl], f[cl].state, f[cl].protocol, tick, replica, queue,
                  f[cl].out, f[cl].wrote, f[cl].session)
<1> DEFINE h == [f[cl] EXCEPT !.updateTick = tick, !.replica = replica, !.queue = queue]
<1>1. g = [f EXCEPT ![cl] = h]
  OBVIOUS
<1>2. h \in AppType
  BY DEF AppType
<1>3. AppIs(h, f[cl].state, f[cl].protocol, tick, replica, queue,
            f[cl].out, f[cl].wrote, f[cl].session)
  BY DEF AppIs, AppType
<1> HIDE DEF h
<1>4. g[cl] = h
  BY <1>1
<1> QED
  BY <1>1, <1>2, <1>3, <1>4 DEF OthersKept

-----------------------------------------------------------------------------
(* Types.                                                                  *)

LEMMA IdOfType ==
  ASSUME TypeInv, NEW r \in Clients \cup {Server, None}
  PROVE  IdOf(r) \in (Clients \cup {Server, None}) \X Nat
<1>1. r \in Clients => link[r].session \in Nat
  BY DEF TypeInv, LinkType, Sessions
<1> QED
  BY <1>1 DEF IdOf

LEMMA NoLinkType == NoLink \in LinkType
BY MessagesAssumption DEF NoLink, LinkType, Sessions, Ticks

LEMMA AfterReplicationType ==
  ASSUME TypeInv, NEW cl \in Clients, NEW ticks \in BOOLEAN, ticks => serverTick < MaxTick
  PROVE  /\ AfterReplication(cl, ticks) \in LinkType
         /\ Replicates(cl, ticks) => serverTick + 1 \in Ticks
<1>1. link[cl] \in LinkType /\ world \in SUBSET Entities /\ serverTick \in Ticks
  BY DEF TypeInv
<1>2. Replicates(cl, ticks) => serverTick + 1 \in Ticks
  BY <1>1, MessagesAssumption DEF Replicates, Ticks
<1>3. AfterReplication(cl, ticks) \in LinkType
  <2>1. CASE Replicates(cl, ticks)
    <3>1. AfterReplication(cl, ticks) = [link[cl] EXCEPT !.updateTick = serverTick + 1, !.known = world]
      BY <2>1 DEF AfterReplication
    <3> QED
      BY <1>1, <1>2, <2>1, <3>1 DEF LinkType
  <2>2. CASE ~Replicates(cl, ticks)
    BY <1>1, <2>2 DEF AfterReplication
  <2> QED
    BY <2>1, <2>2
<1> QED
  BY <1>2, <1>3

LEMMA TypeInit == Init => TypeInv
<1> SUFFICES ASSUME Init PROVE TypeInv
  OBVIOUS
<1>1. NewApp \in AppType
  BY MessagesAssumption DEF NewApp, AppType, Ticks, Sessions
<1>2. app \in [Clients -> AppType]
  BY <1>1 DEF Init
<1>3. link \in [Clients -> LinkType]
  BY NoLinkType DEF Init
<1>4. serverTick \in Ticks
  BY MessagesAssumption DEF Init, Ticks
<1> QED
  BY <1>2, <1>3, <1>4 DEF Init, TypeInv

\* What the application on the server writes.
LEMMA TypeWrite ==
  ASSUME TypeInv, NEW kind \in Kinds, NEW targets \in Targets, NEW e \in Entities \cup {None},
         Write(kind, targets, e)
  PROVE  TypeInv'
<1> DEFINE m == [kind |-> kind, entity |-> e, targets |-> [to |-> targets.to, who |-> IdOf(targets.who)]]
<1>1. targets.to \in {"All", "AllExcept", "Single"} /\ targets.who \in Clients \cup {Server, None}
  BY MessagesAssumption
<1>2. IdOf(targets.who) \in (Clients \cup {Server, None}) \X Nat
  BY <1>1, IdOfType
<1>3. m \in WrittenType
  BY <1>1, <1>2 DEF WrittenType
<1>4. written' = Append(written, m) /\ toClients' = Append(toClients, Len(written) + 1)
  BY DEF Write
<1> HIDE DEF m
<1>5. written' \in Seq(WrittenType) /\ toClients' \in Seq(Nat)
  <2>1. Len(written) + 1 \in Nat
    BY LenProperties DEF TypeInv
  <2> QED
    BY <1>3, <1>4, <2>1, AppendProperties DEF TypeInv
<1>6. UNCHANGED <<serverTick, world, spawned, buffer, link, disconnects, netVars, clientVars>>
  BY DEF Write
<1> QED
  BY <1>5, <1>6 DEF TypeInv, netVars, clientVars

LEMMA TypeFrame ==
  ASSUME TypeInv, ServerOrder, NEW ticks \in BOOLEAN, ServerFrame(ticks)
  PROVE  TypeInv'
<1>1. ticks => serverTick < MaxTick
  BY DEF ServerFrame
<1>2. serverTick' \in Ticks
  BY <1>1, MessagesAssumption DEF ServerFrame, TypeInv, Ticks
<1>3. updates' \in [Clients -> Seq(UpdateType)]
  <2>1. ASSUME NEW cl \in Clients, Replicates(cl, ticks)
        PROVE  Append(updates[cl], [tick |-> serverTick + 1, world |-> world]) \in Seq(UpdateType)
    <3>1. [tick |-> serverTick + 1, world |-> world] \in UpdateType
      BY <1>1, <2>1, AfterReplicationType DEF TypeInv, UpdateType
    <3>2. updates[cl] \in Seq(UpdateType)
      BY DEF TypeInv
    <3> QED
      BY <3>1, <3>2, AppendProperties
  <2> QED
    BY <2>1 DEF ServerFrame, TypeInv
<1>4. down' \in [Clients -> Seq(PacketType)]
  <2>1. ASSUME NEW cl \in Clients
        PROVE  down[cl] \o SentAtOnce(cl) \o (IF ticks THEN SentFromBuffer(cl) ELSE <<>>) \in Seq(PacketType)
    <3>1. down[cl] \in Seq(PacketType) /\ SentAtOnce(cl) \in Seq(PacketType)
      BY SentAtOnceFacts DEF TypeInv
    <3>2. down[cl] \o SentAtOnce(cl) \in Seq(PacketType)
      BY <3>1, ConcatProperties
    <3>3. ticks => SentFromBuffer(cl) \in Seq(PacketType)
      <4>1. ASSUME ticks PROVE AfterReplication(cl, TRUE).updateTick \in Ticks
        <5>1. AfterReplication(cl, TRUE) \in LinkType
          BY <1>1, <4>1, AfterReplicationType
        <5> QED
          BY <5>1 DEF LinkType
      <4> QED
        BY <4>1, SentFromBufferFacts
    <3>4. (IF ticks THEN SentFromBuffer(cl) ELSE <<>>) \in Seq(PacketType)
      BY <3>3
    <3> QED
      BY <3>2, <3>4, ConcatProperties
  <2> QED
    BY <2>1 DEF ServerFrame
<1>5. buffer' \in Seq(StoredType)
  BY BufferedFacts DEF ServerFrame
<1>6. seenLocally' \in Seq(Nat)
  BY ShownLocallyFacts, ConcatProperties DEF ServerFrame, TypeInv
<1>7. link' \in [Clients -> LinkType]
  BY <1>1, AfterReplicationType, NoLinkType DEF ServerFrame
<1>8. up' \in [Clients -> Seq(UpType)]
  BY DEF ServerFrame, TypeInv
<1>9. toClients' = <<>> /\ disconnects' = {} /\ UNCHANGED <<world, spawned, written, app, seen, handled>>
  BY DEF ServerFrame
<1>10. toClients' \in Seq(Nat) /\ disconnects' \subseteq Clients
  BY <1>9
<1> QED
  BY <1>2, <1>3, <1>4, <1>5, <1>6, <1>7, <1>8, <1>9, <1>10 DEF TypeInv

LEMMA TypeAccept ==
  ASSUME TypeInv, ServerOrder, NEW cl \in Clients, Accept(cl)
  PROVE  TypeInv' /\ OthersKept(link, link', cl)
         /\ link'[cl] = [link[cl] EXCEPT !.status = "Connected", !.since = Processed]
<1> DEFINE l == [link[cl] EXCEPT !.status = "Connected", !.since = Processed]
<1>1. link' = [link EXCEPT ![cl] = l]
  BY DEF Accept
<1>2. Processed \in Nat
  BY LenProperties DEF TypeInv, ServerOrder, Processed
<1>3. l \in LinkType
  BY <1>2 DEF TypeInv, LinkType
<1> HIDE DEF l
<1>4. link' \in [Clients -> LinkType] /\ OthersKept(link, link', cl) /\ link'[cl] = l
  BY <1>1, <1>3 DEF TypeInv, OthersKept
<1>5. buffer' \in Seq(StoredType)
  <2>1. Len(buffer) \in Nat /\ DOMAIN buffer = 1..Len(buffer) /\ \A i \in DOMAIN buffer : buffer[i] \in StoredType
    BY LenProperties, ElementOfSeq DEF TypeInv
  <2>2. \A i \in DOMAIN buffer : [buffer[i] EXCEPT !.excluded = @ \cup {cl}] \in StoredType
    BY <2>1 DEF StoredType
  <2>3. buffer' \in [1..Len(buffer) -> StoredType]
    BY <2>1, <2>2 DEF Accept, ExcludeClient
  <2> QED
    BY <2>1, <2>3, SeqDef
<1>6. UNCHANGED <<serverTick, world, spawned, toClients, disconnects, written, netVars, clientVars>>
  BY DEF Accept
<1>7. TypeInv'
  BY <1>4, <1>5, <1>6 DEF TypeInv, netVars, clientVars
<1> QED
  BY <1>4, <1>7 DEF l

LEMMA TypeDrops ==
  ASSUME TypeInv, NEW cl \in Clients, ServerDrops(cl)
  PROVE  TypeInv' /\ OthersKept(link, link', cl) /\ link'[cl] = NoLink
<1>1. link' = [link EXCEPT ![cl] = NoLink] /\ up' = [up EXCEPT ![cl] = <<>>]
  BY DEF ServerDrops
<1>2. link' \in [Clients -> LinkType] /\ OthersKept(link, link', cl) /\ link'[cl] = NoLink
  BY <1>1, NoLinkType DEF TypeInv, OthersKept
<1>3. up' \in [Clients -> Seq(UpType)] /\ disconnects' \subseteq Clients
  BY <1>1 DEF TypeInv, ServerDrops
<1>4. UNCHANGED <<serverTick, world, spawned, toClients, buffer, written, updates, down, clientVars>>
  BY DEF ServerDrops
<1> QED
  BY <1>2, <1>3, <1>4 DEF TypeInv, clientVars

LEMMA TypeRestart ==
  ASSUME TypeInv, ServerOrder, Restart
  PROVE  TypeInv'
<1>1. serverTick' \in Ticks /\ buffer' = <<>> /\ toClients' = <<>> /\ disconnects' = {}
  BY MessagesAssumption DEF Restart, Ticks
<1>2. seenLocally' \in Seq(Nat)
  BY ShownLocallyFacts, ConcatProperties DEF Restart, TypeInv
<1>3. link' \in [Clients -> LinkType] /\ up' \in [Clients -> Seq(UpType)]
  BY NoLinkType DEF Restart
<1>4. UNCHANGED <<world, spawned, written, updates, down, app, seen, handled>>
  BY DEF Restart
<1> QED
  BY <1>1, <1>2, <1>3, <1>4 DEF TypeInv

\* The three things a received client message does.
ChecksHash(cl, i) ==
  /\ up[cl][i].kind = "ProtocolHash" /\ up[cl][i].id = Protocol
  /\ link' = [link EXCEPT ![cl].status = "Authorized", ![cl].authSince = Processed]
  /\ UNCHANGED <<toClients, written, disconnects, handled>>
Mismatch(cl) ==
  [kind |-> "ProtocolMismatch", entity |-> None, targets |-> [to |-> "Single", who |-> IdOf(cl)]]
RejectsHash(cl, i) ==
  /\ up[cl][i].kind = "ProtocolHash"
  /\ written' = Append(written, Mismatch(cl)) /\ toClients' = Append(toClients, Len(written) + 1)
  /\ disconnects' = disconnects \cup {cl}
  /\ UNCHANGED <<link, handled>>
HandlesMessage(cl, i) ==
  /\ up[cl][i].kind # "ProtocolHash"
  /\ handled' = [handled EXCEPT ![cl] = Append(@, [kind |-> up[cl][i].kind, id |-> up[cl][i].id, at |-> Server])]
  /\ UNCHANGED <<link, toClients, written, disconnects>>

LEMMA ReceiveCases ==
  ASSUME NEW cl \in Clients, NEW i, ServerReceive(cl, i)
  PROVE  /\ cl \in Connected /\ i \in DOMAIN up[cl]
         /\ up' = [up EXCEPT ![cl] = RemoveAt(@, i)]
         /\ UNCHANGED <<serverTick, world, spawned, buffer, updates, down, app, seen, seenLocally>>
         /\ ChecksHash(cl, i) \/ RejectsHash(cl, i) \/ HandlesMessage(cl, i)
<1>1. CASE up[cl][i].kind = "ProtocolHash" /\ up[cl][i].id = Protocol
  BY <1>1 DEF ServerReceive, CheckProtocol, ChecksHash
<1>2. CASE up[cl][i].kind = "ProtocolHash" /\ up[cl][i].id # Protocol
  BY <1>2 DEF ServerReceive, CheckProtocol, RejectsHash, Single, Mismatch
<1>3. CASE up[cl][i].kind # "ProtocolHash"
  BY <1>3 DEF ServerReceive, HandlesMessage
<1> QED
  BY <1>1, <1>2, <1>3

LEMMA TypeReceive ==
  ASSUME TypeInv, ServerOrder, NEW cl \in Clients, NEW i, ServerReceive(cl, i)
  PROVE  /\ TypeInv' /\ OthersKept(link, link', cl)
         /\ up' \in [Clients -> Seq(UpType)] /\ OthersKept(up, up', cl) /\ OthersKept(handled, handled', cl)
         /\ up'[cl] = RemoveAt(up[cl], i)
         /\ ChecksHash(cl, i) =>
              link'[cl] = [link[cl] EXCEPT !.status = "Authorized", !.authSince = Processed]
         /\ HandlesMessage(cl, i) =>
              handled'[cl] = Append(handled[cl], [kind |-> up[cl][i].kind, id |-> up[cl][i].id, at |-> Server])
<1>1. /\ i \in DOMAIN up[cl]
      /\ up' = [up EXCEPT ![cl] = RemoveAt(@, i)]
      /\ UNCHANGED <<serverTick, world, spawned, buffer, updates, down, app, seen, seenLocally>>
  BY ReceiveCases
<1>2. up[cl] \in Seq(UpType) /\ RemoveAt(up[cl], i) \in Seq(UpType)
  BY <1>1, RemoveAtFacts DEF TypeInv
<1>3. /\ up' \in [Clients -> Seq(UpType)] /\ OthersKept(up, up', cl)
      /\ up'[cl] = RemoveAt(up[cl], i)
  BY <1>1, <1>2 DEF TypeInv, OthersKept
<1>4. CASE ChecksHash(cl, i)
  <2> DEFINE l == [link[cl] EXCEPT !.status = "Authorized", !.authSince = Processed]
  <2>1. link' = [link EXCEPT ![cl] = l]
    BY <1>4 DEF ChecksHash
  <2>2. Processed \in Nat
    BY LenProperties DEF TypeInv, ServerOrder, Processed
  <2>3. l \in LinkType
    BY <2>2 DEF TypeInv, LinkType
  <2> HIDE DEF l
  <2>4. link' \in [Clients -> LinkType] /\ OthersKept(link, link', cl) /\ link'[cl] = l
    BY <2>1, <2>3 DEF TypeInv, OthersKept
  <2>5. UNCHANGED <<toClients, written, disconnects, handled>> /\ ~HandlesMessage(cl, i)
    BY <1>4 DEF ChecksHash, HandlesMessage
  <2>6. TypeInv'
    BY <1>1, <1>3, <2>4, <2>5 DEF TypeInv
  <2> QED
    BY <1>3, <2>4, <2>5, <2>6 DEF OthersKept, l
<1>5. CASE RejectsHash(cl, i)
  <2>1. Mismatch(cl) \in WrittenType
    <3>1. IdOf(cl) \in (Clients \cup {Server, None}) \X Nat
      BY IdOfType
    <3> QED
      BY <3>1 DEF Mismatch, WrittenType, Kinds
  <2>2. written' \in Seq(WrittenType) /\ toClients' \in Seq(Nat)
    <3>1. Len(written) + 1 \in Nat
      BY LenProperties DEF TypeInv
    <3> QED
      BY <1>5, <2>1, <3>1, AppendProperties DEF TypeInv, RejectsHash
  <2>3. disconnects' \subseteq Clients /\ UNCHANGED <<link, handled>>
    BY <1>5 DEF RejectsHash, TypeInv
  <2>4. TypeInv'
    BY <1>1, <1>3, <2>2, <2>3 DEF TypeInv
  <2>5. ~ChecksHash(cl, i) \/ link'[cl] = [link[cl] EXCEPT !.status = "Authorized", !.authSince = Processed]
    <3>1. CASE ChecksHash(cl, i)
      BY <3>1 DEF ChecksHash, TypeInv
    <3> QED
      BY <3>1
  <2>6. ~HandlesMessage(cl, i)
    BY <1>5 DEF RejectsHash, HandlesMessage
  <2> QED
    BY <1>3, <2>3, <2>4, <2>5, <2>6 DEF OthersKept
<1>6. CASE HandlesMessage(cl, i)
  <2> DEFINE m == [kind |-> up[cl][i].kind, id |-> up[cl][i].id, at |-> Server]
  <2>1. up[cl][i] \in UpType
    BY <1>1, <1>2, LenProperties, ElementOfSeq
  <2>2. m \in HandledType
    BY <2>1 DEF UpType, HandledType
  <2>3. handled' = [handled EXCEPT ![cl] = Append(@, m)]
    BY <1>6 DEF HandlesMessage
  <2> HIDE DEF m
  <2>4. Append(handled[cl], m) \in Seq(HandledType)
    BY <2>2, AppendProperties DEF TypeInv
  <2>5. /\ handled' \in [Clients -> Seq(HandledType)] /\ OthersKept(handled, handled', cl)
        /\ handled'[cl] = Append(handled[cl], m)
    BY <2>3, <2>4 DEF TypeInv, OthersKept
  <2>6. UNCHANGED <<link, toClients, written, disconnects>> /\ ~ChecksHash(cl, i)
    BY <1>6 DEF HandlesMessage, ChecksHash
  <2>7. TypeInv'
    BY <1>1, <1>3, <2>5, <2>6 DEF TypeInv
  <2> QED
    BY <1>3, <2>5, <2>6, <2>7 DEF OthersKept, m
<1> QED
  BY <1>4, <1>5, <1>6, ReceiveCases

\* A step of a client that only changes its app.
LEMMA TypeApp ==
  ASSUME TypeInv, app' \in [Clients -> AppType], UNCHANGED <<serverVars, netVars, seen, seenLocally, handled>>
  PROVE  TypeInv'
BY DEF TypeInv, serverVars, netVars

LEMMA TypeOpen ==
  ASSUME TypeInv, NEW cl \in Clients, NEW protocol \in Protocols, Open(cl, protocol)
  PROVE  /\ TypeInv' /\ OthersKept(app, app', cl) /\ OthersKept(link, link', cl)
         /\ AppIs(app'[cl], "Connected", protocol, app[cl].updateTick, app[cl].replica, app[cl].queue,
                  Append(app[cl].out, [kind |-> "ProtocolHash", id |-> protocol, sent |-> FALSE]),
                  app[cl].wrote, app[cl].session + 1)
         /\ link'[cl] = [link[cl] EXCEPT !.status = "Waiting", !.session = app[cl].session + 1]
<1> DEFINE l == [link[cl] EXCEPT !.status = "Waiting", !.session = app[cl].session + 1]
<1>1. app[cl].session < MaxSession
  BY DEF Open
<1>2. /\ app' \in [Clients -> AppType] /\ OthersKept(app, app', cl)
      /\ AppIs(app'[cl], "Connected", protocol, app[cl].updateTick, app[cl].replica, app[cl].queue,
               Append(app[cl].out, [kind |-> "ProtocolHash", id |-> protocol, sent |-> FALSE]),
               app[cl].wrote, app[cl].session + 1)
  BY <1>1, OpenEffect DEF TypeInv, Open
<1>3. link' = [link EXCEPT ![cl] = l]
  BY DEF Open
<1>4. app[cl].session + 1 \in Sessions
  BY <1>1, AppTyped, MessagesAssumption DEF TypeInv, Sessions
<1>5. l \in LinkType
  BY <1>4 DEF TypeInv, LinkType
<1> HIDE DEF l
<1>6. link' \in [Clients -> LinkType] /\ OthersKept(link, link', cl) /\ link'[cl] = l
  BY <1>3, <1>5 DEF TypeInv, OthersKept
<1>7. /\ updates' \in [Clients -> Seq(UpdateType)] /\ down' \in [Clients -> Seq(PacketType)]
      /\ up' \in [Clients -> Seq(UpType)] /\ seen' \in [Clients -> Seq(Nat)]
  BY DEF Open, TypeInv
<1>8. UNCHANGED <<serverTick, world, spawned, toClients, buffer, disconnects, written, seenLocally, handled>>
  BY DEF Open
<1>9. TypeInv'
  BY <1>2, <1>6, <1>7, <1>8 DEF TypeInv
<1> QED
  BY <1>2, <1>6, <1>9 DEF l

LEMMA TypeClientDrops ==
  ASSUME TypeInv, NEW cl \in Clients, ClientDrops(cl)
  PROVE  /\ TypeInv' /\ OthersKept(app, app', cl)
         /\ AppIs(app'[cl], "Disconnected", app[cl].protocol, 0, {}, <<>>, <<>>, app[cl].wrote,
                  app[cl].session)
<1>1. /\ app' \in [Clients -> AppType] /\ OthersKept(app, app', cl)
      /\ AppIs(app'[cl], "Disconnected", app[cl].protocol, 0, {}, <<>>, <<>>, app[cl].wrote,
               app[cl].session)
  BY ResetEffect DEF TypeInv, ClientDrops
<1>2. updates' \in [Clients -> Seq(UpdateType)] /\ down' \in [Clients -> Seq(PacketType)]
  BY DEF ClientDrops, TypeInv
<1>3. UNCHANGED <<serverVars, up, seen, seenLocally, handled>>
  BY DEF ClientDrops
<1>4. TypeInv'
  BY <1>1, <1>2, <1>3 DEF TypeInv, serverVars
<1> QED
  BY <1>1, <1>4

LEMMA TypeState ==
  ASSUME TypeInv, NEW cl \in Clients, StartConnecting(cl) \/ GiveUp(cl)
  PROVE  /\ TypeInv' /\ OthersKept(app, app', cl)
         /\ app[cl].state # "Connected"
         /\ \E x \in {"Disconnected", "Connecting"} :
              AppIs(app'[cl], x, app[cl].protocol, app[cl].updateTick, app[cl].replica, app[cl].queue,
                    app[cl].out, app[cl].wrote, app[cl].session)
<1>1. \E x \in {"Disconnected", "Connecting"} : app' = [app EXCEPT ![cl].state = x]
  BY DEF StartConnecting, GiveUp
<1>2. PICK x \in {"Disconnected", "Connecting"} : app' = [app EXCEPT ![cl].state = x]
  BY <1>1
<1>3. /\ app' \in [Clients -> AppType] /\ OthersKept(app, app', cl)
      /\ AppIs(app'[cl], x, app[cl].protocol, app[cl].updateTick, app[cl].replica, app[cl].queue,
               app[cl].out, app[cl].wrote, app[cl].session)
  BY <1>2, StateEffect DEF TypeInv
<1>4. UNCHANGED <<serverVars, netVars, seen, seenLocally, handled>> /\ app[cl].state # "Connected"
  BY DEF StartConnecting, GiveUp
<1> QED
  BY <1>3, <1>4, TypeApp

LEMMA TypeClientWrite ==
  ASSUME TypeInv, NEW cl \in Clients, NEW kind \in UpKinds, ClientWrite(cl, kind)
  PROVE  /\ TypeInv' /\ OthersKept(app, app', cl)
         /\ AppIs(app'[cl], app[cl].state, app[cl].protocol, app[cl].updateTick, app[cl].replica,
                  app[cl].queue, Append(app[cl].out, [kind |-> kind, id |-> app[cl].wrote + 1, sent |-> FALSE]),
                  app[cl].wrote + 1, app[cl].session)
<1> DEFINE m == [kind |-> kind, id |-> app[cl].wrote + 1, sent |-> FALSE]
<1>1. app[cl].wrote \in 0..MaxMessages
  BY AppTyped DEF TypeInv
<1>2. app[cl].wrote < MaxMessages
  <2>1. Len(written) \in Nat /\ Len(written) + app[cl].wrote < MaxMessages
    BY LenProperties DEF TypeInv, ClientWrite, MayWrite
  <2> QED
    BY <1>1, <2>1, MessagesAssumption
<1>3. m \in OutType
  BY <1>1 DEF OutType, UpIds
<1>4. app' = [app EXCEPT ![cl].wrote = @ + 1, ![cl].out = Append(@, m)]
  BY DEF ClientWrite
<1> HIDE DEF m
<1>5. /\ app' \in [Clients -> AppType] /\ OthersKept(app, app', cl)
      /\ AppIs(app'[cl], app[cl].state, app[cl].protocol, app[cl].updateTick, app[cl].replica,
               app[cl].queue, Append(app[cl].out, m), app[cl].wrote + 1, app[cl].session)
  BY <1>2, <1>3, <1>4, WriteEffect DEF TypeInv
<1>6. UNCHANGED <<serverVars, netVars, seen, seenLocally, handled>>
  BY DEF ClientWrite
<1> QED
  BY <1>5, <1>6, TypeApp DEF m

OutIs(cl, out) ==
  AppIs(app'[cl], app[cl].state, app[cl].protocol, app[cl].updateTick, app[cl].replica, app[cl].queue,
        out, app[cl].wrote, app[cl].session)

LEMMA TypeSendRemotely ==
  ASSUME TypeInv, NEW cl \in Clients, SendRemotely(cl)
  PROVE  /\ TypeInv' /\ OthersKept(app, app', cl)
         /\ OthersKept(up, up', cl) /\ OthersKept(handled, handled', cl)
         /\ OutIs(cl, AsSent(NotSharedIn(app[cl].out)))
         /\ handled'[cl] = handled[cl] \o AsLocal(SharedIn(Unsent(app[cl].out)))
         /\ up'[cl] = up[cl] \/ up'[cl] = up[cl] \o AsUp(Unsent(app[cl].out))
<1> DEFINE out == app[cl].out
           new == Unsent(out)
           kept == AsSent(NotSharedIn(out))
           ups == IF link[cl].status = "Absent" THEN up[cl] ELSE up[cl] \o AsUp(new)
           hs == handled[cl] \o AsLocal(SharedIn(new))
<1>1. out \in Seq(OutType) /\ up[cl] \in Seq(UpType) /\ handled[cl] \in Seq(HandledType)
  BY AppTyped DEF TypeInv
<1>2. new \in Seq(OutType) /\ kept \in Seq(OutType)
  BY <1>1, UnsentFacts, NotSharedFacts, AsUpFacts
<1>3. ups \in Seq(UpType)
  <2>1. up[cl] \o AsUp(new) \in Seq(UpType)
    BY <1>1, <1>2, AsUpFacts, ConcatProperties
  <2> QED
    BY <1>1, <2>1
<1>4. hs \in Seq(HandledType)
  <2>1. AsLocal(SharedIn(new)) \in Seq(HandledType)
    BY <1>2, SharedFacts, AsLocalFacts
  <2> QED
    BY <1>1, <2>1, ConcatProperties
<1>5. /\ app' = [app EXCEPT ![cl].out = kept]
      /\ up' = [up EXCEPT ![cl] = ups]
      /\ handled' = [handled EXCEPT ![cl] = hs]
      /\ UNCHANGED <<serverVars, updates, down, seen, seenLocally>>
  BY DEF SendRemotely, AsSent, AsUp
<1>6. ups = up[cl] \/ ups = up[cl] \o AsUp(new)
  OBVIOUS
<1> HIDE DEF kept, ups, hs
<1>7. app' \in [Clients -> AppType] /\ OthersKept(app, app', cl) /\ OutIs(cl, kept)
  BY <1>2, <1>5, OutEffect DEF TypeInv, OutIs
<1>8. up' \in [Clients -> Seq(UpType)] /\ OthersKept(up, up', cl) /\ up'[cl] = ups
  BY <1>3, <1>5 DEF TypeInv, OthersKept
<1>9. handled' \in [Clients -> Seq(HandledType)] /\ OthersKept(handled, handled', cl) /\ handled'[cl] = hs
  BY <1>4, <1>5 DEF TypeInv, OthersKept
<1>10. TypeInv'
  BY <1>5, <1>7, <1>8, <1>9 DEF TypeInv, serverVars
<1> QED
  BY <1>6, <1>7, <1>8, <1>9, <1>10 DEF kept, hs

LEMMA TypeSendLocally ==
  ASSUME TypeInv, NEW cl \in Clients, SendLocally(cl)
  PROVE  /\ TypeInv' /\ OthersKept(app, app', cl) /\ OthersKept(handled, handled', cl)
         /\ OutIs(cl, <<>>)
         /\ handled'[cl] = handled[cl] \o AsLocal(app[cl].out)
<1> DEFINE hs == handled[cl] \o AsLocal(app[cl].out)
<1>1. hs \in Seq(HandledType)
  <2>1. app[cl].out \in Seq(OutType) /\ handled[cl] \in Seq(HandledType)
    BY AppTyped DEF TypeInv
  <2> QED
    BY <2>1, AsLocalFacts, ConcatProperties
<1>2. /\ app' = [app EXCEPT ![cl].out = <<>>]
      /\ handled' = [handled EXCEPT ![cl] = hs]
      /\ UNCHANGED <<serverVars, netVars, seen, seenLocally>>
  BY DEF SendLocally
<1> HIDE DEF hs
<1>3. <<>> \in Seq(OutType)
  OBVIOUS
<1>4. app' \in [Clients -> AppType] /\ OthersKept(app, app', cl) /\ OutIs(cl, <<>>)
  BY <1>2, <1>3, OutEffect DEF TypeInv, OutIs
<1>5. handled' \in [Clients -> Seq(HandledType)] /\ OthersKept(handled, handled', cl) /\ handled'[cl] = hs
  BY <1>1, <1>2 DEF TypeInv, OthersKept
<1>6. TypeInv'
  BY <1>2, <1>4, <1>5 DEF TypeInv, serverVars, netVars
<1> QED
  BY <1>4, <1>5, <1>6 DEF hs

LEMMA TypeExpire ==
  ASSUME TypeInv, NEW cl \in Clients, Expire(cl)
  PROVE  /\ TypeInv' /\ OthersKept(app, app', cl)
         /\ OutIs(cl, <<>>) \/ OutIs(cl, Unsent(app[cl].out))
<1> DEFINE out == IF app[cl].state = "Connecting" THEN <<>> ELSE Unsent(app[cl].out)
<1>1. app[cl].out \in Seq(OutType)
  BY AppTyped DEF TypeInv
<1>2. out \in Seq(OutType)
  BY <1>1, UnsentFacts
<1>3. app' = [app EXCEPT ![cl].out = out]
  BY DEF Expire
<1>4. out = <<>> \/ out = Unsent(app[cl].out)
  OBVIOUS
<1> HIDE DEF out
<1>5. app' \in [Clients -> AppType] /\ OthersKept(app, app', cl) /\ OutIs(cl, out)
  BY <1>2, <1>3, OutEffect DEF TypeInv, OutIs
<1>6. UNCHANGED <<serverVars, netVars, seen, seenLocally, handled>>
  BY DEF Expire
<1> QED
  BY <1>4, <1>5, <1>6, TypeApp

\* An update is applied: its tick, its entities, and what it was needed for.
ShownBy(cl, u) ==
  LET ready == Ids(Ready(app[cl].queue, u.tick))
  IN  Pick(ready, {i \in DOMAIN ready : Maps(u.world, ready[i])})

LEMMA ShownByFacts ==
  ASSUME TypeInv, NEW cl \in Clients, NEW u \in UpdateType
  PROVE  /\ ShownBy(cl, u) \in Seq(Nat)
         /\ \E g : Reads(g, ShownBy(cl, u), app[cl].queue, u.tick)
         /\ \A k \in DOMAIN app[cl].queue :
              app[cl].queue[k].tick <= u.tick /\ Maps(u.world, app[cl].queue[k].id) =>
                \E i \in DOMAIN ShownBy(cl, u) : ShownBy(cl, u)[i] = app[cl].queue[k].id
<1> DEFINE q == app[cl].queue
           ready == Ids(Ready(q, u.tick))
           keep == {i \in DOMAIN ready : Maps(u.world, ready[i])}
           r == Pick(ready, keep)
<1>1. q \in Seq(PacketType)
  BY AppTyped DEF TypeInv
<1>2. ready \in Seq(Nat) /\ ReadsAll(ready, q, u.tick)
  BY <1>1, ReadyFacts
<1>3. PICK f : Reads(f, ready, q, u.tick)
  BY <1>1, ReadyFacts
<1>4. ShownBy(cl, u) = r
  BY DEF ShownBy
<1>5. keep \in SUBSET DOMAIN ready
  OBVIOUS
<1> HIDE DEF q, ready, keep
<1>6. r \in Seq(Nat) /\ \E g : Reads(g, r, q, u.tick)
  BY <1>1, <1>2, <1>3, <1>5, ReadsPicked
<1>7. PICK h : /\ Thins(h, r, ready)
               /\ \A k \in keep : \E i \in DOMAIN r : h[i] = k
  BY <1>2, <1>5, PickFacts
<1> HIDE DEF r
<1>8. ASSUME NEW k \in DOMAIN q, q[k].tick <= u.tick, Maps(u.world, q[k].id)
      PROVE  \E i \in DOMAIN r : r[i] = q[k].id
  <2>1. PICK j \in DOMAIN ready : ready[j] = q[k].id
    BY <1>2, <1>8 DEF ReadsAll
  <2>2. j \in keep
    BY <1>8, <2>1 DEF keep
  <2>3. PICK i \in DOMAIN r : h[i] = j
    BY <1>7, <2>2
  <2>4. r[i] = q[k].id
    BY <1>7, <2>1, <2>3 DEF Thins
  <2> QED
    BY <2>4
<1> QED
  BY <1>4, <1>6, <1>8 DEF q

LEMMA TypeReceiveReplication ==
  ASSUME TypeInv, NEW cl \in Clients, NEW n \in DOMAIN updates[cl], ReceiveReplication(cl, n)
  PROVE  LET u == updates[cl][n]
         IN  /\ TypeInv' /\ u \in UpdateType
             /\ OthersKept(app, app', cl) /\ OthersKept(seen, seen', cl) /\ OthersKept(updates, updates', cl)
             /\ AppIs(app'[cl], app[cl].state, app[cl].protocol, u.tick, u.world,
                      Remaining(app[cl].queue, u.tick), app[cl].out, app[cl].wrote, app[cl].session)
             /\ seen'[cl] = seen[cl] \o ShownBy(cl, u)
             /\ \A i \in DOMAIN updates'[cl] : \E k \in DOMAIN updates[cl] : updates'[cl][i] = updates[cl][k]
<1> DEFINE u == updates[cl][n]
           rest == Remaining(app[cl].queue, u.tick)
           shown == seen[cl] \o ShownBy(cl, u)
           us == SubSeq(updates[cl], n + 1, Len(updates[cl]))
<1>1. /\ updates[cl] \in Seq(UpdateType) /\ Len(updates[cl]) \in Nat
      /\ DOMAIN updates[cl] = 1..Len(updates[cl]) /\ n \in 1..Len(updates[cl])
  BY LenProperties DEF TypeInv
<1>2. u \in UpdateType
  BY <1>1, ElementOfSeq
<1>3. u.tick \in Ticks /\ u.world \in SUBSET Entities
  BY <1>2 DEF UpdateType
<1>4. rest \in Seq(PacketType)
  <2>1. app[cl].queue \in Seq(PacketType)
    BY AppTyped DEF TypeInv
  <2> QED
    BY <2>1, RemainingFacts
<1>5. shown \in Seq(Nat)
  BY <1>2, ShownByFacts, ConcatProperties DEF TypeInv
<1>6. /\ us \in Seq(UpdateType)
      /\ \A i \in DOMAIN us : \E k \in DOMAIN updates[cl] : us[i] = updates[cl][k]
  <2>1. \A k \in (n + 1)..Len(updates[cl]) : updates[cl][k] \in UpdateType
    BY <1>1, ElementOfSeq
  <2>2. /\ us \in Seq(UpdateType)
        /\ Len(us) = IF n + 1 <= Len(updates[cl]) THEN Len(updates[cl]) - (n + 1) + 1 ELSE 0
        /\ \A i \in 1..(Len(updates[cl]) - (n + 1) + 1) : us[i] = updates[cl][(n + 1) + i - 1]
    BY <1>1, <2>1, SubSeqProperties
  <2> HIDE DEF us
  <2>3. DOMAIN us = 1..Len(us)
    BY <2>2, LenProperties
  <2>4. ASSUME NEW i \in DOMAIN us
        PROVE  \E k \in DOMAIN updates[cl] : us[i] = updates[cl][k]
    <3>1. n + 1 <= Len(updates[cl]) /\ i \in 1..(Len(updates[cl]) - (n + 1) + 1)
      BY <1>1, <2>2, <2>3
    <3>2. (n + 1) + i - 1 \in DOMAIN updates[cl] /\ us[i] = updates[cl][(n + 1) + i - 1]
      BY <1>1, <2>2, <3>1
    <3> QED
      BY <3>2
  <2> QED
    BY <2>2, <2>4
<1>7. /\ app' = [app EXCEPT ![cl].updateTick = u.tick, ![cl].replica = u.world, ![cl].queue = rest]
      /\ seen' = [seen EXCEPT ![cl] = shown]
      /\ updates' = [updates EXCEPT ![cl] = us]
      /\ UNCHANGED <<serverVars, down, up, seenLocally, handled>>
  BY DEF ReceiveReplication, ShownBy
<1> HIDE DEF u, rest, shown, us
<1>8. /\ app' \in [Clients -> AppType] /\ OthersKept(app, app', cl)
      /\ AppIs(app'[cl], app[cl].state, app[cl].protocol, u.tick, u.world, rest, app[cl].out,
               app[cl].wrote, app[cl].session)
  BY <1>3, <1>4, <1>7, UpdateEffect DEF TypeInv
<1>9. seen' \in [Clients -> Seq(Nat)] /\ OthersKept(seen, seen', cl) /\ seen'[cl] = shown
  BY <1>5, <1>7 DEF TypeInv, OthersKept
<1>10. updates' \in [Clients -> Seq(UpdateType)] /\ OthersKept(updates, updates', cl) /\ updates'[cl] = us
  BY <1>6, <1>7 DEF TypeInv, OthersKept
<1>11. TypeInv'
  BY <1>7, <1>8, <1>9, <1>10 DEF TypeInv, serverVars
<1> QED
  BY <1>2, <1>6, <1>8, <1>9, <1>10, <1>11 DEF u, rest, shown

\* A message leaves the network: it is queued, shown, or ignored.
Queues(cl, m) ==
  /\ m.tick > app[cl].updateTick
  /\ AppIs(app'[cl], app[cl].state, app[cl].protocol, app[cl].updateTick, app[cl].replica,
           Enqueue(app[cl].queue, m), app[cl].out, app[cl].wrote, app[cl].session)
  /\ seen' = seen
Shows(cl, m) ==
  /\ m.tick <= app[cl].updateTick
  /\ app' = app /\ seen'[cl] = Append(seen[cl], m.id)
Ignores(cl, m) ==
  /\ m.tick <= app[cl].updateTick /\ ~Maps(app[cl].replica, m.id)
  /\ app' = app /\ seen' = seen

LEMMA TypeReceiveMessage ==
  ASSUME TypeInv, NEW cl \in Clients, NEW i \in DOMAIN down[cl], ReceiveMessage(cl, i)
  PROVE  LET m == down[cl][i]
         IN  /\ TypeInv' /\ OthersKept(app, app', cl) /\ OthersKept(seen, seen', cl)
             /\ OthersKept(down, down', cl) /\ down'[cl] = RemoveAt(down[cl], i)
             /\ Queues(cl, m) \/ Shows(cl, m) \/ Ignores(cl, m)
<1> DEFINE m == down[cl][i]
<1>1. down[cl] \in Seq(PacketType) /\ app[cl].queue \in Seq(PacketType) /\ app[cl].updateTick \in Ticks
  BY AppTyped DEF TypeInv
<1>2. m \in PacketType
  BY <1>1, LenProperties, ElementOfSeq
<1>3. m.id \in Nat /\ m.tick \in Ticks
  BY <1>2 DEF PacketType
<1>4. down' = [down EXCEPT ![cl] = RemoveAt(@, i)]
  BY DEF ReceiveMessage
<1>5. /\ down' \in [Clients -> Seq(PacketType)] /\ OthersKept(down, down', cl)
      /\ down'[cl] = RemoveAt(down[cl], i)
  <2>1. RemoveAt(down[cl], i) \in Seq(PacketType)
    BY <1>1, RemoveAtFacts
  <2> QED
    BY <1>4, <2>1 DEF TypeInv, OthersKept
<1>6. UNCHANGED <<serverVars, updates, up, seenLocally, handled>>
  BY DEF ReceiveMessage
<1>7. CASE m.tick > app[cl].updateTick
  <2>1. app' = [app EXCEPT ![cl].queue = Enqueue(@, m)] /\ seen' = seen
    BY <1>7 DEF ReceiveMessage
  <2> HIDE DEF m
  <2>2. Enqueue(app[cl].queue, m) \in Seq(PacketType)
    BY <1>1, <1>2, EnqueueFacts
  <2> DEFINE queue == Enqueue(app[cl].queue, m)
  <2>3. app' = [app EXCEPT ![cl].queue = queue]
    BY <2>1
  <2> HIDE DEF queue
  <2>4. queue \in Seq(PacketType)
    BY <2>2 DEF queue
  <2>5. /\ app' \in [Clients -> AppType] /\ OthersKept(app, app', cl)
        /\ AppIs(app'[cl], app[cl].state, app[cl].protocol, app[cl].updateTick, app[cl].replica,
                 queue, app[cl].out, app[cl].wrote, app[cl].session)
    BY <2>3, <2>4, QueueEffect DEF TypeInv
  <2>6. TypeInv'
    BY <1>5, <1>6, <2>1, <2>5 DEF TypeInv, serverVars
  <2> QED
    BY <1>5, <1>7, <2>1, <2>5, <2>6 DEF OthersKept, Queues, queue, m
<1>8. CASE ~(m.tick > app[cl].updateTick)
  <2>1. m.tick <= app[cl].updateTick
    BY <1>1, <1>3, <1>8 DEF Ticks
  <2>2. /\ app' = app
        /\ seen' = IF Maps(app[cl].replica, m.id) THEN [seen EXCEPT ![cl] = Append(@, m.id)] ELSE seen
    BY <1>8 DEF ReceiveMessage
  <2> HIDE DEF m
  <2>3. CASE Maps(app[cl].replica, m.id)
    <3>1. seen' = [seen EXCEPT ![cl] = Append(@, m.id)]
      BY <2>2, <2>3
    <3>2. Append(seen[cl], m.id) \in Seq(Nat)
      BY <1>3, AppendProperties DEF TypeInv
    <3>3. seen' \in [Clients -> Seq(Nat)] /\ OthersKept(seen, seen', cl) /\ seen'[cl] = Append(seen[cl], m.id)
      BY <3>1, <3>2 DEF TypeInv, OthersKept
    <3>4. TypeInv'
      BY <1>5, <1>6, <2>2, <3>3 DEF TypeInv, serverVars
    <3> QED
      BY <1>5, <2>1, <2>2, <3>3, <3>4 DEF OthersKept, Shows, m
  <2>4. CASE ~Maps(app[cl].replica, m.id)
    <3>1. seen' = seen
      BY <2>2, <2>4
    <3>2. TypeInv'
      BY <1>5, <1>6, <2>2, <3>1 DEF TypeInv, serverVars
    <3> QED
      BY <1>5, <2>1, <2>2, <2>4, <3>1, <3>2 DEF OthersKept, Ignores, m
  <2> QED
    BY <2>3, <2>4
<1> QED
  BY <1>7, <1>8

LEMMA TypeLose ==
  ASSUME TypeInv, NEW cl \in Clients, NEW i \in DOMAIN down[cl], Lose(cl, i)
  PROVE  TypeInv' /\ OthersKept(down, down', cl) /\ down'[cl] = RemoveAt(down[cl], i)
<1>1. down[cl] \in Seq(PacketType)
  BY DEF TypeInv
<1>2. RemoveAt(down[cl], i) \in Seq(PacketType)
  BY <1>1, RemoveAtFacts
<1>3. down' = [down EXCEPT ![cl] = RemoveAt(@, i)] /\ UNCHANGED <<serverVars, updates, up, clientVars>>
  BY DEF Lose
<1>4. /\ down' \in [Clients -> Seq(PacketType)] /\ OthersKept(down, down', cl)
      /\ down'[cl] = RemoveAt(down[cl], i)
  BY <1>2, <1>3 DEF TypeInv, OthersKept
<1>5. TypeInv'
  BY <1>3, <1>4 DEF TypeInv, serverVars, clientVars
<1> QED
  BY <1>4, <1>5

-----------------------------------------------------------------------------
(* ServerOrder.                                                            *)

LEMMA Counts ==
  ASSUME TypeInv, ServerOrder
  PROVE  /\ Len(written) \in Nat /\ Len(toClients) \in Nat /\ Processed \in Nat
         /\ Processed + Len(toClients) = Len(written) /\ Processed <= Len(written)
         /\ DOMAIN toClients = 1..Len(toClients) /\ DOMAIN written = 1..Len(written)
         /\ MessageIds = 1..Len(written)
<1>1. /\ Len(written) \in Nat /\ Len(toClients) \in Nat /\ Len(toClients) <= Len(written)
      /\ DOMAIN toClients = 1..Len(toClients) /\ DOMAIN written = 1..Len(written)
  BY LenProperties DEF TypeInv, ServerOrder
<1> QED
  BY <1>1 DEF Processed, MessageIds

LEMMA OrderKept ==
  ASSUME ServerOrder, UNCHANGED <<written, toClients, buffer, seenLocally>>, spawned \subseteq spawned'
  PROVE  ServerOrder' /\ Processed' = Processed
BY DEF ServerOrder, Processed, MessageIds

\* A message is written: it is the last one, not yet processed.
Wrote(m) ==
  /\ m \in WrittenType /\ m.entity \in spawned \cup {None}
  /\ written' = Append(written, m) /\ toClients' = Append(toClients, Len(written) + 1)

LEMMA WroteFacts ==
  ASSUME TypeInv, ServerOrder, NEW m, Wrote(m)
  PROVE  /\ Len(written') = Len(written) + 1 /\ Processed' = Processed
         /\ DOMAIN written' = 1..(Len(written) + 1)
         /\ \A id \in MessageIds : written'[id] = written[id]
         /\ written'[Len(written) + 1] = m
         /\ Len(toClients') = Len(toClients) + 1
         /\ DOMAIN toClients' = 1..(Len(toClients) + 1)
         /\ \A i \in DOMAIN toClients : toClients'[i] = toClients[i]
         /\ toClients'[Len(toClients) + 1] = Len(written) + 1
<1>1. Len(written) + 1 \in Nat
  BY Counts
<1>2. /\ written' \in Seq(WrittenType) /\ Len(written') = Len(written) + 1
      /\ \A id \in 1..Len(written) : written'[id] = written[id]
      /\ written'[Len(written) + 1] = m
  BY AppendProperties DEF TypeInv, Wrote
<1>3. /\ toClients' \in Seq(Nat) /\ Len(toClients') = Len(toClients) + 1
      /\ \A i \in 1..Len(toClients) : toClients'[i] = toClients[i]
      /\ toClients'[Len(toClients) + 1] = Len(written) + 1
  BY <1>1, AppendProperties DEF TypeInv, Wrote
<1>4. DOMAIN written' = 1..Len(written') /\ DOMAIN toClients' = 1..Len(toClients')
  BY <1>2, <1>3, LenProperties
<1>5. Processed' = Processed
  BY <1>2, <1>3, Counts DEF Processed
<1> QED
  BY <1>2, <1>3, <1>4, <1>5, Counts

LEMMA OrderWrote ==
  ASSUME TypeInv, ServerOrder, NEW m, Wrote(m), UNCHANGED <<spawned, buffer, seenLocally>>
  PROVE  ServerOrder'
<1>1. /\ Len(written') = Len(written) + 1 /\ Processed' = Processed
      /\ \A id \in MessageIds : written'[id] = written[id]
      /\ written'[Len(written) + 1] = m
      /\ Len(toClients') = Len(toClients) + 1
      /\ DOMAIN toClients' = 1..(Len(toClients) + 1)
      /\ \A i \in DOMAIN toClients : toClients'[i] = toClients[i]
      /\ toClients'[Len(toClients) + 1] = Len(written) + 1
  BY WroteFacts
<1>2. /\ Len(written) \in Nat /\ Len(toClients) \in Nat /\ Processed \in Nat
      /\ Processed + Len(toClients) = Len(written) /\ Processed <= Len(written)
      /\ DOMAIN toClients = 1..Len(toClients) /\ MessageIds = 1..Len(written)
  BY Counts
<1>3. MessageIds' = 1..(Len(written) + 1) /\ MessageIds \subseteq MessageIds'
  BY <1>1, <1>2 DEF MessageIds
<1>4. Len(toClients') <= Len(written')
  BY <1>1, <1>2
<1>5. \A i \in DOMAIN toClients' : toClients'[i] = Processed' + i
  <2>1. ASSUME NEW i \in DOMAIN toClients' PROVE toClients'[i] = Processed + i
    <3>1. CASE i \in DOMAIN toClients
      BY <1>1, <3>1 DEF ServerOrder
    <3>2. CASE i = Len(toClients) + 1
      BY <1>1, <1>2, <3>2
    <3> QED
      BY <1>1, <1>2, <3>1, <3>2
  <2> QED
    BY <1>1, <2>1
<1>6. \A i \in DOMAIN seenLocally' : seenLocally'[i] \in MessageIds'
  BY <1>3 DEF ServerOrder
<1>7. \A i \in DOMAIN buffer' :
        /\ buffer'[i].id \in 1..Processed'
        /\ written'[buffer'[i].id].kind = "Dependent"
        /\ \A j \in DOMAIN buffer' : i < j => buffer'[i].id < buffer'[j].id
  <2>1. 1..Processed \subseteq MessageIds
    BY <1>2
  <2> QED
    BY <1>1, <2>1 DEF ServerOrder
<1>8. \A id \in MessageIds' : written'[id].entity \in spawned' \cup {None}
  <2>1. ASSUME NEW id \in MessageIds' PROVE written'[id].entity \in spawned \cup {None}
    <3>1. CASE id \in MessageIds
      BY <1>1, <3>1 DEF ServerOrder
    <3>2. CASE id = Len(written) + 1
      BY <1>1, <3>2 DEF Wrote
    <3> QED
      BY <1>2, <1>3, <3>1, <3>2
  <2> QED
    BY <2>1
<1> QED
  BY <1>4, <1>5, <1>6, <1>7, <1>8 DEF ServerOrder

\* What is written, by the application and by the protocol check.
LEMMA WriteWrote ==
  ASSUME TypeInv, NEW kind \in Kinds, NEW targets \in Targets, NEW e \in Entities \cup {None},
         Write(kind, targets, e)
  PROVE  /\ Wrote([kind |-> kind, entity |-> e,
                   targets |-> [to |-> targets.to, who |-> IdOf(targets.who)]])
         /\ UNCHANGED <<serverTick, world, spawned, buffer, link, disconnects, netVars, clientVars>>
         /\ targets.who \in Clients => targets.who \in Connected
<1>1. targets.to \in {"All", "AllExcept", "Single"} /\ targets.who \in Clients \cup {Server, None}
  BY MessagesAssumption
<1>2. IdOf(targets.who) \in (Clients \cup {Server, None}) \X Nat
  BY <1>1, IdOfType
<1>3. e \in spawned \cup {None}
  BY DEF Write, TypeInv
<1> DEFINE m == [kind |-> kind, entity |-> e, targets |-> [to |-> targets.to, who |-> IdOf(targets.who)]]
<1>4. m \in WrittenType /\ m.entity \in spawned \cup {None}
  BY <1>1, <1>2, <1>3 DEF WrittenType
<1>5. written' = Append(written, m) /\ toClients' = Append(toClients, Len(written) + 1)
  BY DEF Write
<1>6. /\ UNCHANGED <<serverTick, world, spawned, buffer, link, disconnects, netVars, clientVars>>
      /\ targets.who \in Clients => targets.who \in Connected
  BY DEF Write
<1> HIDE DEF m
<1>7. Wrote(m)
  BY <1>4, <1>5 DEF Wrote
<1> QED
  BY <1>6, <1>7 DEF m

LEMMA MismatchWrote ==
  ASSUME TypeInv, NEW cl \in Clients, NEW i, RejectsHash(cl, i)
  PROVE  Wrote(Mismatch(cl))
<1>1. IdOf(cl) \in (Clients \cup {Server, None}) \X Nat
  BY IdOfType
<1>2. Mismatch(cl) \in WrittenType /\ Mismatch(cl).entity = None
  BY <1>1 DEF Mismatch, WrittenType, Kinds
<1> QED
  BY <1>2 DEF Wrote, RejectsHash

LEMMA OrderFrame ==
  ASSUME TypeInv, ServerOrder, NEW ticks \in BOOLEAN, ServerFrame(ticks)
  PROVE  ServerOrder' /\ Processed' = Len(written) /\ MessageIds' = MessageIds
<1>1. toClients' = <<>> /\ UNCHANGED <<written, spawned>>
  BY DEF ServerFrame
<1>2. Processed' = Len(written) /\ Len(toClients') = 0 /\ DOMAIN toClients' = {} /\ MessageIds' = MessageIds
  BY <1>1, Counts DEF Processed, MessageIds
<1>3. \A i \in DOMAIN seenLocally' : seenLocally'[i] \in MessageIds
  <2>1. /\ seenLocally' = seenLocally \o ShownLocally
        /\ seenLocally \in Seq(MessageIds) /\ ShownLocally \in Seq(MessageIds)
    <3>1. seenLocally \in Seq(MessageIds)
      <4>1. /\ Len(seenLocally) \in Nat /\ DOMAIN seenLocally = 1..Len(seenLocally)
            /\ seenLocally \in [1..Len(seenLocally) -> Nat]
        BY LenProperties DEF TypeInv
      <4>2. seenLocally \in [1..Len(seenLocally) -> MessageIds]
        BY <4>1 DEF ServerOrder
      <4> QED
        BY <4>1, <4>2, SeqDef
    <3>2. ShownLocally \in Seq(MessageIds)
      <4>1. /\ Len(ShownLocally) \in Nat /\ DOMAIN ShownLocally = 1..Len(ShownLocally)
            /\ ShownLocally \in [1..Len(ShownLocally) -> Nat]
        BY ShownLocallyFacts, LenProperties
      <4>2. ShownLocally \in [1..Len(ShownLocally) -> MessageIds]
        BY <4>1, ShownLocallyFacts
      <4> QED
        BY <4>1, <4>2, SeqDef
    <3> QED
      BY <3>1, <3>2 DEF ServerFrame
  <2>2. seenLocally' \in Seq(MessageIds)
    BY <2>1, ConcatProperties
  <2> QED
    BY <2>2, LenProperties, ElementOfSeq
<1>4. \A i \in DOMAIN buffer' :
        /\ buffer'[i].id \in 1..Processed'
        /\ written'[buffer'[i].id].kind = "Dependent"
        /\ \A j \in DOMAIN buffer' : i < j => buffer'[i].id < buffer'[j].id
  <2>1. CASE ticks
    BY <2>1 DEF ServerFrame
  <2>2. CASE ~ticks
    <3>1. buffer' = Buffered
      BY <2>2 DEF ServerFrame
    <3> QED
      BY <1>1, <1>2, <3>1, BufferedFacts DEF Increasing
  <2> QED
    BY <2>1, <2>2
<1> QED
  BY <1>1, <1>2, <1>3, <1>4, Counts DEF ServerOrder

LEMMA OrderRestart ==
  ASSUME TypeInv, ServerOrder, Restart
  PROVE  ServerOrder' /\ Processed' = Len(written) /\ MessageIds' = MessageIds
<1>1. toClients' = <<>> /\ buffer' = <<>> /\ UNCHANGED <<written, spawned>>
  BY DEF Restart
<1>2. Processed' = Len(written) /\ Len(toClients') = 0 /\ DOMAIN toClients' = {} /\ MessageIds' = MessageIds
  BY <1>1, Counts DEF Processed, MessageIds
<1>3. \A i \in DOMAIN seenLocally' : seenLocally'[i] \in MessageIds
  <2>1. /\ seenLocally' = seenLocally \o ShownLocally
        /\ seenLocally \in Seq(Nat) /\ ShownLocally \in Seq(Nat)
    BY ShownLocallyFacts DEF Restart, TypeInv
  <2>2. /\ Len(seenLocally) \in Nat /\ Len(ShownLocally) \in Nat
        /\ DOMAIN seenLocally = 1..Len(seenLocally) /\ DOMAIN ShownLocally = 1..Len(ShownLocally)
    BY <2>1, LenProperties
  <2>3. /\ seenLocally' \in Seq(Nat) /\ Len(seenLocally') = Len(seenLocally) + Len(ShownLocally)
        /\ \A i \in 1..(Len(seenLocally) + Len(ShownLocally)) :
             seenLocally'[i] = IF i <= Len(seenLocally) THEN seenLocally[i] ELSE ShownLocally[i - Len(seenLocally)]
    BY <2>1, ConcatProperties
  <2>4. DOMAIN seenLocally' = 1..(Len(seenLocally) + Len(ShownLocally))
    BY <2>3, LenProperties
  <2>5. ASSUME NEW i \in DOMAIN seenLocally' PROVE seenLocally'[i] \in MessageIds
    <3>1. CASE i <= Len(seenLocally)
      <4>1. i \in DOMAIN seenLocally /\ seenLocally'[i] = seenLocally[i]
        BY <2>2, <2>3, <2>4, <3>1
      <4> QED
        BY <4>1 DEF ServerOrder
    <3>2. CASE ~(i <= Len(seenLocally))
      <4>1. i - Len(seenLocally) \in 1..Len(ShownLocally)
        BY <2>2, <2>4, <3>2
      <4>2. seenLocally'[i] = ShownLocally[i - Len(seenLocally)]
        BY <2>3, <2>4, <3>2
      <4> QED
        BY <2>2, <4>1, <4>2, ShownLocallyFacts
    <3> QED
      BY <3>1, <3>2
  <2> QED
    BY <2>5
<1> QED
  BY <1>1, <1>2, <1>3, Counts DEF ServerOrder

LEMMA OrderAccept ==
  ASSUME TypeInv, ServerOrder, NEW cl \in Clients, Accept(cl)
  PROVE  /\ ServerOrder' /\ Processed' = Processed
         /\ DOMAIN buffer' = DOMAIN buffer
         /\ \A i \in DOMAIN buffer :
              buffer'[i].id = buffer[i].id /\ buffer'[i].excluded = buffer[i].excluded \cup {cl}
<1>1. \A i \in DOMAIN buffer : buffer[i] \in StoredType
  BY LenProperties, ElementOfSeq DEF TypeInv
<1>2. /\ DOMAIN buffer' = DOMAIN buffer
      /\ \A i \in DOMAIN buffer :
           buffer'[i].id = buffer[i].id /\ buffer'[i].excluded = buffer[i].excluded \cup {cl}
  BY <1>1 DEF Accept, ExcludeClient, StoredType
<1>3. UNCHANGED <<spawned, toClients, written, seenLocally>>
  BY DEF Accept, clientVars
<1> QED
  BY <1>2, <1>3 DEF ServerOrder, Processed, MessageIds

-----------------------------------------------------------------------------
(* What holds of each client, when something around it changes.            *)

\* A message is written that names no session the client has not had.
LEMMA EndsMeetWrote ==
  ASSUME NEW w, NEW v, NEW n \in Nat, NEW tick, NEW alive, NEW b, NEW cl, NEW l, NEW a, NEW us, NEW s, NEW d,
         EndsMeet(w, n, tick, alive, b, cl, l, a, us, s, d),
         \A id \in 1..n : v[id] = w[id], \A k \in DOMAIN b : b[k].id \in 1..n,
         TargetInv(v, cl, l, a)
  PROVE  EndsMeet(v, n, tick, alive, b, cl, l, a, us, s, d)
<1>1. Line(w, n, a.updateTick, s, a.queue, d) /\ BehindLine(w, s, a.queue, d, b)
  BY DEF EndsMeet
<1>2. Line(v, n, a.updateTick, s, a.queue, d)
  <2>1. n <= n
    OBVIOUS
  <2> QED
    BY <1>1, <2>1, LineGrows
<1>3. /\ \A i \in DOMAIN s : s[i] \in 1..n
      /\ \A i \in DOMAIN a.queue : a.queue[i].id \in 1..n
      /\ \A i \in DOMAIN d : d[i].id \in 1..n
  BY <1>1 DEF Line
<1>4. BehindLine(v, s, a.queue, d, b)
  BY <1>1, <1>3 DEF BehindLine
<1>5. Mappable(v, alive, l, a, us, d)
  BY <1>3 DEF EndsMeet, Mappable, MapsOnTime
<1>6. Kept(v, n, alive, b, cl, l, a, s, d)
  BY DEF EndsMeet, Kept, Due, IsFor
<1> QED
  BY <1>2, <1>4, <1>5, <1>6 DEF EndsMeet

\* The entities of processed messages that exist are among those that existed.
LEMMA EndsMeetAlive ==
  ASSUME NEW w, NEW n, NEW tick, NEW alive, NEW b, NEW cl, NEW l, NEW a, NEW us, NEW s, NEW d,
         EndsMeet(w, n, tick, alive, b, cl, l, a, us, s, d),
         NEW remain, \A id \in 1..n : w[id].entity \in remain => w[id].entity \in alive
  PROVE  EndsMeet(w, n, tick, remain, b, cl, l, a, us, s, d)
<1>1. /\ \A i \in DOMAIN a.queue : a.queue[i].id \in 1..n
      /\ \A i \in DOMAIN d : d[i].id \in 1..n
  BY DEF EndsMeet, Line
<1>2. Mappable(w, remain, l, a, us, d)
  BY <1>1 DEF EndsMeet, Mappable, MapsOnTime
<1>3. Kept(w, n, remain, b, cl, l, a, s, d)
  BY DEF EndsMeet, Kept, Due
<1> QED
  BY <1>2, <1>3 DEF EndsMeet

\* What the client sends has nothing to do with it, nor has its state while it
\* is not connected.
SameReceiver(a, o) ==
  /\ o.updateTick = a.updateTick /\ o.replica = a.replica /\ o.queue = a.queue /\ o.session = a.session
  /\ o.state = a.state \/ (a.state # "Connected" /\ o.state # "Connected")

LEMMA EndsMeetApp ==
  ASSUME NEW w, NEW n, NEW tick, NEW alive, NEW b, NEW cl, NEW l, NEW a, NEW us, NEW s, NEW d,
         EndsMeet(w, n, tick, alive, b, cl, l, a, us, s, d), NEW o, SameReceiver(a, o)
  PROVE  EndsMeet(w, n, tick, alive, b, cl, l, o, us, s, d)
<1>1. TargetInv(w, cl, l, o)
  BY DEF EndsMeet, TargetInv, SameReceiver
<1>2. EndInv(n, tick, l, o, s, d)
  BY DEF EndsMeet, EndInv, SameReceiver
<1>3. Line(w, n, o.updateTick, s, o.queue, d) /\ BehindLine(w, s, o.queue, d, b)
  BY DEF EndsMeet, SameReceiver
<1>4. Audience(b, cl, l, o, s, d)
  BY DEF EndsMeet, Audience, SameReceiver
<1>5. Mappable(w, alive, l, o, us, d)
  BY DEF EndsMeet, Mappable, MapsOnTime, SameReceiver
<1>6. Kept(w, n, alive, b, cl, l, o, s, d)
  BY DEF EndsMeet, Kept, SameReceiver
<1> QED
  BY <1>1, <1>2, <1>3, <1>4, <1>5, <1>6 DEF EndsMeet

\* The server no longer has the client: it dropped it, or runs again.
LEMMA EndsMeetGone ==
  ASSUME NEW w, NEW n \in Nat, NEW k \in Nat, n <= k, NEW tick, NEW t \in Nat, NEW alive, NEW b, NEW cl,
         NEW l, NEW a, NEW us, NEW s, NEW d,
         EndsMeet(w, n, tick, alive, b, cl, l, a, us, s, d), NEW c, c = b \/ c = <<>>
  PROVE  EndsMeet(w, k, t, alive, c, cl, NoLink, a, us, s, d)
<1>1. /\ NoLink.status = "Absent" /\ NoLink.updateTick = 0 /\ NoLink.since = 0 /\ NoLink.authSince = 0
  BY DEF NoLink
<1> HIDE DEF NoLink
<1>2. TargetInv(w, cl, NoLink, a)
  BY <1>1 DEF EndsMeet, TargetInv
<1>3. EndInv(k, t, NoLink, a, s, d)
  BY <1>1 DEF EndsMeet, EndInv
<1>4. Line(w, k, a.updateTick, s, a.queue, d)
  BY LineGrows DEF EndsMeet
<1>5. BehindLine(w, s, a.queue, d, c)
  <2>1. CASE c = b
    BY <2>1 DEF EndsMeet
  <2>2. CASE c = <<>>
    BY <2>2 DEF BehindLine
  <2> QED
    BY <2>1, <2>2
<1>6. Audience(c, cl, NoLink, a, s, d) /\ Mappable(w, alive, NoLink, a, us, d) /\ Kept(w, k, alive, c, cl, NoLink, a, s, d)
  BY <1>1 DEF Audience, Mappable, Kept
<1> QED
  BY <1>2, <1>3, <1>4, <1>5, <1>6 DEF EndsMeet

\* A client is excluded from what the buffer has.
LEMMA EndsMeetExcluded ==
  ASSUME NEW w, NEW n, NEW tick, NEW alive, NEW b, NEW cl, NEW l, NEW a, NEW us, NEW s, NEW d,
         EndsMeet(w, n, tick, alive, b, cl, l, a, us, s, d),
         NEW o, o # cl, NEW c, DOMAIN c = DOMAIN b,
         \A k \in DOMAIN b : c[k].id = b[k].id /\ c[k].excluded = b[k].excluded \cup {o}
  PROVE  EndsMeet(w, n, tick, alive, c, cl, l, a, us, s, d)
<1>1. BehindLine(w, s, a.queue, d, c)
  BY DEF EndsMeet, BehindLine
<1>2. Audience(c, cl, l, a, s, d)
  BY DEF EndsMeet, Audience
<1>3. Kept(w, n, alive, c, cl, l, a, s, d)
  <2>1. \A id : Stored(id, b, cl) => Stored(id, c, cl)
    BY DEF Stored
  <2> QED
    BY <2>1 DEF EndsMeet, Kept
<1> QED
  BY <1>1, <1>2, <1>3 DEF EndsMeet

\* The server accepts the client: nothing is on the line, and the buffer
\* excludes it.
LEMMA EndsMeetAccepted ==
  ASSUME NEW w, NEW n \in Nat, NEW tick, NEW alive, NEW b, NEW cl, NEW l \in LinkType, NEW a,
         NEW us, NEW s, NEW d,
         EndsMeet(w, n, tick, alive, b, cl, l, a, us, s, d), l.status = "Waiting",
         NEW m, m.status = "Connected", m.since = n, m.session = l.session,
         m.updateTick = l.updateTick, m.known = l.known, m.authSince = l.authSince,
         NEW c, DOMAIN c = DOMAIN b,
         \A k \in DOMAIN b : c[k].id = b[k].id /\ c[k].excluded = b[k].excluded \cup {cl}
  PROVE  EndsMeet(w, n, tick, alive, c, cl, m, a, us, s, d)
<1>1. /\ m.status = "Connected" /\ m.since = n /\ m.session = l.session /\ m.updateTick = l.updateTick
      /\ m.known = l.known /\ m.authSince = l.authSince
  OBVIOUS
<1>2. s = <<>> /\ a.queue = <<>> /\ d = <<>>
  BY DEF EndsMeet, EndInv
<1>3. TargetInv(w, cl, m, a)
  BY <1>1 DEF EndsMeet, TargetInv
<1>4. EndInv(n, tick, m, a, s, d)
  BY <1>1, <1>2 DEF EndsMeet, EndInv
<1>5. BehindLine(w, s, a.queue, d, c)
  BY <1>2 DEF BehindLine
<1>6. Audience(c, cl, m, a, s, d)
  BY <1>2 DEF Audience, NewerThan
<1>7. Mappable(w, alive, m, a, us, d)
  BY <1>1 DEF EndsMeet, Mappable, UpToDate
<1>8. Kept(w, n, alive, c, cl, m, a, s, d)
  BY <1>1 DEF Kept
<1> QED
  BY <1>3, <1>4, <1>5, <1>6, <1>7, <1>8 DEF EndsMeet

\* The client becomes authorized: what it must not miss starts now.
LEMMA EndsMeetAuthorized ==
  ASSUME NEW w, NEW n \in Nat, NEW tick, NEW alive, NEW b, NEW cl, NEW l \in LinkType, NEW a,
         NEW us, NEW s, NEW d,
         EndsMeet(w, n, tick, alive, b, cl, l, a, us, s, d), l.status \in {"Connected", "Authorized"},
         NEW m, m = [l EXCEPT !.status = "Authorized", !.authSince = n]
  PROVE  EndsMeet(w, n, tick, alive, b, cl, m, a, us, s, d)
<1>1. /\ m.status = "Authorized" /\ m.authSince = n /\ m.session = l.session /\ m.updateTick = l.updateTick
      /\ m.known = l.known /\ m.since = l.since
  BY DEF LinkType
<1>2. TargetInv(w, cl, m, a)
  BY <1>1 DEF EndsMeet, TargetInv
<1>3. EndInv(n, tick, m, a, s, d)
  BY <1>1 DEF EndsMeet, EndInv
<1>4. Audience(b, cl, m, a, s, d)
  BY <1>1 DEF EndsMeet, Audience
<1>5. Mappable(w, alive, m, a, us, d)
  BY <1>1 DEF EndsMeet, Mappable, UpToDate
<1>6. Kept(w, n, alive, b, cl, m, a, s, d)
  <2>1. \A id \in 1..n : ~(m.authSince < id)
    BY <1>1
  <2> QED
    BY <2>1 DEF Kept, Due
<1> QED
  BY <1>2, <1>3, <1>4, <1>5, <1>6 DEF EndsMeet

\* A new connection starts with nothing on its way and nothing shown.
LEMMA EndsMeetOpened ==
  ASSUME NEW w \in Seq(WrittenType), NEW n, NEW tick \in Nat, NEW alive, NEW b, NEW cl, NEW l \in LinkType,
         NEW a \in AppType, NEW us, NEW s, NEW d,
         EndsMeet(w, n, tick, alive, b, cl, l, a, us, s, d), l.status = "Absent", a.state # "Connected",
         NEW o, o.state = "Connected", o.updateTick = a.updateTick, o.replica = a.replica, o.queue = a.queue,
         o.session = a.session + 1,
         NEW m, m = [l EXCEPT !.status = "Waiting", !.session = a.session + 1]
  PROVE  EndsMeet(w, n, tick, alive, b, cl, m, o, <<>>, <<>>, <<>>)
<1>1. /\ m.status = "Waiting" /\ m.session = a.session + 1 /\ m.updateTick = l.updateTick
      /\ m.known = l.known /\ m.since = l.since /\ m.authSince = l.authSince
  BY DEF LinkType
<1>2. l = NoLink /\ l.updateTick = 0 /\ l.known = {}
  BY DEF EndsMeet, EndInv, NoLink
<1>3. o.updateTick = 0 /\ o.replica = {} /\ o.queue = <<>>
  BY DEF EndsMeet, EndInv
<1>4. a.session \in Nat
  BY MessagesAssumption DEF AppType, Sessions
<1>5. TargetInv(w, cl, m, o)
  <2>1. ASSUME NEW id \in DOMAIN w, Addressee(w, id, cl)
        PROVE  1 <= w[id].targets.who[2] /\ w[id].targets.who[2] <= o.session /\ w[id].targets.who[2] < o.session
    <3>1. 1 <= w[id].targets.who[2] /\ w[id].targets.who[2] <= a.session
      BY <2>1 DEF EndsMeet, TargetInv
    <3>2. w[id].targets.who[2] \in Nat
      <4>1. w[id] \in WrittenType
        BY LenProperties, ElementOfSeq
      <4>2. w[id].targets.who \in (Clients \cup {Server, None}) \X Nat
        BY <4>1 DEF WrittenType
      <4> QED
        BY <4>2
    <3> QED
      BY <1>4, <3>1, <3>2
  <2> QED
    BY <2>1 DEF TargetInv
<1>6. EndInv(n, tick, m, o, <<>>, <<>>)
  BY <1>1, <1>2, <1>3, <1>4 DEF EndsMeet, EndInv
<1>7. Line(w, n, o.updateTick, <<>>, o.queue, <<>>)
  BY <1>3 DEF Line, Ascending, AscendingPackets, AllBefore, AllPrecede
<1>8. BehindLine(w, <<>>, o.queue, <<>>, b)
  BY <1>3 DEF BehindLine
<1>9. Audience(b, cl, m, o, <<>>, <<>>) /\ Kept(w, n, alive, b, cl, m, o, <<>>, <<>>)
  BY <1>1 DEF Audience, Kept
<1>10. Mappable(w, alive, m, o, <<>>, <<>>)
  BY <1>1, <1>2, <1>3 DEF Mappable, UpToDate, MapsOnTime
<1> QED
  BY <1>5, <1>6, <1>7, <1>8, <1>9, <1>10 DEF EndsMeet

\* The client drops the connection: what was on its way and queued is cleared.
LEMMA EndsMeetReset ==
  ASSUME NEW w, NEW n \in Nat, NEW tick, NEW alive, NEW b, NEW cl, NEW l, NEW a,
         NEW us, NEW s, NEW d, EndsMeet(w, n, tick, alive, b, cl, l, a, us, s, d),
         NEW o, o.state = "Disconnected", o.updateTick = 0, o.replica = {}, o.queue = <<>>,
         o.session = a.session
  PROVE  EndsMeet(w, n, tick, alive, b, cl, l, o, <<>>, s, <<>>)
<1>1. TargetInv(w, cl, l, o)
  BY DEF EndsMeet, TargetInv
<1>2. EndInv(n, tick, l, o, s, <<>>)
  BY DEF EndsMeet, EndInv
<1>3. Line(w, n, o.updateTick, s, o.queue, <<>>)
  BY DEF EndsMeet, Line, Ascending, AscendingPackets, AllBefore, AllPrecede
<1>4. BehindLine(w, s, o.queue, <<>>, b)
  BY DEF EndsMeet, BehindLine
<1>5. Audience(b, cl, l, o, s, <<>>)
  BY DEF EndsMeet, Audience, NewerThan
<1>6. Mappable(w, alive, l, o, <<>>, <<>>) /\ Kept(w, n, alive, b, cl, l, o, s, <<>>)
  BY DEF Mappable, Kept
<1> QED
  BY <1>1, <1>2, <1>3, <1>4, <1>5, <1>6 DEF EndsMeet

\* The entries of an appended and of a joined sequence.
LEMMA AppendAdds ==
  ASSUME NEW S, NEW s \in Seq(S), NEW m \in S
  PROVE  Append(s, m) \in Seq(S) /\ Adds(Append(s, m), s, m)
<1>1. /\ Append(s, m) \in Seq(S) /\ Len(Append(s, m)) = Len(s) + 1
      /\ \A i \in 1..Len(s) : Append(s, m)[i] = s[i]
      /\ Append(s, m)[Len(s) + 1] = m
  BY AppendProperties
<1>2. /\ Len(s) \in Nat /\ DOMAIN s = 1..Len(s) /\ DOMAIN Append(s, m) = 1..(Len(s) + 1)
  BY <1>1, LenProperties
<1> QED
  BY <1>1, <1>2 DEF Adds

Joins(r, s, t) ==
  /\ \A i \in DOMAIN r : (\E j \in DOMAIN s : r[i] = s[j]) \/ (\E j \in DOMAIN t : r[i] = t[j])
  /\ \A j \in DOMAIN s : \E i \in DOMAIN r : r[i] = s[j]
  /\ \A j \in DOMAIN t : \E i \in DOMAIN r : r[i] = t[j]

LEMMA ConcatJoins ==
  ASSUME NEW S, NEW s \in Seq(S), NEW t \in Seq(S)
  PROVE  s \o t \in Seq(S) /\ Joins(s \o t, s, t)
<1> DEFINE r == s \o t
<1>1. /\ r \in Seq(S) /\ Len(r) = Len(s) + Len(t)
      /\ \A i \in 1..(Len(s) + Len(t)) : r[i] = IF i <= Len(s) THEN s[i] ELSE t[i - Len(s)]
  BY ConcatProperties
<1> HIDE DEF r
<1>2. /\ Len(s) \in Nat /\ DOMAIN s = 1..Len(s) /\ Len(t) \in Nat /\ DOMAIN t = 1..Len(t)
      /\ DOMAIN r = 1..(Len(s) + Len(t))
  BY <1>1, LenProperties
<1>3. ASSUME NEW i \in DOMAIN r PROVE (\E j \in DOMAIN s : r[i] = s[j]) \/ (\E j \in DOMAIN t : r[i] = t[j])
  <2>1. CASE i <= Len(s)
    BY <1>1, <1>2, <2>1
  <2>2. CASE ~(i <= Len(s))
    <3>1. i - Len(s) \in DOMAIN t /\ r[i] = t[i - Len(s)]
      BY <1>1, <1>2, <2>2
    <3> QED
      BY <3>1
  <2> QED
    BY <2>1, <2>2
<1>4. ASSUME NEW j \in DOMAIN s PROVE \E i \in DOMAIN r : r[i] = s[j]
  <2>1. j \in DOMAIN r /\ r[j] = s[j]
    BY <1>1, <1>2
  <2> QED
    BY <2>1
<1>5. ASSUME NEW j \in DOMAIN t PROVE \E i \in DOMAIN r : r[i] = t[j]
  <2>1. Len(s) + j \in DOMAIN r /\ ~(Len(s) + j <= Len(s)) /\ (Len(s) + j) - Len(s) = j
    BY <1>2
  <2>2. r[Len(s) + j] = t[j]
    BY <1>1, <1>2, <2>1
  <2> QED
    BY <2>1, <2>2
<1>6. r \in Seq(S) /\ Joins(r, s, t)
  BY <1>1, <1>3, <1>4, <1>5 DEF Joins
<1> QED
  BY <1>6 DEF r

\* A message leaves the network.  What follows from the ones that stay.
Leaves(f, e, d, p) ==
  /\ Thins(f, e, d)
  /\ \A k \in DOMAIN d : k # p => \E i \in DOMAIN e : f[i] = k
  /\ \A i \in DOMAIN e : f[i] # p

LEMMA EndsMeetThinned ==
  ASSUME NEW w, NEW n, NEW tick, NEW alive, NEW b, NEW cl, NEW l, NEW a, NEW us, NEW s, NEW d,
         EndsMeet(w, n, tick, alive, b, cl, l, a, us, s, d),
         NEW p \in DOMAIN d, NEW e, NEW f, Leaves(f, e, d, p),
         l.status = "Authorized" => ~Due(w, d[p].id, alive, <<cl, l.session>>, l.authSince)
  PROVE  EndsMeet(w, n, tick, alive, b, cl, l, a, us, s, e)
<1>1. \A i \in DOMAIN e : f[i] \in DOMAIN d /\ e[i] = d[f[i]]
  BY DEF Leaves, Thins
<1>2. l.status # "Waiting"
  BY DEF EndsMeet, EndInv
<1>3. EndInv(n, tick, l, a, s, e)
  BY <1>1, <1>2 DEF EndsMeet, EndInv
<1>4. Line(w, n, a.updateTick, s, a.queue, e)
  BY LineThinned DEF EndsMeet, Leaves
<1>5. BehindLine(w, s, a.queue, e, b)
  BY <1>1 DEF EndsMeet, BehindLine
<1>6. Audience(b, cl, l, a, s, e)
  BY <1>1 DEF EndsMeet, Audience, NewerThan
<1>7. Mappable(w, alive, l, a, us, e)
  BY <1>1 DEF EndsMeet, Mappable, MapsOnTime
<1>8. Kept(w, n, alive, b, cl, l, a, s, e)
  <2>1. \A id : OnLine(id, s, a.queue, d) => OnLine(id, s, a.queue, e) \/ id = d[p].id
    BY DEF OnLine, Leaves, Thins
  <2> QED
    BY <2>1 DEF EndsMeet, Kept
<1> QED
  BY <1>3, <1>4, <1>5, <1>6, <1>7, <1>8 DEF EndsMeet

\* It is put in the queue of the client, which waits for the update.
LEMMA EndsMeetQueued ==
  ASSUME NEW w, NEW n \in Nat, NEW tick, NEW alive, NEW b, NEW cl, NEW l, NEW a \in AppType,
         NEW us, NEW s \in Seq(Nat), NEW d \in Seq(PacketType),
         EndsMeet(w, n, tick, alive, b, cl, l, a, us, s, d), a.state = "Connected",
         NEW p \in DOMAIN d, NEW e, NEW f, Leaves(f, e, d, p), FirstOnChannel(w, d, p),
         d[p].tick > a.updateTick,
         NEW o, o.state = a.state, o.updateTick = a.updateTick, o.replica = a.replica, o.session = a.session,
         o.queue = Enqueue(a.queue, d[p])
  PROVE  EndsMeet(w, n, tick, alive, b, cl, l, o, us, s, e)
<1>1. \A i \in DOMAIN e : f[i] \in DOMAIN d /\ e[i] = d[f[i]]
  BY DEF Leaves, Thins
<1>2. l.status # "Waiting"
  BY DEF EndsMeet, EndInv
<1>3. d[p] \in PacketType
  BY LenProperties, ElementOfSeq
<1>4. a.queue \in Seq(PacketType) /\ a.updateTick \in Nat
  BY MessagesAssumption DEF AppType, Ticks
<1>5. Adds(o.queue, a.queue, d[p])
  BY <1>3, <1>4, EnqueueFacts
<1>6. \A i \in DOMAIN o.queue : o.queue[i] = d[p] \/ \E j \in DOMAIN a.queue : o.queue[i] = a.queue[j]
  BY <1>5 DEF Adds
<1>7. Line(w, n, o.updateTick, s, o.queue, e)
  <2>1. Line(w, n, a.updateTick, s, a.queue, d) /\ Thins(f, e, d) /\ \A i \in DOMAIN e : f[i] # p
    BY DEF EndsMeet, Leaves
  <2> QED
    BY <1>4, <2>1, LineQueued
<1>8. w[d[p].id].kind = "Dependent"
  <2>1. w[d[p].id].kind # "Dependent" => d[p].tick = 0
    BY DEF EndsMeet, Line
  <2>2. ~(0 > a.updateTick)
    BY <1>4
  <2> QED
    BY <2>1, <2>2
<1>9. TargetInv(w, cl, l, o)
  BY DEF EndsMeet, TargetInv
<1>10. EndInv(n, tick, l, o, s, e)
  BY <1>1, <1>2, <1>6 DEF EndsMeet, EndInv
<1>11. BehindLine(w, s, o.queue, e, b)
  BY <1>1, <1>6, <1>8 DEF EndsMeet, BehindLine
<1>12. Audience(b, cl, l, o, s, e)
  BY <1>1, <1>6 DEF EndsMeet, Audience, NewerThan
<1>13. Mappable(w, alive, l, o, us, e)
  <2> SUFFICES ASSUME o.state = "Connected" /\ l.status # "Absent"
               PROVE  /\ UpToDate(l, o.updateTick, o.replica)
                      /\ \A k \in DOMAIN us : UpToDate(l, us[k].tick, us[k].world)
                      /\ MapsOnTime(w, alive, o, us, o.queue) /\ MapsOnTime(w, alive, o, us, e)
    BY DEF Mappable
  <2>1. /\ UpToDate(l, a.updateTick, a.replica)
        /\ \A k \in DOMAIN us : UpToDate(l, us[k].tick, us[k].world)
        /\ MapsOnTime(w, alive, a, us, a.queue) /\ MapsOnTime(w, alive, a, us, d)
    BY DEF EndsMeet, Mappable
  <2>2. MapsOnTime(w, alive, o, us, o.queue)
    BY <1>6, <2>1 DEF MapsOnTime
  <2>3. MapsOnTime(w, alive, o, us, e)
    BY <1>1, <2>1 DEF MapsOnTime
  <2> QED
    BY <2>1, <2>2, <2>3
<1>14. Kept(w, n, alive, b, cl, l, o, s, e)
  <2>1. \A id : OnLine(id, s, a.queue, d) => OnLine(id, s, o.queue, e)
    BY <1>5 DEF OnLine, Leaves, Thins, Adds
  <2> QED
    BY <2>1 DEF EndsMeet, Kept
<1> QED
  BY <1>7, <1>9, <1>10, <1>11, <1>12, <1>13, <1>14 DEF EndsMeet

\* It is shown at once.
LEMMA EndsMeetShown ==
  ASSUME NEW w, NEW n \in Nat, NEW tick, NEW alive, NEW b, NEW cl, NEW l, NEW a \in AppType,
         NEW us, NEW s \in Seq(Nat), NEW d \in Seq(PacketType),
         EndsMeet(w, n, tick, alive, b, cl, l, a, us, s, d),
         NEW p \in DOMAIN d, NEW e, NEW f, Leaves(f, e, d, p), FirstOnChannel(w, d, p),
         d[p].tick <= a.updateTick
  PROVE  EndsMeet(w, n, tick, alive, b, cl, l, a, us, Append(s, d[p].id), e)
<1> DEFINE r == Append(s, d[p].id)
<1>1. \A i \in DOMAIN e : f[i] \in DOMAIN d /\ e[i] = d[f[i]]
  BY DEF Leaves, Thins
<1>2. l.status # "Waiting"
  BY DEF EndsMeet, EndInv
<1>3. d[p].id \in Nat
  <2>1. d[p] \in PacketType
    BY LenProperties, ElementOfSeq
  <2> QED
    BY <2>1 DEF PacketType
<1>4. a.queue \in Seq(PacketType) /\ a.updateTick \in Nat
  BY MessagesAssumption DEF AppType, Ticks
<1>5. Line(w, n, a.updateTick, r, a.queue, e)
  <2>1. Line(w, n, a.updateTick, s, a.queue, d) /\ Thins(f, e, d) /\ \A i \in DOMAIN e : f[i] # p
    BY DEF EndsMeet, Leaves
  <2> QED
    BY <1>4, <2>1, LineShown
<1>6. Adds(r, s, d[p].id)
  BY <1>3, AppendAdds
<1> HIDE DEF r
<1>7. \A i \in DOMAIN r : r[i] = d[p].id \/ \E j \in DOMAIN s : r[i] = s[j]
  BY <1>6 DEF Adds
<1>8. EndInv(n, tick, l, a, r, e)
  BY <1>1, <1>2 DEF EndsMeet, EndInv
<1>9. BehindLine(w, r, a.queue, e, b)
  <2>1. BehindLine(w, s, a.queue, d, b)
    BY DEF EndsMeet
  <2>2. ASSUME NEW k \in DOMAIN b, NEW i \in DOMAIN r, w[r[i]].kind = "Dependent"
        PROVE  r[i] < b[k].id
    <3>1. CASE r[i] = d[p].id
      <4>1. w[d[p].id].kind = "Dependent" => d[p].id < b[k].id
        BY <2>1 DEF BehindLine
      <4> QED
        BY <2>2, <3>1, <4>1
    <3>2. ASSUME NEW j \in DOMAIN s, r[i] = s[j] PROVE r[i] < b[k].id
      <4>1. w[s[j]].kind = "Dependent" => s[j] < b[k].id
        BY <2>1 DEF BehindLine
      <4> QED
        BY <2>2, <3>2, <4>1
    <3> QED
      BY <1>7, <3>1, <3>2
  <2>3. ASSUME NEW k \in DOMAIN b, NEW i \in DOMAIN e, w[e[i].id].kind = "Dependent"
        PROVE  e[i].id < b[k].id
    BY <1>1, <2>1, <2>3 DEF BehindLine
  <2>4. \A k \in DOMAIN b : \A i \in DOMAIN a.queue : a.queue[i].id < b[k].id
    BY <2>1 DEF BehindLine
  <2> QED
    BY <2>2, <2>3, <2>4 DEF BehindLine
<1>10. Audience(b, cl, l, a, r, e)
  BY <1>1, <1>7 DEF EndsMeet, Audience, NewerThan
<1>11. Mappable(w, alive, l, a, us, e)
  BY <1>1 DEF EndsMeet, Mappable, MapsOnTime
<1>12. Kept(w, n, alive, b, cl, l, a, r, e)
  <2>1. \A id : OnLine(id, s, a.queue, d) => OnLine(id, r, a.queue, e)
    BY <1>6 DEF OnLine, Leaves, Thins, Adds
  <2> QED
    BY <2>1 DEF EndsMeet, Kept
<1>13. EndsMeet(w, n, tick, alive, b, cl, l, a, us, r, e)
  BY <1>5, <1>8, <1>9, <1>10, <1>11, <1>12 DEF EndsMeet
<1> QED
  BY <1>13 DEF r

LEMMA NoEntries ==
  ASSUME NEW S, NEW s \in Seq(S), DOMAIN s = {}
  PROVE  s = <<>>
<1>1. Len(s) \in Nat /\ DOMAIN s = 1..Len(s)
  BY LenProperties
<1>2. Len(s) = 0
  <2>1. ~(1 <= Len(s))
    BY <1>1
  <2> QED
    BY <1>1, <2>1
<1> QED
  BY <1>2, EmptySeq

\* The client applies an update u, and what waited for it is shown (r).
Applies(w, u, a, o, us, vs, r) ==
  /\ \E g : Reads(g, r, a.queue, u.tick)
  /\ \A i \in DOMAIN a.queue :
       a.queue[i].tick <= u.tick /\ w[a.queue[i].id].entity \in u.world \cup {None} =>
         \E j \in DOMAIN r : r[j] = a.queue[i].id
  /\ \E f : Thins(f, o.queue, a.queue)
  /\ \A i \in DOMAIN o.queue : o.queue[i].tick > u.tick
  /\ \A i \in DOMAIN a.queue : a.queue[i].tick > u.tick => \E j \in DOMAIN o.queue : o.queue[j] = a.queue[i]
  /\ o.state = a.state /\ o.updateTick = u.tick /\ o.replica = u.world /\ o.session = a.session
  /\ \A i \in DOMAIN vs : \E j \in DOMAIN us : vs[i] = us[j]

LEMMA EndsMeetUpdated ==
  ASSUME NEW w, NEW n \in Nat, NEW tick, NEW alive, NEW b, NEW cl, NEW l, NEW a \in AppType,
         NEW us, NEW s \in Seq(Nat), NEW d \in Seq(PacketType),
         EndsMeet(w, n, tick, alive, b, cl, l, a, us, s, d), a.state = "Connected",
         NEW k \in DOMAIN us, us[k].tick \in Nat, NEW r \in Seq(Nat), NEW rest \in Seq(PacketType),
         NEW o, o.queue = rest, NEW vs, Applies(w, us[k], a, o, us, vs, r)
  PROVE  EndsMeet(w, n, tick, alive, b, cl, l, o, vs, s \o r, d)
<1>a. /\ \A i \in DOMAIN a.queue :
           a.queue[i].tick <= us[k].tick /\ w[a.queue[i].id].entity \in us[k].world \cup {None} =>
             \E j \in DOMAIN r : r[j] = a.queue[i].id
      /\ \A i \in DOMAIN rest : rest[i].tick > us[k].tick
      /\ \A i \in DOMAIN a.queue : a.queue[i].tick > us[k].tick => \E j \in DOMAIN rest : rest[j] = a.queue[i]
      /\ o.state = a.state /\ o.updateTick = us[k].tick /\ o.replica = us[k].world /\ o.session = a.session
      /\ \A i \in DOMAIN vs : \E j \in DOMAIN us : vs[i] = us[j]
  BY DEF Applies
<1>b. PICK g : Reads(g, r, a.queue, us[k].tick)
  BY DEF Applies
<1>c. PICK f : Thins(f, rest, a.queue)
  BY DEF Applies
<1> USE <1>a, <1>b, <1>c
<1> DEFINE z == s \o r
<1>1. z \in Seq(Nat) /\ Joins(z, s, r)
  BY ConcatJoins
<1>2. \A i \in DOMAIN rest : \E j \in DOMAIN a.queue : rest[i] = a.queue[j]
  BY DEF Thins
<1>3. \A i \in DOMAIN r : \E j \in DOMAIN a.queue : r[i] = a.queue[j].id /\ a.queue[j].tick <= us[k].tick
  BY DEF Reads
<1>4. Line(w, n, us[k].tick, z, rest, d)
  <2>1. Line(w, n, a.updateTick, s, a.queue, d) /\ a.queue \in Seq(PacketType)
    BY DEF EndsMeet, AppType
  <2> QED
    BY <2>1, LineReady
<1> HIDE DEF z
<1>5. \A i \in DOMAIN z : (\E j \in DOMAIN s : z[i] = s[j]) \/ (\E j \in DOMAIN a.queue : z[i] = a.queue[j].id)
  <2>1. ASSUME NEW i \in DOMAIN z, NEW j \in DOMAIN r, z[i] = r[j]
        PROVE  \E m \in DOMAIN a.queue : z[i] = a.queue[m].id
    BY <1>3, <2>1
  <2>2. \A i \in DOMAIN z : (\E j \in DOMAIN s : z[i] = s[j]) \/ (\E j \in DOMAIN r : z[i] = r[j])
    BY <1>1 DEF Joins
  <2> QED
    BY <2>1, <2>2
<1>6. EndInv(n, tick, l, o, z, d)
  <2>1. ASSUME l.status = "Waiting" PROVE z = <<>> /\ rest = <<>> /\ d = <<>>
    <3>1. s = <<>> /\ a.queue = <<>> /\ d = <<>>
      BY <2>1 DEF EndsMeet, EndInv
    <3>2. DOMAIN s = {} /\ DOMAIN a.queue = {}
      BY <3>1
    <3>3. DOMAIN z = {} /\ DOMAIN rest = {}
      BY <1>2, <1>5, <3>2
    <3> QED
      BY <1>1, <3>1, <3>3, NoEntries
  <2> QED
    BY <1>2, <2>1 DEF EndsMeet, EndInv
<1>7. BehindLine(w, z, rest, d, b)
  <2>1. BehindLine(w, s, a.queue, d, b)
    BY DEF EndsMeet
  <2>2. ASSUME NEW m \in DOMAIN b, NEW i \in DOMAIN z, w[z[i]].kind = "Dependent"
        PROVE  z[i] < b[m].id
    <3>1. ASSUME NEW j \in DOMAIN s, z[i] = s[j] PROVE z[i] < b[m].id
      <4>1. w[s[j]].kind = "Dependent" => s[j] < b[m].id
        BY <2>1 DEF BehindLine
      <4> QED
        BY <2>2, <3>1, <4>1
    <3>2. ASSUME NEW j \in DOMAIN a.queue, z[i] = a.queue[j].id PROVE z[i] < b[m].id
      <4>1. a.queue[j].id < b[m].id
        BY <2>1 DEF BehindLine
      <4> QED
        BY <3>2, <4>1
    <3> QED
      BY <1>5, <3>1, <3>2
  <2>3. \A m \in DOMAIN b : \A i \in DOMAIN rest : rest[i].id < b[m].id
    BY <1>2, <2>1 DEF BehindLine
  <2>4. \A m \in DOMAIN b : \A i \in DOMAIN d : w[d[i].id].kind = "Dependent" => d[i].id < b[m].id
    BY <2>1 DEF BehindLine
  <2> QED
    BY <2>2, <2>3, <2>4 DEF BehindLine
<1>8. TargetInv(w, cl, l, o)
  BY DEF EndsMeet, TargetInv
<1>9. Audience(b, cl, l, o, z, d)
  <2>1. ASSUME l.status \in {"Connected", "Authorized"} PROVE NewerThan(l.since, z, rest, d)
    <3>1. NewerThan(l.since, s, a.queue, d)
      BY <2>1 DEF EndsMeet, Audience
    <3>2. \A i \in DOMAIN z : z[i] > l.since
      BY <1>5, <3>1 DEF NewerThan
    <3>3. \A i \in DOMAIN rest : rest[i].id > l.since
      BY <1>2, <3>1 DEF NewerThan
    <3> QED
      BY <3>1, <3>2, <3>3 DEF NewerThan
  <2> QED
    BY <2>1 DEF EndsMeet, Audience
<1>10. Mappable(w, alive, l, o, vs, d)
  <2>1. ASSUME l.status # "Absent"
        PROVE  /\ UpToDate(l, a.updateTick, a.replica) /\ \A i \in DOMAIN us : UpToDate(l, us[i].tick, us[i].world)
               /\ MapsOnTime(w, alive, a, us, a.queue) /\ MapsOnTime(w, alive, a, us, d)
    BY <2>1 DEF EndsMeet, Mappable
  <2>2. ASSUME NEW ps, MapsOnTime(w, alive, a, us, ps) PROVE MapsOnTime(w, alive, o, vs, ps)
    BY <2>2 DEF MapsOnTime
  <2>3. ASSUME MapsOnTime(w, alive, o, vs, a.queue) PROVE MapsOnTime(w, alive, o, vs, rest)
    <3>1. ASSUME NEW i \in DOMAIN rest, w[rest[i].id].kind = "Dependent", w[rest[i].id].entity \in alive
          PROVE  /\ rest[i].tick <= o.updateTick => w[rest[i].id].entity \in o.replica
                 /\ \A m \in DOMAIN vs : rest[i].tick <= vs[m].tick => w[rest[i].id].entity \in vs[m].world
      <4>1. PICK j \in DOMAIN a.queue : rest[i] = a.queue[j]
        BY <1>2
      <4>2. w[a.queue[j].id].kind = "Dependent" /\ w[a.queue[j].id].entity \in alive
        BY <3>1, <4>1
      <4>3. /\ a.queue[j].tick <= o.updateTick => w[a.queue[j].id].entity \in o.replica
            /\ \A m \in DOMAIN vs : a.queue[j].tick <= vs[m].tick => w[a.queue[j].id].entity \in vs[m].world
        BY <2>3, <4>2 DEF MapsOnTime
      <4> QED
        BY <4>1, <4>3
    <3> QED
      BY <3>1 DEF MapsOnTime
  <2> QED
    BY <2>1, <2>2, <2>3 DEF Mappable
<1>11. Kept(w, n, alive, b, cl, l, o, z, d)
  <2>1. ASSUME l.status = "Authorized", NEW id \in 1..n, Due(w, id, alive, <<cl, l.session>>, l.authSince)
        PROVE  OnLine(id, z, rest, d) \/ Stored(id, b, cl)
    <3>1. OnLine(id, s, a.queue, d) \/ Stored(id, b, cl)
      BY <2>1 DEF EndsMeet, Kept
    <3>2. ASSUME NEW i \in DOMAIN a.queue, a.queue[i].id = id PROVE OnLine(id, z, rest, d)
      <4>1. CASE a.queue[i].tick > us[k].tick
        BY <3>2, <4>1 DEF OnLine
      <4>2. CASE ~(a.queue[i].tick > us[k].tick)
        <5>1. a.queue[i].tick <= us[k].tick
          <6>1. a.queue[i] \in PacketType
            BY LenProperties, ElementOfSeq DEF AppType
          <6>2. a.queue[i].tick \in Nat
            BY <6>1, MessagesAssumption DEF PacketType, Ticks
          <6> QED
            BY <4>2, <6>2
        <5>2. w[id].entity \in us[k].world \cup {None}
          <6>1. MapsOnTime(w, alive, a, us, a.queue)
            BY <2>1 DEF EndsMeet, Mappable
          <6> QED
            BY <2>1, <3>2, <5>1, <6>1 DEF MapsOnTime, Due
        <5>3. \E j \in DOMAIN r : r[j] = id
          BY <3>2, <5>1, <5>2
        <5> QED
          BY <1>1, <5>3 DEF Joins, OnLine
      <4> QED
        BY <4>1, <4>2
    <3>3. (\E i \in DOMAIN s : s[i] = id) => \E i \in DOMAIN z : z[i] = id
      BY <1>1 DEF Joins
    <3> QED
      BY <3>1, <3>2, <3>3 DEF OnLine
  <2> QED
    BY <2>1 DEF Kept
<1>12. EndsMeet(w, n, tick, alive, b, cl, l, o, vs, z, d)
  BY <1>4, <1>6, <1>7, <1>8, <1>9, <1>10, <1>11 DEF EndsMeet
<1> QED
  BY <1>12 DEF z

\* A frame of the server, first part: what was written is processed.  The
\* independent messages are sent (e), the dependent ones buffered (c).
Processes(w, n, k, cl, l, b, c, e) ==
  /\ n <= k
  /\ \A i \in DOMAIN e : e[i].id \in (n + 1)..k /\ e[i].tick = 0 /\ w[e[i].id].kind # "Dependent"
  /\ Increasing(e)
  /\ l.status \in {"Absent", "Waiting"} => e = <<>>
  /\ \A i \in DOMAIN c : (\E j \in DOMAIN b : c[i] = b[j]) \/ c[i].id > n
  /\ \A j \in DOMAIN b : \E i \in DOMAIN c : c[i] = b[j]
  /\ \A id \in (n + 1)..k :
       IF w[id].kind = "Dependent" THEN \E i \in DOMAIN c : c[i].id = id /\ c[i].excluded = {}
       ELSE IsFor(w, id, <<cl, l.session>>) /\ l.status = "Authorized" => \E i \in DOMAIN e : e[i].id = id

LEMMA EndsMeetProcessed ==
  ASSUME NEW w, NEW n \in Nat, NEW k \in Nat, NEW tick, NEW alive, NEW b, NEW cl, NEW l \in LinkType,
         NEW a, NEW us, NEW s, NEW d \in Seq(PacketType),
         EndsMeet(w, n, tick, alive, b, cl, l, a, us, s, d),
         NEW c \in Seq(StoredType), NEW e \in Seq(PacketType), Processes(w, n, k, cl, l, b, c, e)
  PROVE  EndsMeet(w, k, tick, alive, c, cl, l, a, us, s, d \o e)
<1> DEFINE z == d \o e
<1>1. z \in Seq(PacketType) /\ Joins(z, d, e)
  BY ConcatJoins
<1>2. \A i \in DOMAIN z : (\E j \in DOMAIN d : z[i] = d[j]) \/ (\E j \in DOMAIN e : z[i] = e[j])
  BY <1>1 DEF Joins
<1>3. Line(w, n, a.updateTick, s, a.queue, d) /\ n <= k
  BY DEF EndsMeet, Processes
<1>4. /\ \A i \in DOMAIN s : s[i] \in 1..n
      /\ \A i \in DOMAIN a.queue : a.queue[i].id \in 1..n /\ w[a.queue[i].id].kind = "Dependent"
      /\ \A i \in DOMAIN d : d[i].id \in 1..n /\ (w[d[i].id].kind # "Dependent" => d[i].tick = 0)
  BY <1>3 DEF Line
<1>5. \A i \in DOMAIN e : /\ e[i].id \in (n + 1)..k /\ e[i].id \in 1..k /\ e[i].tick = 0
                          /\ w[e[i].id].kind # "Dependent"
  BY DEF Processes
<1>6. Line(w, k, a.updateTick, s, a.queue, d)
  BY <1>3, LineGrows
<1>7. AscendingPackets(w, e)
  <2>1. ASSUME NEW i \in DOMAIN e, NEW j \in DOMAIN e, i < j PROVE Precedes(w, e[i], e[j])
    <3>1. e[i].id < e[j].id
      BY <2>1 DEF Processes, Increasing
    <3>2. e[i].tick = 0 /\ e[j].tick = 0
      BY <1>5
    <3>3. 0 <= 0
      OBVIOUS
    <3> QED
      BY <3>1, <3>2, <3>3 DEF Precedes
  <2> QED
    BY <2>1 DEF AscendingPackets
<1>8. \A x, y : x \in 1..n /\ y \in (n + 1)..k => x < y
  OBVIOUS
<1>9. AllBefore(w, s, e)
  BY <1>4, <1>5, <1>8 DEF AllBefore
<1>10. AllPrecede(w, a.queue, e)
  BY <1>4, <1>5 DEF AllPrecede, Precedes, Chained
<1>11. AllPrecede(w, d, e)
  <2>1. ASSUME NEW i \in DOMAIN d, NEW j \in DOMAIN e, Chained(w, d[i].id, e[j].id)
        PROVE  d[i].id < e[j].id /\ d[i].tick <= e[j].tick
    <3>1. w[d[i].id].kind # "Dependent"
      BY <1>5, <2>1 DEF Chained
    <3>2. d[i].tick = 0 /\ e[j].tick = 0 /\ d[i].id \in 1..n /\ e[j].id \in (n + 1)..k
      BY <1>4, <1>5, <3>1
    <3>3. d[i].id < e[j].id
      BY <1>8, <3>2
    <3>4. 0 <= 0
      OBVIOUS
    <3> QED
      BY <3>2, <3>3, <3>4
  <2> QED
    BY <2>1 DEF AllPrecede, Precedes
<1>12. Line(w, k, a.updateTick, s, a.queue, z)
  BY <1>5, <1>6, <1>7, <1>9, <1>10, <1>11, LineSent
<1> HIDE DEF z
<1>13. l.status # "Absent" => z = d \/ l.status # "Waiting"
  <2>1. ASSUME l.status = "Waiting" PROVE z = d
    <3>1. DOMAIN e = {} /\ DOMAIN d = {}
      BY <2>1 DEF Processes, EndsMeet, EndInv
    <3>2. DOMAIN z = {}
      BY <1>2, <3>1
    <3> QED
      BY <1>1, <3>1, <3>2, NoEntries
  <2> QED
    BY <2>1
<1>14. l.updateTick \in Nat /\ l.since \in Nat /\ l.authSince \in Nat
  BY MessagesAssumption DEF LinkType, Ticks
<1>15. EndInv(k, tick, l, a, s, z)
  <2>1. ASSUME l.status # "Absent", NEW i \in DOMAIN z PROVE z[i].tick <= l.updateTick
    <3>1. 0 <= l.updateTick
      BY <1>14
    <3> QED
      BY <1>2, <1>5, <2>1, <3>1 DEF EndsMeet, EndInv
  <2>2. l.since <= k /\ l.authSince <= k
    <3>1. l.since <= n /\ l.authSince <= n
      BY DEF EndsMeet, EndInv
    <3> QED
      BY <1>3, <1>14, <3>1
  <2>3. l.status = "Waiting" => z = d
    BY <1>13
  <2> QED
    BY <2>1, <2>2, <2>3 DEF EndsMeet, EndInv
<1>16. BehindLine(w, s, a.queue, z, c)
  <2>1. BehindLine(w, s, a.queue, d, b)
    BY DEF EndsMeet
  <2>2. ASSUME NEW i \in DOMAIN c
        PROVE  \/ \E j \in DOMAIN b : c[i].id = b[j].id
               \/ \A x \in 1..n : x < c[i].id
    <3>1. c[i].id \in Nat
      <4>1. c[i] \in StoredType
        BY LenProperties, ElementOfSeq
      <4> QED
        BY <4>1 DEF StoredType
    <3>2. c[i].id > n => \A x \in 1..n : x < c[i].id
      BY <3>1
    <3> QED
      BY <3>2 DEF Processes
  <2>3. ASSUME NEW i \in DOMAIN c
        PROVE  /\ \A j \in DOMAIN s : w[s[j]].kind = "Dependent" => s[j] < c[i].id
               /\ \A j \in DOMAIN a.queue : a.queue[j].id < c[i].id
               /\ \A j \in DOMAIN d : w[d[j].id].kind = "Dependent" => d[j].id < c[i].id
    BY <1>4, <2>1, <2>2 DEF BehindLine
  <2>4. ASSUME NEW i \in DOMAIN c, NEW j \in DOMAIN z, w[z[j].id].kind = "Dependent"
        PROVE  z[j].id < c[i].id
    <3>1. PICK m \in DOMAIN d : z[j] = d[m]
      BY <1>2, <1>5, <2>4
    <3> QED
      BY <2>3, <2>4, <3>1
  <2> QED
    BY <2>3, <2>4 DEF BehindLine
<1>17. Audience(c, cl, l, a, s, z)
  <2>1. ASSUME l.status \in {"Connected", "Authorized"} PROVE NewerThan(l.since, s, a.queue, z)
    <3>1. NewerThan(l.since, s, a.queue, d) /\ l.since <= n
      BY <2>1 DEF EndsMeet, Audience, EndInv
    <3>2. \A i \in DOMAIN e : e[i].id > l.since
      BY <1>5, <1>14, <3>1
    <3>3. \A i \in DOMAIN z : z[i].id > l.since
      BY <1>2, <3>1, <3>2 DEF NewerThan
    <3> QED
      BY <3>1, <3>3 DEF NewerThan
  <2>2. ASSUME l.status \in {"Connected", "Authorized"}, NEW i \in DOMAIN c, c[i].id <= l.since
        PROVE  cl \in c[i].excluded
    <3>1. c[i].id \in Nat
      <4>1. c[i] \in StoredType
        BY LenProperties, ElementOfSeq
      <4> QED
        BY <4>1 DEF StoredType
    <3>2. l.since <= n
      BY DEF EndsMeet, EndInv
    <3>3. ~(c[i].id > n)
      BY <1>14, <2>2, <3>1, <3>2
    <3>4. PICK j \in DOMAIN b : c[i] = b[j]
      BY <3>3 DEF Processes
    <3> QED
      BY <2>2, <3>4 DEF EndsMeet, Audience
  <2> QED
    BY <2>1, <2>2 DEF Audience
<1>18. Mappable(w, alive, l, a, us, z)
  <2>1. ASSUME MapsOnTime(w, alive, a, us, d) PROVE MapsOnTime(w, alive, a, us, z)
    <3>1. ASSUME NEW i \in DOMAIN z, w[z[i].id].kind = "Dependent", w[z[i].id].entity \in alive
          PROVE  /\ z[i].tick <= a.updateTick => w[z[i].id].entity \in a.replica
                 /\ \A m \in DOMAIN us : z[i].tick <= us[m].tick => w[z[i].id].entity \in us[m].world
      <4>1. PICK m \in DOMAIN d : z[i] = d[m]
        BY <1>2, <1>5, <3>1
      <4> QED
        BY <2>1, <3>1, <4>1 DEF MapsOnTime
    <3> QED
      BY <3>1 DEF MapsOnTime
  <2> QED
    BY <2>1 DEF EndsMeet, Mappable
<1>19. Kept(w, k, alive, c, cl, l, a, s, z)
  <2>1. ASSUME l.status = "Authorized", a.state = "Connected", NEW id \in 1..k,
               Due(w, id, alive, <<cl, l.session>>, l.authSince)
        PROVE  OnLine(id, s, a.queue, z) \/ Stored(id, c, cl)
    <3>1. CASE id \in 1..n
      <4>1. OnLine(id, s, a.queue, d) \/ Stored(id, b, cl)
        BY <2>1, <3>1 DEF EndsMeet, Kept
      <4>2. OnLine(id, s, a.queue, d) => OnLine(id, s, a.queue, z)
        BY <1>1 DEF Joins, OnLine
      <4>3. Stored(id, b, cl) => Stored(id, c, cl)
        BY DEF Processes, Stored
      <4> QED
        BY <4>1, <4>2, <4>3
    <3>2. CASE id \in (n + 1)..k
      <4>1. CASE w[id].kind = "Dependent"
        BY <3>2, <4>1 DEF Processes, Stored
      <4>2. CASE w[id].kind # "Dependent"
        <5>1. \E i \in DOMAIN e : e[i].id = id
          BY <2>1, <3>2, <4>2 DEF Processes, Due
        <5> QED
          BY <1>1, <5>1 DEF Joins, OnLine
      <4> QED
        BY <4>1, <4>2
    <3> QED
      BY <1>3, <3>1, <3>2
  <2> QED
    BY <2>1 DEF Kept
<1>20. EndsMeet(w, k, tick, alive, c, cl, l, a, us, s, z)
  BY <1>12, <1>15, <1>16, <1>17, <1>18, <1>19 DEF EndsMeet
<1> QED
  BY <1>20 DEF z

\* Second part, when the tick is incremented: an authorized client that lacks
\* something is sent an update, and the buffer is sent (e) with the tick of it.
Updated(l, m, us, vs, tick, alive) ==
  \/ /\ l.status = "Authorized" /\ m.updateTick = tick + 1 /\ m.known = alive
     /\ m.status = l.status /\ m.session = l.session /\ m.since = l.since /\ m.authSince = l.authSince
     /\ \A i \in DOMAIN vs : (\E j \in DOMAIN us : vs[i] = us[j]) \/ (vs[i].tick = tick + 1 /\ vs[i].world = alive)
  \/ m = l /\ vs = us /\ (l.status = "Authorized" => l.known = alive)
SendsBuffer(w, cl, l, t, b, e) ==
  /\ \A i \in DOMAIN e : e[i].tick = t /\ l.status = "Authorized" /\ Stored(e[i].id, b, cl)
  /\ Increasing(e)
  /\ \A id : l.status = "Authorized" /\ Stored(id, b, cl) /\ IsFor(w, id, <<cl, l.session>>) =>
       \E i \in DOMAIN e : e[i].id = id

\* Its update tick grows with what it was sent.
Advances(l, m, us, vs, tick, alive) ==
  /\ m.status = l.status /\ m.session = l.session /\ m.since = l.since /\ m.authSince = l.authSince
  /\ m.updateTick \in Nat /\ l.updateTick <= m.updateTick /\ m.updateTick <= tick + 1
  /\ l.updateTick = m.updateTick => m = l /\ vs = us
  /\ l.status = "Authorized" => m.known = alive
  /\ \A i \in DOMAIN vs : \/ \E j \in DOMAIN us : vs[i] = us[j]
                          \/ vs[i].tick = m.updateTick /\ vs[i].world = alive /\ m.known = alive

LEMMA UpdatedFacts ==
  ASSUME NEW tick \in Nat, NEW alive, NEW l \in LinkType, NEW m, NEW us, NEW vs,
         Updated(l, m, us, vs, tick, alive), l.updateTick <= tick
  PROVE  Advances(l, m, us, vs, tick, alive)
<1>1. l.updateTick \in Nat
  BY MessagesAssumption DEF LinkType, Ticks
<1>2. CASE m = l /\ vs = us /\ (l.status = "Authorized" => l.known = alive)
  BY <1>1, <1>2 DEF Advances
<1>3. CASE ~(m = l /\ vs = us /\ (l.status = "Authorized" => l.known = alive))
  <2>1. /\ l.status = "Authorized" /\ m.updateTick = tick + 1 /\ m.known = alive
        /\ m.status = l.status /\ m.session = l.session /\ m.since = l.since /\ m.authSince = l.authSince
        /\ \A i \in DOMAIN vs : (\E j \in DOMAIN us : vs[i] = us[j]) \/ (vs[i].tick = tick + 1 /\ vs[i].world = alive)
    BY <1>3 DEF Updated
  <2>2. tick + 1 \in Nat /\ l.updateTick <= tick + 1 /\ l.updateTick # tick + 1
    BY <1>1
  <2>3. m.updateTick <= tick + 1
    BY <2>1, <2>2
  <2> QED
    BY <2>1, <2>2, <2>3 DEF Advances
<1> QED
  BY <1>2, <1>3

\* A client that has what is current has the entities that exist.
LEMMA MappableUpdated ==
  ASSUME NEW w, NEW tick \in Nat, NEW alive, NEW l \in LinkType, NEW a \in AppType, NEW us \in Seq(UpdateType),
         NEW d, NEW m, NEW vs, Updated(l, m, us, vs, tick, alive), l.updateTick <= tick,
         Mappable(w, alive, l, a, us, d),
         NEW z, \A i \in DOMAIN z :
           (\E j \in DOMAIN d : z[i] = d[j]) \/ (z[i].tick = m.updateTick /\ l.status = "Authorized")
  PROVE  Mappable(w, alive, m, a, vs, z)
<1>1. /\ m.status = l.status /\ m.session = l.session /\ m.since = l.since /\ m.authSince = l.authSince
      /\ m.updateTick \in Nat /\ l.updateTick <= m.updateTick /\ m.updateTick <= tick + 1
      /\ l.updateTick = m.updateTick => m = l /\ vs = us
      /\ l.status = "Authorized" => m.known = alive
      /\ \A i \in DOMAIN vs : \/ \E j \in DOMAIN us : vs[i] = us[j]
                              \/ vs[i].tick = m.updateTick /\ vs[i].world = alive /\ m.known = alive
  <2>1. Advances(l, m, us, vs, tick, alive)
    BY UpdatedFacts
  <2> QED
    BY <2>1 DEF Advances
<1>2. l.updateTick \in Nat /\ a.updateTick \in Nat
  BY MessagesAssumption DEF LinkType, AppType, Ticks
<1>3. \A i \in DOMAIN us : us[i].tick \in Nat
  <2>1. \A i \in DOMAIN us : us[i] \in UpdateType
    BY LenProperties, ElementOfSeq
  <2> QED
    BY <2>1, MessagesAssumption DEF UpdateType, Ticks
<1>4. ASSUME a.state = "Connected", m.status # "Absent"
      PROVE  /\ UpToDate(m, a.updateTick, a.replica)
             /\ \A n \in DOMAIN vs : UpToDate(m, vs[n].tick, vs[n].world)
             /\ MapsOnTime(w, alive, a, vs, a.queue) /\ MapsOnTime(w, alive, a, vs, z)
  <2>1. /\ UpToDate(l, a.updateTick, a.replica)
        /\ \A n \in DOMAIN us : UpToDate(l, us[n].tick, us[n].world)
        /\ MapsOnTime(w, alive, a, us, a.queue) /\ MapsOnTime(w, alive, a, us, d)
    BY <1>1, <1>4 DEF Mappable
  <2>2. ASSUME NEW t \in Nat, NEW r, UpToDate(l, t, r) PROVE UpToDate(m, t, r)
    <3>1. t <= l.updateTick /\ (t = l.updateTick => r = l.known)
      BY <2>2 DEF UpToDate
    <3>2. t <= m.updateTick
      BY <1>1, <1>2, <3>1
    <3>3. ASSUME t = m.updateTick PROVE r = m.known
      <4>1. l.updateTick = m.updateTick
        BY <1>1, <1>2, <3>1, <3>3
      <4> QED
        BY <1>1, <3>1, <3>3, <4>1
    <3> QED
      BY <3>2, <3>3 DEF UpToDate
  <2>3. UpToDate(m, a.updateTick, a.replica)
    BY <1>2, <2>1, <2>2
  <2>4. \A n \in DOMAIN vs : UpToDate(m, vs[n].tick, vs[n].world)
    <3>1. ASSUME NEW n \in DOMAIN vs PROVE UpToDate(m, vs[n].tick, vs[n].world)
      <4>1. CASE \E j \in DOMAIN us : vs[n] = us[j]
        <5>1. PICK j \in DOMAIN us : vs[n] = us[j]
          BY <4>1
        <5> QED
          BY <1>3, <2>1, <2>2, <5>1
      <4>2. CASE vs[n].tick = m.updateTick /\ vs[n].world = alive /\ m.known = alive
        <5>1. m.updateTick <= m.updateTick
          BY <1>1
        <5> QED
          BY <4>2, <5>1 DEF UpToDate
      <4> QED
        BY <1>1, <4>1, <4>2
    <3> QED
      BY <3>1
  <2>5. ASSUME NEW ps, MapsOnTime(w, alive, a, us, ps) PROVE MapsOnTime(w, alive, a, vs, ps)
    <3>1. ASSUME NEW i \in DOMAIN ps, w[ps[i].id].kind = "Dependent", w[ps[i].id].entity \in alive
          PROVE  /\ ps[i].tick <= a.updateTick => w[ps[i].id].entity \in a.replica
                 /\ \A n \in DOMAIN vs : ps[i].tick <= vs[n].tick => w[ps[i].id].entity \in vs[n].world
      <4>1. /\ ps[i].tick <= a.updateTick => w[ps[i].id].entity \in a.replica
            /\ \A n \in DOMAIN us : ps[i].tick <= us[n].tick => w[ps[i].id].entity \in us[n].world
        BY <2>5, <3>1 DEF MapsOnTime
      <4>2. ASSUME NEW n \in DOMAIN vs, ps[i].tick <= vs[n].tick PROVE w[ps[i].id].entity \in vs[n].world
        <5>1. CASE \E j \in DOMAIN us : vs[n] = us[j]
          BY <4>1, <4>2, <5>1
        <5>2. CASE vs[n].world = alive
          BY <3>1, <5>2
        <5> QED
          BY <1>1, <5>1, <5>2
      <4> QED
        BY <4>1, <4>2
    <3> QED
      BY <3>1 DEF MapsOnTime
  <2>6. ASSUME NEW i \in DOMAIN z, w[z[i].id].kind = "Dependent", w[z[i].id].entity \in alive
        PROVE  /\ z[i].tick <= a.updateTick => w[z[i].id].entity \in a.replica
               /\ \A n \in DOMAIN vs : z[i].tick <= vs[n].tick => w[z[i].id].entity \in vs[n].world
    <3>1. ASSUME NEW j \in DOMAIN d, z[i] = d[j]
          PROVE  /\ z[i].tick <= a.updateTick => w[z[i].id].entity \in a.replica
                 /\ \A n \in DOMAIN vs : z[i].tick <= vs[n].tick => w[z[i].id].entity \in vs[n].world
      <4>1. MapsOnTime(w, alive, a, vs, d)
        BY <2>1, <2>5
      <4> QED
        BY <2>6, <3>1, <4>1 DEF MapsOnTime
    <3>2. ASSUME z[i].tick = m.updateTick, l.status = "Authorized"
          PROVE  /\ z[i].tick <= a.updateTick => w[z[i].id].entity \in a.replica
                 /\ \A n \in DOMAIN vs : z[i].tick <= vs[n].tick => w[z[i].id].entity \in vs[n].world
      <4>1. m.known = alive
        BY <1>1, <3>2
      <4>2. ASSUME NEW t \in Nat, NEW r, UpToDate(m, t, r), m.updateTick <= t PROVE r = alive
        <5>1. t = m.updateTick
          BY <1>1, <4>2 DEF UpToDate
        <5> QED
          BY <4>1, <4>2, <5>1 DEF UpToDate
      <4>3. m.updateTick <= a.updateTick => a.replica = alive
        BY <1>2, <2>3, <4>2
      <4>4. ASSUME NEW n \in DOMAIN vs, m.updateTick <= vs[n].tick PROVE vs[n].world = alive
        <5>1. vs[n].tick \in Nat
          BY <1>1, <1>3
        <5> QED
          BY <2>4, <4>2, <4>4, <5>1
      <4> QED
        BY <2>6, <3>2, <4>3, <4>4
    <3> QED
      BY <3>1, <3>2
  <2>7. MapsOnTime(w, alive, a, vs, z)
    BY <2>6 DEF MapsOnTime
  <2> QED
    BY <2>1, <2>3, <2>4, <2>5, <2>7
<1> QED
  BY <1>4 DEF Mappable

LEMMA EndsMeetSent ==
  ASSUME NEW w, NEW n \in Nat, NEW tick \in Nat, NEW alive, NEW b \in Seq(StoredType), NEW cl,
         NEW l \in LinkType, NEW a \in AppType, NEW us \in Seq(UpdateType), NEW s \in Seq(Nat),
         NEW d \in Seq(PacketType), EndsMeet(w, n, tick, alive, b, cl, l, a, us, s, d),
         \A k \in DOMAIN b : b[k].id \in 1..n /\ w[b[k].id].kind = "Dependent",
         NEW m, NEW vs, Updated(l, m, us, vs, tick, alive),
         NEW e \in Seq(PacketType), SendsBuffer(w, cl, l, m.updateTick, b, e)
  PROVE  EndsMeet(w, n, tick + 1, alive, <<>>, cl, m, a, vs, s, d \o e)
<1> DEFINE z == d \o e
<1>1. z \in Seq(PacketType) /\ Joins(z, d, e)
  BY ConcatJoins
<1>2. \A i \in DOMAIN z : (\E j \in DOMAIN d : z[i] = d[j]) \/ (\E j \in DOMAIN e : z[i] = e[j])
  BY <1>1 DEF Joins
<1>3. Advances(l, m, us, vs, tick, alive)
  <2>1. l.updateTick <= tick
    BY DEF EndsMeet, EndInv
  <2> QED
    BY <2>1, UpdatedFacts
<1>4. /\ m.status = l.status /\ m.session = l.session /\ m.since = l.since /\ m.authSince = l.authSince
      /\ m.updateTick \in Nat /\ l.updateTick <= m.updateTick /\ m.updateTick <= tick + 1
  BY <1>3 DEF Advances
<1>5. l.updateTick \in Nat /\ l.since \in Nat
  BY MessagesAssumption DEF LinkType, Ticks
<1>6. /\ \A i \in DOMAIN d : d[i].tick \in Nat
      /\ \A i \in DOMAIN a.queue : a.queue[i].tick \in Nat
  <2>1. a.queue \in Seq(PacketType)
    BY DEF AppType
  <2>2. (\A i \in DOMAIN d : d[i] \in PacketType) /\ (\A i \in DOMAIN a.queue : a.queue[i] \in PacketType)
    BY <2>1, LenProperties, ElementOfSeq
  <2> QED
    BY <2>2, MessagesAssumption DEF PacketType, Ticks
<1>7. \A i \in DOMAIN e : /\ e[i].tick = m.updateTick /\ l.status = "Authorized"
                          /\ \E k \in DOMAIN b : b[k].id = e[i].id /\ cl \notin b[k].excluded
  BY DEF SendsBuffer, Stored
<1>8. \A i \in DOMAIN e : e[i].id \in 1..n /\ w[e[i].id].kind = "Dependent"
  BY <1>7
<1>9. Line(w, n, a.updateTick, s, a.queue, d) /\ BehindLine(w, s, a.queue, d, b)
  BY DEF EndsMeet
<1>10. l.status # "Absent" => /\ \A i \in DOMAIN d : d[i].tick <= m.updateTick
                              /\ \A i \in DOMAIN a.queue : a.queue[i].tick <= m.updateTick
  <2>1. ASSUME NEW t \in Nat, t <= l.updateTick PROVE t <= m.updateTick
    BY <1>4, <1>5, <2>1
  <2> QED
    BY <1>6, <2>1 DEF EndsMeet, EndInv
<1>11. AscendingPackets(w, e)
  <2>1. ASSUME NEW i \in DOMAIN e, NEW j \in DOMAIN e, i < j PROVE Precedes(w, e[i], e[j])
    <3>1. e[i].id < e[j].id
      BY <2>1 DEF SendsBuffer, Increasing
    <3>2. e[i].tick = m.updateTick /\ e[j].tick = m.updateTick
      BY <1>7
    <3>3. m.updateTick <= m.updateTick
      BY <1>4
    <3> QED
      BY <3>1, <3>2, <3>3 DEF Precedes
  <2> QED
    BY <2>1 DEF AscendingPackets
<1>12. AllBefore(w, s, e)
  <2>1. ASSUME NEW i \in DOMAIN s, NEW j \in DOMAIN e, Chained(w, s[i], e[j].id) PROVE s[i] < e[j].id
    <3>1. w[s[i]].kind = "Dependent"
      BY <1>8, <2>1 DEF Chained
    <3> QED
      BY <1>7, <1>9, <3>1 DEF BehindLine
  <2> QED
    BY <2>1 DEF AllBefore
<1>13. AllPrecede(w, a.queue, e)
  <2>1. ASSUME NEW i \in DOMAIN a.queue, NEW j \in DOMAIN e
        PROVE  a.queue[i].id < e[j].id /\ a.queue[i].tick <= e[j].tick
    <3>1. a.queue[i].id < e[j].id
      BY <1>7, <1>9 DEF BehindLine
    <3>2. a.queue[i].tick <= e[j].tick
      BY <1>7, <1>10
    <3> QED
      BY <3>1, <3>2
  <2> QED
    BY <2>1 DEF AllPrecede, Precedes
<1>14. AllPrecede(w, d, e)
  <2>1. ASSUME NEW i \in DOMAIN d, NEW j \in DOMAIN e, Chained(w, d[i].id, e[j].id)
        PROVE  d[i].id < e[j].id /\ d[i].tick <= e[j].tick
    <3>1. w[d[i].id].kind = "Dependent"
      BY <1>8, <2>1 DEF Chained
    <3>2. d[i].id < e[j].id
      BY <1>7, <1>9, <3>1 DEF BehindLine
    <3>3. d[i].tick <= e[j].tick
      BY <1>7, <1>10
    <3> QED
      BY <3>2, <3>3
  <2> QED
    BY <2>1 DEF AllPrecede, Precedes
<1>15. Line(w, n, a.updateTick, s, a.queue, z)
  BY <1>8, <1>9, <1>11, <1>12, <1>13, <1>14, LineSent
<1> HIDE DEF z
<1>16. TargetInv(w, cl, m, a)
  BY <1>4 DEF EndsMeet, TargetInv
<1>17. EndInv(n, tick + 1, m, a, s, z)
  <2>1. m.status = "Absent" => m = NoLink
    BY <1>4 DEF EndsMeet, EndInv, Updated
  <2>2. ASSUME m.status # "Absent", NEW i \in DOMAIN z PROVE z[i].tick <= m.updateTick
    <3>1. m.updateTick <= m.updateTick
      BY <1>4
    <3> QED
      BY <1>2, <1>4, <1>7, <1>10, <2>2, <3>1
  <2>3. m.status = "Waiting" => s = <<>> /\ a.queue = <<>> /\ z = <<>>
    <3>1. ASSUME m.status = "Waiting" PROVE s = <<>> /\ a.queue = <<>> /\ z = <<>>
      <4>1. s = <<>> /\ a.queue = <<>> /\ d = <<>> /\ l.status = "Waiting"
        BY <1>4, <3>1 DEF EndsMeet, EndInv
      <4>2. DOMAIN d = {} /\ DOMAIN e = {}
        <5>1. l.status # "Authorized" /\ DOMAIN d = {}
          BY <4>1
        <5>2. \A i \in DOMAIN e : FALSE
          BY <1>7, <5>1
        <5> QED
          BY <5>1, <5>2
      <4>3. DOMAIN z = {}
        BY <1>2, <4>2
      <4> QED
        BY <1>1, <4>1, <4>3, NoEntries
    <3> QED
      BY <3>1
  <2>4. /\ m.status # "Absent" => m.session = a.session /\ 1 <= a.session
        /\ m.status # "Absent" => \A i \in DOMAIN a.queue : a.queue[i].tick <= m.updateTick
    BY <1>4, <1>10 DEF EndsMeet, EndInv
  <2>5. /\ m.updateTick <= tick + 1 /\ m.since <= n /\ m.authSince <= n
        /\ a.state # "Connected" => a.updateTick = 0 /\ a.replica = {} /\ a.queue = <<>>
    BY <1>4 DEF EndsMeet, EndInv
  <2> QED
    BY <2>1, <2>2, <2>3, <2>4, <2>5 DEF EndInv
<1>18. BehindLine(w, s, a.queue, z, <<>>)
  BY DEF BehindLine
<1>19. Audience(<<>>, cl, m, a, s, z)
  <2>1. ASSUME l.status \in {"Connected", "Authorized"} PROVE NewerThan(l.since, s, a.queue, z)
    <3>1. NewerThan(l.since, s, a.queue, d) /\ \A k \in DOMAIN b : b[k].id <= l.since => cl \in b[k].excluded
      BY <2>1 DEF EndsMeet, Audience
    <3>2. \A i \in DOMAIN e : e[i].id > l.since
      <4>1. ASSUME NEW i \in DOMAIN e PROVE e[i].id > l.since
        <5>1. ~(e[i].id <= l.since)
          BY <1>7, <3>1
        <5>2. e[i].id \in Nat
          BY <1>8
        <5> QED
          BY <1>5, <5>1, <5>2
      <4> QED
        BY <4>1
    <3>3. \A i \in DOMAIN z : z[i].id > l.since
      BY <1>2, <3>1, <3>2 DEF NewerThan
    <3> QED
      BY <3>1, <3>3 DEF NewerThan
  <2> QED
    BY <1>4, <2>1 DEF Audience
<1>20. Mappable(w, alive, m, a, vs, z)
  <2>1. l.updateTick <= tick /\ Mappable(w, alive, l, a, us, d)
    BY DEF EndsMeet, EndInv
  <2>2. \A i \in DOMAIN z : (\E j \in DOMAIN d : z[i] = d[j]) \/ (z[i].tick = m.updateTick /\ l.status = "Authorized")
    BY <1>2, <1>7
  <2> QED
    BY <2>1, <2>2, MappableUpdated
<1>21. Kept(w, n, alive, <<>>, cl, m, a, s, z)
  <2>1. ASSUME l.status = "Authorized", a.state = "Connected", NEW id \in 1..n,
               Due(w, id, alive, <<cl, l.session>>, l.authSince)
        PROVE  OnLine(id, s, a.queue, z)
    <3>1. OnLine(id, s, a.queue, d) \/ Stored(id, b, cl)
      BY <2>1 DEF EndsMeet, Kept
    <3>2. OnLine(id, s, a.queue, d) => OnLine(id, s, a.queue, z)
      BY <1>1 DEF Joins, OnLine
    <3>3. ASSUME Stored(id, b, cl) PROVE OnLine(id, s, a.queue, z)
      <4>1. \E i \in DOMAIN e : e[i].id = id
        BY <2>1, <3>3 DEF SendsBuffer, Due
      <4> QED
        BY <1>1, <4>1 DEF Joins, OnLine
    <3> QED
      BY <3>1, <3>2, <3>3
  <2> QED
    BY <1>4, <2>1 DEF Kept
<1>22. EndsMeet(w, n, tick + 1, alive, <<>>, cl, m, a, vs, s, z)
  BY <1>15, <1>16, <1>17, <1>18, <1>19, <1>20, <1>21 DEF EndsMeet
<1> QED
  BY <1>22 DEF z

-----------------------------------------------------------------------------
(* The messages of a client.                                               *)

\* The entries of a joined sequence are those of the two, at their positions.
LEMMA ConcatEntries ==
  ASSUME NEW S, NEW s \in Seq(S), NEW t \in Seq(S), NEW i \in DOMAIN (s \o t)
  PROVE  \/ i \in DOMAIN s /\ (s \o t)[i] = s[i]
         \/ i - Len(s) \in DOMAIN t /\ (s \o t)[i] = t[i - Len(s)] /\ i \notin DOMAIN s
<1>1. /\ s \o t \in Seq(S) /\ Len(s \o t) = Len(s) + Len(t)
      /\ \A j \in 1..(Len(s) + Len(t)) : (s \o t)[j] = IF j <= Len(s) THEN s[j] ELSE t[j - Len(s)]
  BY ConcatProperties
<1>2. /\ Len(s) \in Nat /\ DOMAIN s = 1..Len(s) /\ Len(t) \in Nat /\ DOMAIN t = 1..Len(t)
      /\ DOMAIN (s \o t) = 1..(Len(s) + Len(t))
  BY <1>1, LenProperties
<1> QED
  BY <1>1, <1>2

LEMMA DistinctJoined ==
  ASSUME NEW S, NEW s \in Seq(S), NEW t \in Seq(S), DistinctIds(s), DistinctIds(t),
         \A i \in DOMAIN s, j \in DOMAIN t : IsMessage(s[i]) /\ IsMessage(t[j]) => s[i].id # t[j].id
  PROVE  DistinctIds(s \o t)
<1> DEFINE r == s \o t
<1>1. Len(s) \in Int /\ \A i \in DOMAIN r : i \in Int
  BY LenProperties, ConcatProperties
<1>2. \A i \in DOMAIN r : \/ i \in DOMAIN s /\ r[i] = s[i]
                          \/ i - Len(s) \in DOMAIN t /\ r[i] = t[i - Len(s)] /\ i \notin DOMAIN s
  BY ConcatEntries
<1> HIDE DEF r
<1>3. ASSUME NEW i \in DOMAIN r, NEW j \in DOMAIN r, IsMessage(r[i]), IsMessage(r[j]), r[i].id = r[j].id
      PROVE  i = j
  <2>1. CASE i \in DOMAIN s /\ j \in DOMAIN s
    BY <1>2, <1>3, <2>1 DEF DistinctIds
  <2>2. CASE i \notin DOMAIN s /\ j \notin DOMAIN s
    <3>1. /\ i - Len(s) \in DOMAIN t /\ r[i] = t[i - Len(s)]
          /\ j - Len(s) \in DOMAIN t /\ r[j] = t[j - Len(s)]
      BY <1>2, <2>2
    <3>2. i - Len(s) = j - Len(s)
      BY <1>3, <3>1 DEF DistinctIds
    <3> QED
      BY <1>1, <3>2
  <2>3. CASE i \in DOMAIN s /\ j \notin DOMAIN s
    <3>1. r[i] = s[i] /\ j - Len(s) \in DOMAIN t /\ r[j] = t[j - Len(s)]
      BY <1>2, <2>3
    <3> QED
      BY <1>3, <2>3, <3>1
  <2>4. CASE i \notin DOMAIN s /\ j \in DOMAIN s
    <3>1. r[j] = s[j] /\ i - Len(s) \in DOMAIN t /\ r[i] = t[i - Len(s)]
      BY <1>2, <2>4
    <3> QED
      BY <1>3, <2>4, <3>1
  <2> QED
    BY <2>1, <2>2, <2>3, <2>4
<1> QED
  BY <1>3 DEF DistinctIds, r

LEMMA ApartJoined ==
  ASSUME NEW s \in Seq(HandledType), NEW t \in Seq(HandledType), HandledApart(s), HandledApart(t),
         \A i \in DOMAIN s, j \in DOMAIN t :
           s[i].id = t[j].id => s[i].kind = "Shared" /\ t[j].kind = "Shared" /\ s[i].at # t[j].at
  PROVE  HandledApart(s \o t)
<1> DEFINE r == s \o t
<1>1. Len(s) \in Int /\ \A i \in DOMAIN r : i \in Int
  BY LenProperties, ConcatProperties
<1>2. \A i \in DOMAIN r : \/ i \in DOMAIN s /\ r[i] = s[i]
                          \/ i - Len(s) \in DOMAIN t /\ r[i] = t[i - Len(s)] /\ i \notin DOMAIN s
  BY ConcatEntries
<1> HIDE DEF r
<1>3. ASSUME NEW i \in DOMAIN r, NEW j \in DOMAIN r, i # j, r[i].id = r[j].id
      PROVE  r[i].kind = "Shared" /\ r[i].at # r[j].at
  <2>1. CASE i \in DOMAIN s /\ j \in DOMAIN s
    BY <1>2, <1>3, <2>1 DEF HandledApart
  <2>2. CASE i \notin DOMAIN s /\ j \notin DOMAIN s
    <3>1. /\ i - Len(s) \in DOMAIN t /\ r[i] = t[i - Len(s)]
          /\ j - Len(s) \in DOMAIN t /\ r[j] = t[j - Len(s)]
      BY <1>2, <2>2
    <3>2. i - Len(s) # j - Len(s)
      BY <1>1, <1>3
    <3> QED
      BY <1>3, <3>1, <3>2 DEF HandledApart
  <2>3. CASE i \in DOMAIN s /\ j \notin DOMAIN s
    <3>1. r[i] = s[i] /\ j - Len(s) \in DOMAIN t /\ r[j] = t[j - Len(s)]
      BY <1>2, <2>3
    <3> QED
      BY <1>3, <2>3, <3>1
  <2>4. CASE i \notin DOMAIN s /\ j \in DOMAIN s
    <3>1. r[j] = s[j] /\ i - Len(s) \in DOMAIN t /\ r[i] = t[i - Len(s)]
      BY <1>2, <2>4
    <3> QED
      BY <1>3, <2>4, <3>1
  <2> QED
    BY <2>1, <2>2, <2>3, <2>4
<1> QED
  BY <1>3 DEF HandledApart, r

LEMMA OneEntry ==
  ASSUME NEW S, NEW m \in S
  PROVE  <<m>> \in Seq(S) /\ DOMAIN <<m>> = {1} /\ <<m>>[1] = m
OBVIOUS

\* Some of the messages that wait are forgotten.
LEMMA OnceThinned ==
  ASSUME NEW state, NEW out, NEW wrote, NEW us, NEW hs, OnceInv(state, out, wrote, us, hs),
         NEW r, NEW f, Thins(f, r, out), \A i, j \in DOMAIN r : f[i] = f[j] => i = j
  PROVE  OnceInv(state, r, wrote, us, hs)
<1>1. \A i \in DOMAIN r : f[i] \in DOMAIN out /\ r[i] = out[f[i]]
  BY DEF Thins
<1>2. Numbered(r, wrote) /\ NotYetIn(r, us) /\ NotYetIn(r, hs)
  BY <1>1 DEF OnceInv, Numbered, NotYetIn
<1>3. DistinctIds(r)
  BY <1>1 DEF OnceInv, DistinctIds
<1>4. state # "Connected" => \A i \in DOMAIN r : ~r[i].sent /\ IsMessage(r[i])
  BY <1>1 DEF OnceInv
<1> QED
  BY <1>2, <1>3, <1>4 DEF OnceInv

LEMMA ThinsApart ==
  ASSUME NEW S, NEW s \in Seq(S), NEW r \in Seq(S), NEW f, Thins(f, r, s)
  PROVE  \A i, j \in DOMAIN r : f[i] = f[j] => i = j
<1>1. /\ Len(r) \in Nat /\ DOMAIN r = 1..Len(r) /\ Len(s) \in Nat /\ DOMAIN s = 1..Len(s)
  BY LenProperties
<1>2. ASSUME NEW i \in DOMAIN r, NEW j \in DOMAIN r, f[i] = f[j] PROVE i = j
  <2>1. f[i] \in Int /\ f[j] \in Int /\ i \in Int /\ j \in Int
    BY <1>1 DEF Thins
  <2>2. ~(i < j) /\ ~(j < i)
    BY <1>2, <2>1 DEF Thins
  <2> QED
    BY <2>1, <2>2
<1> QED
  BY <1>2

LEMMA OnceForgotten ==
  ASSUME NEW state, NEW out, NEW wrote, NEW us, NEW hs, OnceInv(state, out, wrote, us, hs), NEW x
  PROVE  OnceInv(x, <<>>, wrote, us, hs)
BY DEF OnceInv, Numbered, DistinctIds, NotYetIn

\* The messages on their way are gone, or one of them is.
LEMMA OnceUpCleared ==
  ASSUME NEW state, NEW out, NEW wrote, NEW us, NEW hs, OnceInv(state, out, wrote, us, hs)
  PROVE  OnceInv(state, out, wrote, <<>>, hs)
BY DEF OnceInv, Numbered, DistinctIds, NotYetIn, OnlySharedLocally

LEMMA OnceUpThinned ==
  ASSUME NEW state, NEW out, NEW wrote, NEW us, NEW hs, OnceInv(state, out, wrote, us, hs),
         NEW r, NEW f, Thins(f, r, us), \A i, j \in DOMAIN r : f[i] = f[j] => i = j
  PROVE  OnceInv(state, out, wrote, r, hs)
<1>1. \A i \in DOMAIN r : f[i] \in DOMAIN us /\ r[i] = us[f[i]]
  BY DEF Thins
<1>2. Numbered(r, wrote) /\ NotYetIn(out, r) /\ OnlySharedLocally(r, hs)
  BY <1>1 DEF OnceInv, Numbered, NotYetIn, OnlySharedLocally
<1>3. DistinctIds(r)
  BY <1>1 DEF OnceInv, DistinctIds
<1> QED
  BY <1>2, <1>3 DEF OnceInv

\* A connection is opened: the hash is sent first.
LEMMA OnceOpened ==
  ASSUME NEW state, NEW out \in Seq(OutType), NEW wrote, NEW us, NEW hs, OnceInv(state, out, wrote, us, hs),
         NEW m \in OutType, ~IsMessage(m)
  PROVE  OnceInv("Connected", Append(out, m), wrote, <<>>, hs)
<1> DEFINE r == Append(out, m)
<1>1. <<m>> \in Seq(OutType) /\ DOMAIN <<m>> = {1} /\ <<m>>[1] = m
  BY OneEntry
<1>2. r = out \o <<m>>
  BY AppendIsConcat
<1>3. DistinctIds(r)
  <2>1. DistinctIds(out) /\ DistinctIds(<<m>>)
    BY <1>1 DEF OnceInv, DistinctIds
  <2> QED
    BY <1>1, <1>2, <2>1, DistinctJoined
<1>4. Adds(r, out, m)
  BY AppendAdds
<1> HIDE DEF r
<1>5. \A i \in DOMAIN r : ~IsMessage(r[i]) \/ \E j \in DOMAIN out : r[i] = out[j]
  BY <1>4 DEF Adds
<1>6. Numbered(r, wrote) /\ NotYetIn(r, hs)
  BY <1>5 DEF OnceInv, Numbered, NotYetIn
<1>7. OnceInv("Connected", r, wrote, <<>>, hs)
  BY <1>3, <1>6 DEF OnceInv, Numbered, DistinctIds, NotYetIn, OnlySharedLocally
<1> QED
  BY <1>7 DEF r

\* A message is written, with a number of its own.
LEMMA OnceWritten ==
  ASSUME NEW state, NEW out \in Seq(OutType), NEW wrote \in Nat, NEW us, NEW hs,
         OnceInv(state, out, wrote, us, hs),
         NEW m \in OutType, IsMessage(m), m.id = wrote + 1, ~m.sent
  PROVE  OnceInv(state, Append(out, m), wrote + 1, us, hs)
<1> DEFINE r == Append(out, m)
<1>1. <<m>> \in Seq(OutType) /\ DOMAIN <<m>> = {1} /\ <<m>>[1] = m
  BY OneEntry
<1>2. r = out \o <<m>>
  BY AppendIsConcat
<1>3. \A x \in 1..wrote : x # wrote + 1 /\ x \in 1..(wrote + 1)
  OBVIOUS
<1>4. DistinctIds(r)
  <2>1. DistinctIds(out) /\ DistinctIds(<<m>>)
    BY <1>1 DEF OnceInv, DistinctIds
  <2>2. \A i \in DOMAIN out : IsMessage(out[i]) => out[i].id # m.id
    BY <1>3 DEF OnceInv, Numbered
  <2> QED
    BY <1>1, <1>2, <2>1, <2>2, DistinctJoined
<1>5. Adds(r, out, m)
  BY AppendAdds
<1> HIDE DEF r
<1>6. \A i \in DOMAIN r : r[i] = m \/ \E j \in DOMAIN out : r[i] = out[j]
  BY <1>5 DEF Adds
<1>7. Numbered(r, wrote + 1) /\ Numbered(us, wrote + 1) /\ Numbered(hs, wrote + 1)
  <2>1. wrote + 1 \in 1..(wrote + 1)
    OBVIOUS
  <2> QED
    BY <1>3, <1>6, <2>1 DEF OnceInv, Numbered
<1>8. ASSUME NEW ms, Numbered(ms, wrote), NotYetIn(out, ms) PROVE NotYetIn(r, ms)
  <2>1. \A j \in DOMAIN ms : IsMessage(ms[j]) => ms[j].id # m.id
    BY <1>3, <1>8 DEF Numbered
  <2> QED
    BY <1>6, <1>8, <2>1 DEF NotYetIn
<1>9. NotYetIn(r, us) /\ NotYetIn(r, hs)
  BY <1>8 DEF OnceInv
<1>10. state # "Connected" => \A i \in DOMAIN r : ~r[i].sent /\ IsMessage(r[i])
  BY <1>6 DEF OnceInv
<1>11. OnceInv(state, r, wrote + 1, us, hs)
  BY <1>4, <1>7, <1>9, <1>10 DEF OnceInv
<1> QED
  BY <1>11 DEF r

\* What is handled by the client itself: none of it on its way but what is shared.
LEMMA OnceHandledLocally ==
  ASSUME NEW state, NEW out \in Seq(OutType), NEW wrote, NEW us, NEW hs \in Seq(HandledType),
         OnceInv(state, out, wrote, us, hs),
         NEW new \in Seq(OutType), NEW f, Thins(f, new, out),
         \A i \in DOMAIN new : ~new[i].sent /\ IsMessage(new[i])
  PROVE  LET ls == AsLocal(new)
         IN  /\ HandledApart(hs \o ls) /\ Numbered(hs \o ls, wrote)
             /\ \A j \in DOMAIN (hs \o ls) : IsMessage((hs \o ls)[j])
             /\ OnlySharedLocally(us, hs \o ls)
<1> DEFINE ls == AsLocal(new)
           r == hs \o ls
<1>1. \A i, j \in DOMAIN new : f[i] = f[j] => i = j
  BY ThinsApart
<1>2. \A i \in DOMAIN new : f[i] \in DOMAIN out /\ new[i] = out[f[i]]
  BY DEF Thins
<1>3. /\ ls \in Seq(HandledType) /\ DOMAIN ls = DOMAIN new
      /\ \A i \in DOMAIN new : ls[i].kind = new[i].kind /\ ls[i].id = new[i].id /\ ls[i].at = "Local"
  BY AsLocalFacts
<1> HIDE DEF ls
<1>4. \A i \in DOMAIN ls : IsMessage(ls[i]) /\ ls[i].id \in 1..wrote
  <2>1. \A i \in DOMAIN new : IsMessage(ls[i])
    BY <1>3 DEF IsMessage
  <2>2. Numbered(out, wrote)
    BY DEF OnceInv
  <2>3. \A i \in DOMAIN new : new[i].id \in 1..wrote
    BY <1>2, <2>2 DEF Numbered
  <2>4. \A i \in DOMAIN new : ls[i].id \in 1..wrote
    BY <1>3, <2>3
  <2> QED
    BY <1>3, <2>1, <2>4
<1>5. HandledApart(ls)
  BY <1>1, <1>2, <1>3 DEF OnceInv, DistinctIds, HandledApart
<1>6. \A i \in DOMAIN hs, j \in DOMAIN ls : hs[i].id # ls[j].id
  <2> SUFFICES ASSUME NEW i \in DOMAIN hs, NEW j \in DOMAIN new
               PROVE  hs[i].id # new[j].id
    BY <1>3
  <2>1. NotYetIn(out, hs) /\ ~new[j].sent /\ IsMessage(new[j]) /\ IsMessage(hs[i])
    BY DEF OnceInv
  <2>2. f[j] \in DOMAIN out /\ new[j] = out[f[j]]
    BY <1>2
  <2> QED
    BY <2>1, <2>2 DEF NotYetIn
<1>7. HandledApart(hs)
  BY DEF OnceInv
<1>8. HandledApart(r)
  BY <1>3, <1>5, <1>6, <1>7, ApartJoined
<1>9. Joins(r, hs, ls)
  BY <1>3, ConcatJoins
<1> HIDE DEF r
<1>10. \A i \in DOMAIN r : (\E j \in DOMAIN hs : r[i] = hs[j]) \/ (\E j \in DOMAIN ls : r[i] = ls[j])
  BY <1>9 DEF Joins
<1>11. Numbered(r, wrote) /\ \A j \in DOMAIN r : IsMessage(r[j])
  BY <1>4, <1>10 DEF OnceInv, Numbered
<1>12. OnlySharedLocally(us, r)
  <2>1. \A i \in DOMAIN us, j \in DOMAIN ls : IsMessage(us[i]) => us[i].id # ls[j].id
    <3> SUFFICES ASSUME NEW i \in DOMAIN us, NEW j \in DOMAIN new, IsMessage(us[i])
                 PROVE  us[i].id # new[j].id
      BY <1>3
    <3>1. NotYetIn(out, us) /\ ~new[j].sent /\ IsMessage(new[j])
      BY DEF OnceInv
    <3>2. f[j] \in DOMAIN out /\ new[j] = out[f[j]]
      BY <1>2
    <3> QED
      BY <3>1, <3>2 DEF NotYetIn
  <2>2. OnlySharedLocally(us, hs)
    BY DEF OnceInv
  <2>3. ASSUME NEW i \in DOMAIN us, NEW j \in DOMAIN r, IsMessage(us[i]), us[i].id = r[j].id
        PROVE  us[i].kind = "Shared" /\ r[j].kind = "Shared" /\ r[j].at = "Local"
    <3>1. PICK k \in DOMAIN hs : r[j] = hs[k]
      BY <1>10, <2>1, <2>3
    <3> QED
      BY <2>2, <2>3, <3>1 DEF OnlySharedLocally
  <2> QED
    BY <2>3 DEF OnlySharedLocally
<1> QED
  BY <1>8, <1>11, <1>12 DEF r, ls

\* While disconnected, everything that waits is handled locally.
LEMMA OnceSentLocally ==
  ASSUME NEW state, state # "Connected", NEW out \in Seq(OutType), NEW wrote, NEW us,
         NEW hs \in Seq(HandledType), OnceInv(state, out, wrote, us, hs)
  PROVE  OnceInv(state, <<>>, wrote, us, hs \o AsLocal(out))
<1> DEFINE f == [i \in DOMAIN out |-> i]
           ls == hs \o AsLocal(out)
<1>1. Thins(f, out, out)
  BY DEF Thins
<1>2. \A i \in DOMAIN out : ~out[i].sent /\ IsMessage(out[i])
  BY DEF OnceInv
<1> HIDE DEF f
<1>3. /\ HandledApart(ls) /\ Numbered(ls, wrote) /\ OnlySharedLocally(us, ls)
      /\ \A j \in DOMAIN ls : IsMessage(ls[j])
  BY <1>1, <1>2, OnceHandledLocally
<1> HIDE DEF ls
<1>4. OnceInv(state, <<>>, wrote, us, ls)
  BY <1>3 DEF OnceInv, Numbered, DistinctIds, NotYetIn
<1> QED
  BY <1>4 DEF ls

\* While connected, what is new is sent, the shared messages of it are handled
\* here as well, and what is kept is marked as sent.
LEMMA OnceSentRemotely ==
  ASSUME NEW state, state = "Connected", NEW out \in Seq(OutType), NEW wrote, NEW us \in Seq(UpType),
         NEW hs \in Seq(HandledType), OnceInv(state, out, wrote, us, hs),
         NEW vs, vs = us \/ vs = us \o AsUp(Unsent(out))
  PROVE  OnceInv(state, AsSent(NotSharedIn(out)), wrote, vs, hs \o AsLocal(SharedIn(Unsent(out))))
<1> DEFINE new == Unsent(out)
           shared == SharedIn(new)
           kept == NotSharedIn(out)
           r == AsSent(kept)
           ups == AsUp(new)
           locals == AsLocal(shared)
           ls == hs \o locals
<1>1. /\ new \in Seq(OutType) /\ \E f : Thins(f, new, out)
      /\ \A i \in DOMAIN new : ~new[i].sent
  BY UnsentFacts
<1>2. /\ shared \in Seq(OutType) /\ \E g : Thins(g, shared, new)
      /\ \A i \in DOMAIN shared : shared[i].kind = "Shared"
  BY <1>1, SharedFacts
<1>3. kept \in Seq(OutType) /\ \E h : Thins(h, kept, out)
  BY NotSharedFacts
<1> HIDE DEF new, shared, kept
<1>4. PICK f : Thins(f, new, out)
  BY <1>1
<1>5. PICK g : Thins(g, shared, new)
  BY <1>2
<1>6. PICK h : Thins(h, kept, out)
  BY <1>3
<1>7. /\ DOMAIN r = DOMAIN kept
      /\ \A i \in DOMAIN kept : r[i].kind = kept[i].kind /\ r[i].id = kept[i].id /\ r[i].sent
  BY DEF AsSent
<1>8. /\ ups \in Seq(UpType) /\ DOMAIN ups = DOMAIN new
      /\ \A i \in DOMAIN new : ups[i].kind = new[i].kind /\ ups[i].id = new[i].id
  BY <1>1, AsUpFacts DEF AsUp
<1>9. /\ locals \in Seq(HandledType) /\ DOMAIN locals = DOMAIN shared
      /\ \A i \in DOMAIN shared : locals[i].kind = shared[i].kind /\ locals[i].id = shared[i].id
                                  /\ locals[i].at = "Local"
  BY <1>2, AsLocalFacts
<1>10. \A i, j \in DOMAIN new : f[i] = f[j] => i = j
  BY <1>1, <1>4, ThinsApart
<1>11. \A i, j \in DOMAIN kept : h[i] = h[j] => i = j
  BY <1>3, <1>6, ThinsApart
<1>12. \A i \in DOMAIN new : f[i] \in DOMAIN out /\ new[i] = out[f[i]]
  BY <1>4 DEF Thins
<1>13. \A i \in DOMAIN shared : g[i] \in DOMAIN new /\ shared[i] = new[g[i]]
  BY <1>5 DEF Thins
<1>14. \A i \in DOMAIN kept : h[i] \in DOMAIN out /\ kept[i] = out[h[i]]
  BY <1>6 DEF Thins
<1>15. Numbered(out, wrote) /\ DistinctIds(out) /\ NotYetIn(out, us) /\ NotYetIn(out, hs)
  BY DEF OnceInv
<1>16. /\ HandledApart(ls) /\ Numbered(ls, wrote) /\ OnlySharedLocally(us, ls)
       /\ \A j \in DOMAIN ls : IsMessage(ls[j])
  <2> DEFINE k == [i \in DOMAIN shared |-> f[g[i]]]
  <2>1. Thins(k, shared, out)
    <3>1. \A i \in DOMAIN shared : k[i] \in DOMAIN out /\ shared[i] = out[k[i]]
      BY <1>12, <1>13
    <3>2. \A i, j \in DOMAIN shared : i < j => k[i] < k[j]
      BY <1>4, <1>5 DEF Thins
    <3> QED
      BY <3>1, <3>2 DEF Thins
  <2>2. \A i \in DOMAIN shared : ~shared[i].sent /\ IsMessage(shared[i])
    BY <1>1, <1>2, <1>13 DEF IsMessage
  <2> HIDE DEF k
  <2> QED
    BY <1>2, <2>1, <2>2, OnceHandledLocally
<1>17. Joins(ls, hs, locals)
  BY <1>9, ConcatJoins
<1> HIDE DEF r, ups, locals, ls
<1>18. Numbered(r, wrote)
  <2>1. \A i \in DOMAIN kept : IsMessage(kept[i]) => kept[i].id \in 1..wrote
    BY <1>14, <1>15 DEF Numbered
  <2> QED
    BY <1>7, <2>1 DEF Numbered, IsMessage
<1>19. DistinctIds(r)
  <2>1. DistinctIds(kept)
    BY <1>11, <1>14, <1>15 DEF DistinctIds
  <2> QED
    BY <1>7, <2>1 DEF DistinctIds, IsMessage
<1>20. NotYetIn(r, vs) /\ NotYetIn(r, ls)
  BY <1>7 DEF NotYetIn
<1>21. \A i \in DOMAIN ups : IsMessage(ups[i]) =>
          IsMessage(out[f[i]]) /\ ups[i].id = out[f[i]].id /\ ~out[f[i]].sent /\ f[i] \in DOMAIN out
  BY <1>1, <1>8, <1>12 DEF IsMessage
<1>22. Numbered(ups, wrote)
  BY <1>15, <1>21 DEF Numbered
<1>23. DistinctIds(ups)
  <2>1. ASSUME NEW i \in DOMAIN ups, NEW j \in DOMAIN ups, IsMessage(ups[i]), IsMessage(ups[j]), ups[i].id = ups[j].id
        PROVE  i = j
    <3>1. f[i] = f[j]
      BY <1>15, <1>21, <2>1 DEF DistinctIds
    <3> QED
      BY <1>8, <1>10, <3>1
  <2> QED
    BY <2>1 DEF DistinctIds
<1>24. OnlySharedLocally(ups, ls)
  <2>1. ASSUME NEW i \in DOMAIN ups, NEW j \in DOMAIN hs, IsMessage(ups[i]) PROVE ups[i].id # hs[j].id
    <3>1. IsMessage(hs[j])
      BY DEF OnceInv
    <3> QED
      BY <1>15, <1>21, <2>1, <3>1 DEF NotYetIn
  <2>2. ASSUME NEW i \in DOMAIN ups, NEW j \in DOMAIN locals, IsMessage(ups[i]), ups[i].id = locals[j].id
        PROVE  ups[i].kind = "Shared" /\ locals[j].kind = "Shared" /\ locals[j].at = "Local"
    <3>1. /\ locals[j].kind = "Shared" /\ locals[j].at = "Local" /\ locals[j].id = shared[j].id
          /\ shared[j] = new[g[j]] /\ g[j] \in DOMAIN new /\ new[g[j]].kind = "Shared"
      BY <1>2, <1>9, <1>13
    <3>2. f[g[j]] \in DOMAIN out /\ new[g[j]] = out[f[g[j]]]
      BY <1>12, <3>1
    <3>3. f[i] = f[g[j]]
      <4>1. IsMessage(out[f[g[j]]])
        BY <3>1, <3>2 DEF IsMessage
      <4>2. out[f[i]].id = out[f[g[j]]].id
        BY <1>21, <2>2, <3>1, <3>2
      <4> QED
        BY <1>15, <1>21, <2>2, <3>2, <4>1, <4>2 DEF DistinctIds
    <3>4. i = g[j]
      BY <1>8, <1>10, <3>1, <3>3
    <3> QED
      BY <1>8, <3>1, <3>4
  <2>3. \A j \in DOMAIN ls : (\E m \in DOMAIN hs : ls[j] = hs[m]) \/ (\E m \in DOMAIN locals : ls[j] = locals[m])
    BY <1>17 DEF Joins
  <2> QED
    BY <2>1, <2>2, <2>3 DEF OnlySharedLocally
<1>25. Numbered(vs, wrote) /\ DistinctIds(vs) /\ OnlySharedLocally(vs, ls)
  <2>1. Numbered(us, wrote) /\ DistinctIds(us) /\ OnlySharedLocally(us, ls)
    BY <1>16 DEF OnceInv
  <2>2. CASE vs = us
    BY <2>1, <2>2
  <2>3. CASE vs = us \o ups
    <3>1. \A i \in DOMAIN us, j \in DOMAIN ups : IsMessage(us[i]) /\ IsMessage(ups[j]) => us[i].id # ups[j].id
      BY <1>15, <1>21 DEF NotYetIn
    <3>2. DistinctIds(vs)
      BY <1>8, <1>23, <2>1, <2>3, <3>1, DistinctJoined
    <3>3. Joins(vs, us, ups)
      BY <1>8, <2>3, ConcatJoins
    <3>4. \A i \in DOMAIN vs : (\E j \in DOMAIN us : vs[i] = us[j]) \/ (\E j \in DOMAIN ups : vs[i] = ups[j])
      BY <3>3 DEF Joins
    <3>5. Numbered(vs, wrote)
      BY <1>22, <2>1, <3>4 DEF Numbered
    <3>6. OnlySharedLocally(vs, ls)
      BY <1>24, <2>1, <3>4 DEF OnlySharedLocally
    <3> QED
      BY <3>2, <3>5, <3>6
  <2> QED
    BY <2>2, <2>3 DEF ups, new
<1>26. OnceInv(state, r, wrote, vs, ls)
  BY <1>16, <1>18, <1>19, <1>20, <1>25 DEF OnceInv
<1> QED
  BY <1>26 DEF r, ls, locals, shared, kept, new

\* The server handles one of the messages on their way.
LEMMA OnceHandled ==
  ASSUME NEW state, NEW out, NEW wrote, NEW us, NEW hs \in Seq(HandledType),
         OnceInv(state, out, wrote, us, hs),
         NEW p \in DOMAIN us, IsMessage(us[p]), NEW r, NEW f, Thins(f, r, us),
         \A i, j \in DOMAIN r : f[i] = f[j] => i = j, \A i \in DOMAIN r : f[i] # p,
         NEW m \in HandledType, m.kind = us[p].kind, m.id = us[p].id, m.at = Server
  PROVE  OnceInv(state, out, wrote, r, Append(hs, m))
<1> DEFINE ls == Append(hs, m)
<1>1. OnceInv(state, out, wrote, r, hs)
  BY OnceUpThinned
<1>2. <<m>> \in Seq(HandledType) /\ DOMAIN <<m>> = {1} /\ <<m>>[1] = m
  BY OneEntry
<1>3. ls = hs \o <<m>>
  BY AppendIsConcat
<1>4. IsMessage(m) /\ m.id \in 1..wrote
  BY DEF OnceInv, Numbered, IsMessage
<1>5. Server # "Local"
  BY MessagesAssumption
<1>6. HandledApart(ls)
  <2>1. HandledApart(hs) /\ HandledApart(<<m>>)
    BY <1>2 DEF OnceInv, HandledApart
  <2>2. \A i \in DOMAIN hs : hs[i].id = m.id => hs[i].kind = "Shared" /\ m.kind = "Shared" /\ hs[i].at # m.at
    BY <1>5 DEF OnceInv, OnlySharedLocally
  <2> DEFINE ms == <<m>>
  <2>3. /\ ms \in Seq(HandledType) /\ HandledApart(ms) /\ ls = hs \o ms
        /\ \A j \in DOMAIN ms : ms[j] = m
    BY <1>2, <1>3, <2>1
  <2> HIDE DEF ms
  <2>4. \A i \in DOMAIN hs, j \in DOMAIN ms :
          hs[i].id = ms[j].id => hs[i].kind = "Shared" /\ ms[j].kind = "Shared" /\ hs[i].at # ms[j].at
    BY <2>2, <2>3
  <2>5. HandledApart(hs \o ms)
    BY <2>1, <2>3, <2>4, ApartJoined
  <2> QED
    BY <2>3, <2>5
<1>7. Adds(ls, hs, m)
  BY AppendAdds
<1> HIDE DEF ls
<1>8. \A i \in DOMAIN ls : ls[i] = m \/ \E j \in DOMAIN hs : ls[i] = hs[j]
  BY <1>7 DEF Adds
<1>9. Numbered(ls, wrote) /\ \A j \in DOMAIN ls : IsMessage(ls[j])
  BY <1>4, <1>8 DEF OnceInv, Numbered
<1>10. NotYetIn(out, ls)
  <2>1. \A i \in DOMAIN out : ~out[i].sent /\ IsMessage(out[i]) => out[i].id # m.id
    BY DEF OnceInv, NotYetIn
  <2> QED
    BY <1>8, <2>1 DEF OnceInv, NotYetIn
<1>11. OnlySharedLocally(r, ls)
  <2>1. \A i \in DOMAIN r : f[i] \in DOMAIN us /\ r[i] = us[f[i]] /\ f[i] # p
    BY DEF Thins
  <2>2. \A i \in DOMAIN r : IsMessage(r[i]) => r[i].id # m.id
    BY <2>1 DEF OnceInv, DistinctIds
  <2> QED
    BY <1>1, <1>8, <2>2 DEF OnceInv, OnlySharedLocally
<1>12. OnceInv(state, out, wrote, r, ls)
  BY <1>1, <1>6, <1>9, <1>10, <1>11 DEF OnceInv
<1> QED
  BY <1>12 DEF ls

-----------------------------------------------------------------------------
(* The steps of one client.                                                *)

SameServer == UNCHANGED <<serverTick, world, spawned, toClients, buffer, written, seenLocally>>

\* A step that changes nothing of the server but its end of one connection.
LEMMA ClientStep ==
  ASSUME MessagesInv, NEW cl \in Clients, TypeInv', SameServer,
         OthersKept(link, link', cl), OthersKept(app, app', cl), OthersKept(updates, updates', cl),
         OthersKept(down, down', cl), OthersKept(up, up', cl), OthersKept(seen, seen', cl),
         OthersKept(handled, handled', cl),
         EndsMeet(written, Processed, serverTick, world, buffer, cl,
                  link'[cl], app'[cl], updates'[cl], seen'[cl], down'[cl]),
         OnceInv(app'[cl].state, app'[cl].out, app'[cl].wrote, up'[cl], handled'[cl])
  PROVE  MessagesInv'
<1>1. ServerOrder' /\ Processed' = Processed
  BY OrderKept DEF MessagesInv, SameServer
<1>2. ASSUME NEW c \in Clients PROVE DownInv(c)'
  <2>1. CASE c = cl
    BY <1>1, <2>1 DEF DownInv, SameServer
  <2>2. CASE c # cl
    <3>1. DownInv(c)
      BY DEF MessagesInv
    <3>2. /\ link'[c] = link[c] /\ app'[c] = app[c] /\ updates'[c] = updates[c] /\ seen'[c] = seen[c]
          /\ down'[c] = down[c]
      BY <2>2 DEF OthersKept
    <3> QED
      BY <1>1, <3>1, <3>2 DEF DownInv, SameServer
  <2> QED
    BY <2>1, <2>2
<1>3. ASSUME NEW c \in Clients PROVE UpInv(c)'
  <2>1. CASE c = cl
    BY <2>1 DEF UpInv
  <2>2. CASE c # cl
    <3>1. UpInv(c)
      BY DEF MessagesInv
    <3>2. app'[c] = app[c] /\ up'[c] = up[c] /\ handled'[c] = handled[c]
      BY <2>2 DEF OthersKept
    <3> QED
      BY <3>1, <3>2 DEF UpInv
  <2> QED
    BY <2>1, <2>2
<1> QED
  BY <1>1, <1>2, <1>3 DEF MessagesInv

\* What the invariant says of one client, with the types of what it has.
LEMMA ClientFacts ==
  ASSUME MessagesInv, NEW cl \in Clients
  PROVE  /\ TypeInv /\ ServerOrder
         /\ EndsMeet(written, Processed, serverTick, world, buffer, cl,
                     link[cl], app[cl], updates[cl], seen[cl], down[cl])
         /\ OnceInv(app[cl].state, app[cl].out, app[cl].wrote, up[cl], handled[cl])
         /\ Processed \in Nat /\ serverTick \in Nat /\ written \in Seq(WrittenType)
         /\ link[cl] \in LinkType /\ app[cl] \in AppType /\ updates[cl] \in Seq(UpdateType)
         /\ down[cl] \in Seq(PacketType) /\ up[cl] \in Seq(UpType) /\ seen[cl] \in Seq(Nat)
         /\ handled[cl] \in Seq(HandledType)
         /\ app[cl].out \in Seq(OutType) /\ app[cl].wrote \in Nat
<1>1. TypeInv /\ ServerOrder /\ DownInv(cl) /\ UpInv(cl)
  BY DEF MessagesInv
<1>2. Processed \in Nat
  BY <1>1, Counts
<1>3. serverTick \in Nat
  BY <1>1, MessagesAssumption DEF TypeInv, Ticks
<1>4. /\ link[cl] \in LinkType /\ app[cl] \in AppType /\ updates[cl] \in Seq(UpdateType)
      /\ down[cl] \in Seq(PacketType) /\ up[cl] \in Seq(UpType) /\ seen[cl] \in Seq(Nat)
      /\ handled[cl] \in Seq(HandledType) /\ written \in Seq(WrittenType)
  BY <1>1 DEF TypeInv
<1>5. app[cl].out \in Seq(OutType) /\ app[cl].wrote \in Nat
  BY <1>4, MessagesAssumption DEF AppType
<1> QED
  BY <1>1, <1>2, <1>3, <1>4, <1>5 DEF DownInv, UpInv

LEMMA StepState ==
  ASSUME MessagesInv, NEW cl \in Clients, StartConnecting(cl) \/ GiveUp(cl)
  PROVE  MessagesInv'
<1>1. /\ TypeInv /\ EndsMeet(written, Processed, serverTick, world, buffer, cl,
                             link[cl], app[cl], updates[cl], seen[cl], down[cl])
      /\ OnceInv(app[cl].state, app[cl].out, app[cl].wrote, up[cl], handled[cl])
  BY ClientFacts
<1>2. /\ TypeInv' /\ OthersKept(app, app', cl) /\ app[cl].state # "Connected"
      /\ \E x \in {"Disconnected", "Connecting"} :
           AppIs(app'[cl], x, app[cl].protocol, app[cl].updateTick, app[cl].replica, app[cl].queue,
                 app[cl].out, app[cl].wrote, app[cl].session)
  BY <1>1, TypeState
<1>3. UNCHANGED <<serverVars, netVars, seen, seenLocally, handled>>
  BY DEF StartConnecting, GiveUp
<1>4. SameReceiver(app[cl], app'[cl]) /\ app'[cl].state # "Connected"
      /\ app'[cl].out = app[cl].out /\ app'[cl].wrote = app[cl].wrote
  BY <1>2 DEF SameReceiver, AppIs
<1>5. EndsMeet(written, Processed, serverTick, world, buffer, cl,
               link'[cl], app'[cl], updates'[cl], seen'[cl], down'[cl])
  <2>1. EndsMeet(written, Processed, serverTick, world, buffer, cl,
                 link[cl], app'[cl], updates[cl], seen[cl], down[cl])
    BY <1>1, <1>4, EndsMeetApp
  <2> QED
    BY <1>3, <2>1 DEF serverVars, netVars
<1>6. OnceInv(app'[cl].state, app'[cl].out, app'[cl].wrote, up'[cl], handled'[cl])
  <2>1. up'[cl] = up[cl] /\ handled'[cl] = handled[cl]
    BY <1>3 DEF netVars
  <2> QED
    BY <1>1, <1>2, <1>4, <2>1 DEF OnceInv
<1> QED
  BY <1>2, <1>3, <1>5, <1>6, ClientStep DEF SameServer, OthersKept, serverVars, netVars

LEMMA StepOpen ==
  ASSUME MessagesInv, NEW cl \in Clients, NEW protocol \in Protocols, Open(cl, protocol)
  PROVE  MessagesInv'
<1> DEFINE hash == [kind |-> "ProtocolHash", id |-> protocol, sent |-> FALSE]
<1>1. /\ TypeInv /\ EndsMeet(written, Processed, serverTick, world, buffer, cl,
                             link[cl], app[cl], updates[cl], seen[cl], down[cl])
      /\ OnceInv(app[cl].state, app[cl].out, app[cl].wrote, up[cl], handled[cl])
      /\ serverTick \in Nat /\ written \in Seq(WrittenType)
      /\ link[cl] \in LinkType /\ app[cl] \in AppType /\ app[cl].out \in Seq(OutType)
  BY ClientFacts
<1>2. /\ TypeInv' /\ OthersKept(app, app', cl) /\ OthersKept(link, link', cl)
      /\ AppIs(app'[cl], "Connected", protocol, app[cl].updateTick, app[cl].replica, app[cl].queue,
               Append(app[cl].out, hash), app[cl].wrote, app[cl].session + 1)
      /\ link'[cl] = [link[cl] EXCEPT !.status = "Waiting", !.session = app[cl].session + 1]
  BY <1>1, TypeOpen
<1>3. /\ app[cl].state # "Connected" /\ link[cl].status = "Absent"
      /\ seen' = [seen EXCEPT ![cl] = <<>>] /\ updates' = [updates EXCEPT ![cl] = <<>>]
      /\ down' = [down EXCEPT ![cl] = <<>>] /\ up' = [up EXCEPT ![cl] = <<>>]
      /\ UNCHANGED <<serverTick, world, spawned, toClients, buffer, disconnects, written, seenLocally, handled>>
  BY DEF Open
<1>4. /\ seen'[cl] = <<>> /\ updates'[cl] = <<>> /\ down'[cl] = <<>> /\ up'[cl] = <<>>
      /\ OthersKept(seen, seen', cl) /\ OthersKept(updates, updates', cl) /\ OthersKept(down, down', cl)
      /\ OthersKept(up, up', cl) /\ OthersKept(handled, handled', cl) /\ handled'[cl] = handled[cl]
  BY <1>1, <1>3 DEF TypeInv, OthersKept
<1>5. EndsMeet(written, Processed, serverTick, world, buffer, cl,
               link'[cl], app'[cl], updates'[cl], seen'[cl], down'[cl])
  <2>1. /\ app'[cl].state = "Connected" /\ app'[cl].updateTick = app[cl].updateTick
        /\ app'[cl].replica = app[cl].replica /\ app'[cl].queue = app[cl].queue
        /\ app'[cl].session = app[cl].session + 1
    BY <1>2 DEF AppIs
  <2>2. EndsMeet(written, Processed, serverTick, world, buffer, cl, link'[cl], app'[cl], <<>>, <<>>, <<>>)
    BY <1>1, <1>2, <1>3, <2>1, EndsMeetOpened
  <2> QED
    BY <1>4, <2>2
<1>6. OnceInv(app'[cl].state, app'[cl].out, app'[cl].wrote, up'[cl], handled'[cl])
  <2>1. hash \in OutType /\ ~IsMessage(hash)
    BY DEF OutType, UpKinds, UpIds, IsMessage
  <2> HIDE DEF hash
  <2>2. OnceInv("Connected", Append(app[cl].out, hash), app[cl].wrote, <<>>, handled[cl])
    BY <1>1, <2>1, OnceOpened
  <2> QED
    BY <1>2, <1>4, <2>2 DEF AppIs
<1>7. SameServer
  BY <1>3 DEF SameServer
<1> QED
  BY <1>2, <1>4, <1>5, <1>6, <1>7, ClientStep

LEMMA StepClientDrops ==
  ASSUME MessagesInv, NEW cl \in Clients, ClientDrops(cl)
  PROVE  MessagesInv'
<1>1. /\ TypeInv /\ EndsMeet(written, Processed, serverTick, world, buffer, cl,
                             link[cl], app[cl], updates[cl], seen[cl], down[cl])
      /\ OnceInv(app[cl].state, app[cl].out, app[cl].wrote, up[cl], handled[cl]) /\ Processed \in Nat
  BY ClientFacts
<1>2. /\ TypeInv' /\ OthersKept(app, app', cl)
      /\ AppIs(app'[cl], "Disconnected", app[cl].protocol, 0, {}, <<>>, <<>>, app[cl].wrote, app[cl].session)
  BY <1>1, TypeClientDrops
<1>3. /\ updates' = [updates EXCEPT ![cl] = <<>>] /\ down' = [down EXCEPT ![cl] = <<>>]
      /\ UNCHANGED <<serverVars, up, seen, seenLocally, handled>>
  BY DEF ClientDrops
<1>4. /\ updates'[cl] = <<>> /\ down'[cl] = <<>> /\ seen'[cl] = seen[cl] /\ up'[cl] = up[cl]
      /\ handled'[cl] = handled[cl] /\ link'[cl] = link[cl]
      /\ OthersKept(seen, seen', cl) /\ OthersKept(updates, updates', cl) /\ OthersKept(down, down', cl)
      /\ OthersKept(up, up', cl) /\ OthersKept(handled, handled', cl) /\ OthersKept(link, link', cl)
  BY <1>1, <1>3 DEF TypeInv, OthersKept, serverVars
<1>5. EndsMeet(written, Processed, serverTick, world, buffer, cl,
               link'[cl], app'[cl], updates'[cl], seen'[cl], down'[cl])
  <2>1. EndsMeet(written, Processed, serverTick, world, buffer, cl, link[cl], app'[cl], <<>>, seen[cl], <<>>)
    BY <1>1, <1>2, EndsMeetReset DEF AppIs
  <2> QED
    BY <1>4, <2>1
<1>6. OnceInv(app'[cl].state, app'[cl].out, app'[cl].wrote, up'[cl], handled'[cl])
  BY <1>1, <1>2, <1>4, OnceForgotten DEF AppIs
<1>7. SameServer
  BY <1>3 DEF SameServer, serverVars
<1> QED
  BY <1>2, <1>4, <1>5, <1>6, <1>7, ClientStep

\* A step that changes what the client sends, and nothing else of it.
LEMMA SendingStep ==
  ASSUME MessagesInv, NEW cl \in Clients, TypeInv', UNCHANGED <<serverVars, updates, down, seen, seenLocally>>,
         OthersKept(app, app', cl), OthersKept(up, up', cl), OthersKept(handled, handled', cl),
         SameReceiver(app[cl], app'[cl]),
         OnceInv(app'[cl].state, app'[cl].out, app'[cl].wrote, up'[cl], handled'[cl])
  PROVE  MessagesInv'
<1>1. EndsMeet(written, Processed, serverTick, world, buffer, cl, link[cl], app[cl], updates[cl], seen[cl], down[cl])
  BY ClientFacts
<1>2. EndsMeet(written, Processed, serverTick, world, buffer, cl,
               link[cl], app'[cl], updates[cl], seen[cl], down[cl])
  BY <1>1, EndsMeetApp
<1>3. /\ link' = link /\ updates' = updates /\ seen' = seen /\ down' = down /\ SameServer
  BY DEF serverVars, SameServer
<1>4. EndsMeet(written, Processed, serverTick, world, buffer, cl,
               link'[cl], app'[cl], updates'[cl], seen'[cl], down'[cl])
  BY <1>2, <1>3
<1>5. OthersKept(link, link', cl) /\ OthersKept(updates, updates', cl) /\ OthersKept(seen, seen', cl)
      /\ OthersKept(down, down', cl)
  BY <1>3 DEF OthersKept
<1> QED
  BY <1>3, <1>4, <1>5, ClientStep

LEMMA StepClientWrite ==
  ASSUME MessagesInv, NEW cl \in Clients, NEW kind \in UpKinds, ClientWrite(cl, kind)
  PROVE  MessagesInv'
<1> DEFINE m == [kind |-> kind, id |-> app[cl].wrote + 1, sent |-> FALSE]
<1>1. /\ TypeInv /\ OnceInv(app[cl].state, app[cl].out, app[cl].wrote, up[cl], handled[cl])
      /\ app[cl].out \in Seq(OutType) /\ app[cl].wrote \in Nat
  BY ClientFacts
<1>2. /\ TypeInv' /\ OthersKept(app, app', cl)
      /\ AppIs(app'[cl], app[cl].state, app[cl].protocol, app[cl].updateTick, app[cl].replica,
               app[cl].queue, Append(app[cl].out, m), app[cl].wrote + 1, app[cl].session)
  BY <1>1, TypeClientWrite
<1>3. /\ kind # "ProtocolHash" /\ UNCHANGED <<serverVars, netVars, seen, seenLocally, handled>>
  BY DEF ClientWrite
<1>4. m \in OutType /\ IsMessage(m) /\ m.id = app[cl].wrote + 1 /\ ~m.sent
  BY <1>1, <1>3 DEF OutType, UpIds, IsMessage
<1> HIDE DEF m
<1>5. OnceInv(app[cl].state, Append(app[cl].out, m), app[cl].wrote + 1, up[cl], handled[cl])
  BY <1>1, <1>4, OnceWritten
<1>6. UNCHANGED <<serverVars, updates, down, seen, seenLocally>> /\ up' = up /\ handled' = handled
  BY <1>3 DEF netVars
<1>7. OnceInv(app'[cl].state, app'[cl].out, app'[cl].wrote, up'[cl], handled'[cl])
  BY <1>2, <1>5, <1>6 DEF AppIs
<1>8. SameReceiver(app[cl], app'[cl])
  BY <1>2 DEF AppIs, SameReceiver
<1>9. OthersKept(up, up', cl) /\ OthersKept(handled, handled', cl)
  BY <1>6 DEF OthersKept
<1> QED
  BY <1>2, <1>6, <1>7, <1>8, <1>9, SendingStep

LEMMA StepSendRemotely ==
  ASSUME MessagesInv, NEW cl \in Clients, SendRemotely(cl)
  PROVE  MessagesInv'
<1>1. /\ TypeInv /\ OnceInv(app[cl].state, app[cl].out, app[cl].wrote, up[cl], handled[cl])
      /\ app[cl].out \in Seq(OutType) /\ up[cl] \in Seq(UpType) /\ handled[cl] \in Seq(HandledType)
  BY ClientFacts
<1>2. /\ TypeInv' /\ OthersKept(app, app', cl) /\ OthersKept(up, up', cl) /\ OthersKept(handled, handled', cl)
      /\ OutIs(cl, AsSent(NotSharedIn(app[cl].out)))
      /\ handled'[cl] = handled[cl] \o AsLocal(SharedIn(Unsent(app[cl].out)))
      /\ up'[cl] = up[cl] \/ up'[cl] = up[cl] \o AsUp(Unsent(app[cl].out))
  BY <1>1, TypeSendRemotely
<1>3. app[cl].state = "Connected" /\ UNCHANGED <<serverVars, updates, down, seen, seenLocally>>
  BY DEF SendRemotely
<1>4. OnceInv(app[cl].state, AsSent(NotSharedIn(app[cl].out)), app[cl].wrote, up'[cl],
              handled[cl] \o AsLocal(SharedIn(Unsent(app[cl].out))))
  BY <1>1, <1>2, <1>3, OnceSentRemotely
<1>5. OnceInv(app'[cl].state, app'[cl].out, app'[cl].wrote, up'[cl], handled'[cl])
  BY <1>2, <1>4 DEF OutIs, AppIs
<1>6. SameReceiver(app[cl], app'[cl])
  BY <1>2 DEF OutIs, AppIs, SameReceiver
<1> QED
  BY <1>2, <1>3, <1>5, <1>6, SendingStep

LEMMA StepSendLocally ==
  ASSUME MessagesInv, NEW cl \in Clients, SendLocally(cl)
  PROVE  MessagesInv'
<1>1. /\ TypeInv /\ OnceInv(app[cl].state, app[cl].out, app[cl].wrote, up[cl], handled[cl])
      /\ app[cl].out \in Seq(OutType) /\ handled[cl] \in Seq(HandledType)
  BY ClientFacts
<1>2. /\ TypeInv' /\ OthersKept(app, app', cl) /\ OthersKept(handled, handled', cl) /\ OutIs(cl, <<>>)
      /\ handled'[cl] = handled[cl] \o AsLocal(app[cl].out)
  BY <1>1, TypeSendLocally
<1>3. app[cl].state # "Connected" /\ UNCHANGED <<serverVars, netVars, seen, seenLocally>>
  BY DEF SendLocally
<1>4. OnceInv(app[cl].state, <<>>, app[cl].wrote, up[cl], handled[cl] \o AsLocal(app[cl].out))
  BY <1>1, <1>3, OnceSentLocally
<1>5. UNCHANGED <<serverVars, updates, down, seen, seenLocally>> /\ up' = up
  BY <1>3 DEF netVars
<1>6. OnceInv(app'[cl].state, app'[cl].out, app'[cl].wrote, up'[cl], handled'[cl])
  BY <1>2, <1>4, <1>5 DEF OutIs, AppIs
<1>7. SameReceiver(app[cl], app'[cl]) /\ OthersKept(up, up', cl)
  BY <1>2, <1>5 DEF OutIs, AppIs, SameReceiver, OthersKept
<1> QED
  BY <1>2, <1>5, <1>6, <1>7, SendingStep

LEMMA StepExpire ==
  ASSUME MessagesInv, NEW cl \in Clients, Expire(cl)
  PROVE  MessagesInv'
<1>1. /\ TypeInv /\ OnceInv(app[cl].state, app[cl].out, app[cl].wrote, up[cl], handled[cl])
      /\ app[cl].out \in Seq(OutType)
  BY ClientFacts
<1>2. /\ TypeInv' /\ OthersKept(app, app', cl)
      /\ OutIs(cl, <<>>) \/ OutIs(cl, Unsent(app[cl].out))
  BY <1>1, TypeExpire
<1>3. /\ UNCHANGED <<serverVars, updates, down, seen, seenLocally>> /\ up' = up /\ handled' = handled
  BY DEF Expire, netVars
<1>4. OnceInv(app'[cl].state, app'[cl].out, app'[cl].wrote, up'[cl], handled'[cl])
  <2>1. CASE OutIs(cl, <<>>)
    BY <1>1, <1>3, <2>1, OnceForgotten DEF OutIs, AppIs
  <2>2. CASE OutIs(cl, Unsent(app[cl].out))
    <3>1. Unsent(app[cl].out) \in Seq(OutType) /\ \E f : Thins(f, Unsent(app[cl].out), app[cl].out)
      BY <1>1, UnsentFacts
    <3>2. PICK f : Thins(f, Unsent(app[cl].out), app[cl].out)
      BY <3>1
    <3>3. \A i, j \in DOMAIN Unsent(app[cl].out) : f[i] = f[j] => i = j
      BY <1>1, <3>1, <3>2, ThinsApart
    <3>4. OnceInv(app[cl].state, Unsent(app[cl].out), app[cl].wrote, up[cl], handled[cl])
      BY <1>1, <3>2, <3>3, OnceThinned
    <3> QED
      BY <1>3, <2>2, <3>4 DEF OutIs, AppIs
  <2> QED
    BY <1>2, <2>1, <2>2
<1>5. SameReceiver(app[cl], app'[cl]) /\ OthersKept(up, up', cl) /\ OthersKept(handled, handled', cl)
  BY <1>2, <1>3 DEF OutIs, AppIs, SameReceiver, OthersKept
<1> QED
  BY <1>2, <1>3, <1>4, <1>5, SendingStep

\* A step of the client that receives, and sends nothing.
LEMMA ReceivingStep ==
  ASSUME MessagesInv, NEW cl \in Clients, TypeInv', UNCHANGED <<serverVars, up, seenLocally, handled>>,
         OthersKept(app, app', cl), OthersKept(updates, updates', cl), OthersKept(down, down', cl),
         OthersKept(seen, seen', cl),
         app'[cl].state = app[cl].state, app'[cl].out = app[cl].out, app'[cl].wrote = app[cl].wrote,
         EndsMeet(written, Processed, serverTick, world, buffer, cl,
                  link[cl], app'[cl], updates'[cl], seen'[cl], down'[cl])
  PROVE  MessagesInv'
<1>1. OnceInv(app[cl].state, app[cl].out, app[cl].wrote, up[cl], handled[cl])
  BY ClientFacts
<1>2. link' = link /\ up' = up /\ handled' = handled /\ SameServer
  BY DEF serverVars, SameServer
<1>3. OnceInv(app'[cl].state, app'[cl].out, app'[cl].wrote, up'[cl], handled'[cl])
  BY <1>1, <1>2
<1>4. OthersKept(link, link', cl) /\ OthersKept(up, up', cl) /\ OthersKept(handled, handled', cl)
  BY <1>2 DEF OthersKept
<1>5. EndsMeet(written, Processed, serverTick, world, buffer, cl,
               link'[cl], app'[cl], updates'[cl], seen'[cl], down'[cl])
  BY <1>2
<1> QED
  BY <1>2, <1>3, <1>4, <1>5, ClientStep

LEMMA StepReceiveReplication ==
  ASSUME MessagesInv, NEW cl \in Clients, NEW n \in DOMAIN updates[cl], ReceiveReplication(cl, n)
  PROVE  MessagesInv'
<1> DEFINE u == updates[cl][n]
           a == app[cl]
<1>1. /\ TypeInv /\ EndsMeet(written, Processed, serverTick, world, buffer, cl,
                             link[cl], a, updates[cl], seen[cl], down[cl])
      /\ Processed \in Nat /\ a \in AppType /\ updates[cl] \in Seq(UpdateType)
      /\ down[cl] \in Seq(PacketType) /\ seen[cl] \in Seq(Nat)
  BY ClientFacts
<1>2. /\ TypeInv' /\ u \in UpdateType
      /\ OthersKept(app, app', cl) /\ OthersKept(seen, seen', cl) /\ OthersKept(updates, updates', cl)
      /\ AppIs(app'[cl], a.state, a.protocol, u.tick, u.world, Remaining(a.queue, u.tick), a.out, a.wrote, a.session)
      /\ seen'[cl] = seen[cl] \o ShownBy(cl, u)
      /\ \A i \in DOMAIN updates'[cl] : \E k \in DOMAIN updates[cl] : updates'[cl][i] = updates[cl][k]
  BY <1>1, TypeReceiveReplication
<1>3. a.state = "Connected" /\ UNCHANGED <<serverVars, down, up, seenLocally, handled>>
  BY DEF ReceiveReplication
<1>4. u.tick \in Nat /\ a.queue \in Seq(PacketType)
  BY <1>1, <1>2, MessagesAssumption DEF UpdateType, Ticks, AppType
<1>5. /\ ShownBy(cl, u) \in Seq(Nat)
      /\ \E g : Reads(g, ShownBy(cl, u), a.queue, u.tick)
      /\ \A k \in DOMAIN a.queue :
           a.queue[k].tick <= u.tick /\ Maps(u.world, a.queue[k].id) =>
             \E i \in DOMAIN ShownBy(cl, u) : ShownBy(cl, u)[i] = a.queue[k].id
  BY <1>1, <1>2, ShownByFacts
<1>6. \A k \in DOMAIN a.queue :
        a.queue[k].tick <= u.tick /\ written[a.queue[k].id].entity \in u.world \cup {None} =>
          \E i \in DOMAIN ShownBy(cl, u) : ShownBy(cl, u)[i] = a.queue[k].id
  BY <1>5 DEF Maps
<1>7. /\ Remaining(a.queue, u.tick) \in Seq(PacketType)
      /\ \A k \in DOMAIN a.queue : a.queue[k].tick > u.tick =>
           \E i \in DOMAIN Remaining(a.queue, u.tick) : Remaining(a.queue, u.tick)[i] = a.queue[k]
      /\ \A i \in DOMAIN Remaining(a.queue, u.tick) : Remaining(a.queue, u.tick)[i].tick > u.tick
      /\ \E f : Thins(f, Remaining(a.queue, u.tick), a.queue)
  BY <1>4, RemainingFacts
<1>8. Applies(written, u, a, app'[cl], updates[cl], updates'[cl], ShownBy(cl, u))
  BY <1>2, <1>5, <1>6, <1>7 DEF AppIs, Applies
<1>9. app'[cl].queue = Remaining(a.queue, u.tick)
  BY <1>2 DEF AppIs
<1>10. app'[cl].state = a.state /\ app'[cl].out = a.out /\ app'[cl].wrote = a.wrote
  BY <1>2 DEF AppIs
<1> HIDE DEF a
<1>11. EndsMeet(written, Processed, serverTick, world, buffer, cl,
                link[cl], app'[cl], updates'[cl], seen[cl] \o ShownBy(cl, u), down[cl])
  BY <1>1, <1>3, <1>4, <1>5, <1>7, <1>8, <1>9, EndsMeetUpdated
<1>12. down' = down /\ OthersKept(down, down', cl)
  BY <1>3 DEF OthersKept
<1> QED
  BY <1>2, <1>3, <1>10, <1>11, <1>12, ReceivingStep DEF a

LEMMA LeavesFacts ==
  ASSUME NEW d \in Seq(PacketType), NEW p \in DOMAIN d
  PROVE  \E f : Leaves(f, RemoveAt(d, p), d, p)
<1>1. PICK f : /\ Thins(f, RemoveAt(d, p), d)
               /\ \A k \in DOMAIN d : k # p => \E i \in DOMAIN RemoveAt(d, p) : f[i] = k
               /\ \A i \in DOMAIN RemoveAt(d, p) : f[i] # p
  BY RemoveAtFacts
<1> QED
  BY <1>1 DEF Leaves

LEMMA StepReceiveMessage ==
  ASSUME MessagesInv, NEW cl \in Clients, NEW i \in DOMAIN down[cl], ReceiveMessage(cl, i)
  PROVE  MessagesInv'
<1> DEFINE m == down[cl][i]
           rest == RemoveAt(down[cl], i)
<1>1. /\ TypeInv /\ EndsMeet(written, Processed, serverTick, world, buffer, cl,
                             link[cl], app[cl], updates[cl], seen[cl], down[cl])
      /\ Processed \in Nat /\ app[cl] \in AppType
      /\ down[cl] \in Seq(PacketType) /\ seen[cl] \in Seq(Nat)
  BY ClientFacts
<1>2. /\ TypeInv' /\ OthersKept(app, app', cl) /\ OthersKept(seen, seen', cl)
      /\ OthersKept(down, down', cl) /\ down'[cl] = rest
      /\ Queues(cl, m) \/ Shows(cl, m) \/ Ignores(cl, m)
  BY <1>1, TypeReceiveMessage
<1>3. /\ app[cl].state = "Connected" /\ MayArrive(cl, i)
      /\ UNCHANGED <<serverVars, updates, up, seenLocally, handled>>
  BY DEF ReceiveMessage
<1>4. FirstOnChannel(written, down[cl], i)
  BY <1>3 DEF FirstOnChannel, MayArrive
<1>5. PICK f : Leaves(f, rest, down[cl], i)
  BY <1>1, LeavesFacts
<1> HIDE DEF rest
<1>6. /\ app'[cl].state = app[cl].state /\ app'[cl].out = app[cl].out /\ app'[cl].wrote = app[cl].wrote
      /\ EndsMeet(written, Processed, serverTick, world, buffer, cl,
                  link[cl], app'[cl], updates[cl], seen'[cl], rest)
  <2>1. CASE Queues(cl, m)
    <3>1. /\ m.tick > app[cl].updateTick /\ seen' = seen
          /\ app'[cl].state = app[cl].state /\ app'[cl].updateTick = app[cl].updateTick
          /\ app'[cl].replica = app[cl].replica /\ app'[cl].session = app[cl].session
          /\ app'[cl].queue = Enqueue(app[cl].queue, m)
          /\ app'[cl].out = app[cl].out /\ app'[cl].wrote = app[cl].wrote
      BY <2>1 DEF Queues, AppIs
    <3>2. EndsMeet(written, Processed, serverTick, world, buffer, cl,
                   link[cl], app'[cl], updates[cl], seen[cl], rest)
      BY <1>1, <1>3, <1>4, <1>5, <3>1, EndsMeetQueued
    <3> QED
      BY <3>1, <3>2
  <2>2. CASE Shows(cl, m)
    <3>1. m.tick <= app[cl].updateTick /\ app' = app /\ seen'[cl] = Append(seen[cl], m.id)
      BY <2>2 DEF Shows
    <3>2. EndsMeet(written, Processed, serverTick, world, buffer, cl,
                   link[cl], app[cl], updates[cl], Append(seen[cl], m.id), rest)
      BY <1>1, <1>4, <1>5, <3>1, EndsMeetShown
    <3> QED
      BY <3>1, <3>2
  <2>3. CASE Ignores(cl, m)
    <3>1. m.tick <= app[cl].updateTick /\ ~Maps(app[cl].replica, m.id) /\ app' = app /\ seen' = seen
      BY <2>3 DEF Ignores
    <3>2. ASSUME link[cl].status = "Authorized"
          PROVE  ~Due(written, m.id, world, <<cl, link[cl].session>>, link[cl].authSince)
      <4>1. MapsOnTime(written, world, app[cl], updates[cl], down[cl])
        BY <1>1, <1>3, <3>2 DEF EndsMeet, Mappable
      <4>2. written[m.id].kind = "Dependent" /\ written[m.id].entity \in world =>
              written[m.id].entity \in app[cl].replica
        BY <3>1, <4>1 DEF MapsOnTime
      <4> QED
        BY <3>1, <4>2 DEF Due, Maps
    <3>3. EndsMeet(written, Processed, serverTick, world, buffer, cl,
                   link[cl], app[cl], updates[cl], seen[cl], rest)
      BY <1>1, <1>5, <3>2, EndsMeetThinned
    <3> QED
      BY <3>1, <3>3
  <2> QED
    BY <1>2, <2>1, <2>2, <2>3
<1>7. updates' = updates /\ OthersKept(updates, updates', cl)
  BY <1>3 DEF OthersKept
<1> QED
  BY <1>2, <1>3, <1>6, <1>7, ReceivingStep

LEMMA StepLose ==
  ASSUME MessagesInv, NEW cl \in Clients, NEW i \in DOMAIN down[cl], Lose(cl, i)
  PROVE  MessagesInv'
<1> DEFINE rest == RemoveAt(down[cl], i)
<1>1. /\ TypeInv /\ EndsMeet(written, Processed, serverTick, world, buffer, cl,
                             link[cl], app[cl], updates[cl], seen[cl], down[cl])
      /\ down[cl] \in Seq(PacketType)
  BY ClientFacts
<1>2. TypeInv' /\ OthersKept(down, down', cl) /\ down'[cl] = rest
  BY <1>1, TypeLose
<1>3. /\ ChannelOf[written[down[cl][i].id].kind] = "Unreliable"
      /\ UNCHANGED <<serverVars, updates, up, clientVars>>
  BY DEF Lose
<1>4. PICK f : Leaves(f, rest, down[cl], i)
  BY <1>1, LeavesFacts
<1> HIDE DEF rest
<1>5. ~Due(written, down[cl][i].id, world, <<cl, link[cl].session>>, link[cl].authSince)
  BY <1>3 DEF Due
<1>6. EndsMeet(written, Processed, serverTick, world, buffer, cl,
               link[cl], app[cl], updates[cl], seen[cl], rest)
  BY <1>1, <1>4, <1>5, EndsMeetThinned
<1>7. /\ UNCHANGED <<serverVars, up, seenLocally, handled>> /\ app' = app /\ updates' = updates /\ seen' = seen
      /\ OthersKept(app, app', cl) /\ OthersKept(updates, updates', cl) /\ OthersKept(seen, seen', cl)
  BY <1>3 DEF clientVars, OthersKept
<1> QED
  BY <1>2, <1>6, <1>7, ReceivingStep

-----------------------------------------------------------------------------
(* The steps of the server.                                                *)

\* A step that leaves the clients as they are, but for what is on its way.
LEMMA ServerStep ==
  ASSUME MessagesInv, TypeInv', ServerOrder', app' = app, handled' = handled,
         \A c \in Clients : up'[c] = up[c] \/ up'[c] = <<>>,
         \A c \in Clients : EndsMeet(written', Processed', serverTick', world', buffer', c,
                                     link'[c], app[c], updates'[c], seen'[c], down'[c])
  PROVE  MessagesInv'
<1>1. ASSUME NEW c \in Clients PROVE DownInv(c)'
  BY DEF DownInv
<1>2. ASSUME NEW c \in Clients PROVE UpInv(c)'
  <2>1. OnceInv(app[c].state, app[c].out, app[c].wrote, up[c], handled[c])
    BY ClientFacts
  <2>2. OnceInv(app[c].state, app[c].out, app[c].wrote, <<>>, handled[c])
    BY <2>1, OnceUpCleared
  <2>3. OnceInv(app[c].state, app[c].out, app[c].wrote, up'[c], handled[c])
    BY <2>1, <2>2
  <2> QED
    BY <2>3 DEF UpInv
<1> QED
  BY <1>1, <1>2 DEF MessagesInv

\* Entities are spawned and despawned: no message refers to a new one.
LEMMA StepWorld ==
  ASSUME MessagesInv, NEW e \in Entities, Spawn(e) \/ Despawn(e)
  PROVE  MessagesInv'
<1>1. TypeInv /\ ServerOrder
  BY DEF MessagesInv
<1>2. UNCHANGED <<serverTick, toClients, buffer, link, disconnects, written, netVars, clientVars>>
  BY DEF Spawn, Despawn
<1>3. spawned \subseteq spawned' /\ spawned' \subseteq Entities /\ world' \subseteq spawned'
  BY <1>1 DEF Spawn, Despawn, TypeInv
<1>4. TypeInv'
  BY <1>1, <1>2, <1>3 DEF TypeInv, netVars, clientVars
<1>5. ServerOrder' /\ Processed' = Processed
  BY <1>1, <1>2, <1>3, OrderKept DEF clientVars
<1>6. \A id \in 1..Processed : written[id].entity \in world' => written[id].entity \in world
  <2>1. ASSUME NEW id \in 1..Processed, written[id].entity \in world'
        PROVE  written[id].entity \in world
    <3>1. id \in MessageIds
      BY <1>1, Counts
    <3>2. written[id].entity \in spawned \cup {None}
      BY <1>1, <3>1 DEF ServerOrder
    <3>3. None \notin Entities
      BY MessagesAssumption
    <3> QED
      BY <2>1, <3>2, <3>3 DEF Spawn, Despawn
  <2> QED
    BY <2>1
<1>7. ASSUME NEW c \in Clients
      PROVE  EndsMeet(written', Processed', serverTick', world', buffer', c,
                      link'[c], app[c], updates'[c], seen'[c], down'[c])
  <2>1. EndsMeet(written, Processed, serverTick, world, buffer, c, link[c], app[c], updates[c], seen[c], down[c])
    BY ClientFacts
  <2>2. EndsMeet(written, Processed, serverTick, world', buffer, c, link[c], app[c], updates[c], seen[c], down[c])
    BY <1>6, <2>1, EndsMeetAlive
  <2> QED
    BY <1>2, <1>5, <2>2 DEF netVars, clientVars
<1>8. app' = app /\ handled' = handled /\ up' = up
  BY <1>2 DEF netVars, clientVars
<1> QED
  BY <1>4, <1>5, <1>7, <1>8, ServerStep

\* What is written names the session of a client that is connected.
LEMMA EndsMeetNewTarget ==
  ASSUME MessagesInv, NEW m, Wrote(m), NEW c \in Clients,
         m.targets.who[1] = c => c \in Connected /\ m.targets.who = IdOf(c)
  PROVE  EndsMeet(written', Processed, serverTick, world, buffer, c,
                  link[c], app[c], updates[c], seen[c], down[c])
<1>1. /\ TypeInv /\ ServerOrder
      /\ EndsMeet(written, Processed, serverTick, world, buffer, c, link[c], app[c], updates[c], seen[c], down[c])
      /\ Processed \in Nat
  BY ClientFacts
<1>2. /\ DOMAIN written' = 1..(Len(written) + 1) /\ written'[Len(written) + 1] = m
      /\ \A id \in MessageIds : written'[id] = written[id]
  BY <1>1, WroteFacts
<1>3. /\ Len(written) \in Nat /\ DOMAIN written = 1..Len(written) /\ MessageIds = 1..Len(written)
      /\ Processed <= Len(written)
  BY <1>1, Counts
<1>4. TargetInv(written', c, link[c], app[c])
  <2>1. TargetInv(written, c, link[c], app[c])
    BY <1>1 DEF EndsMeet
  <2>2. ASSUME NEW id \in DOMAIN written', Addressee(written', id, c)
        PROVE  /\ 1 <= written'[id].targets.who[2] /\ written'[id].targets.who[2] <= app[c].session
               /\ link[c].status = "Waiting" => written'[id].targets.who[2] < app[c].session
    <3>1. CASE id \in MessageIds
      BY <1>2, <1>3, <2>1, <2>2, <3>1 DEF TargetInv, Addressee
    <3>2. CASE id = Len(written) + 1
      <4>1. c \in Connected /\ m.targets.who = IdOf(c)
        BY <1>2, <2>2, <3>2 DEF Addressee
      <4>2. m.targets.who[2] = link[c].session /\ link[c].status \in {"Connected", "Authorized"}
        BY <4>1 DEF IdOf, Connected
      <4>3. link[c].session = app[c].session /\ 1 <= app[c].session
        BY <1>1, <4>2 DEF EndsMeet, EndInv
      <4>4. app[c].session <= app[c].session
        <5>1. app[c].session \in Nat
          BY <1>1, MessagesAssumption DEF TypeInv, AppType, Sessions
        <5> QED
          BY <5>1
      <4> QED
        BY <1>2, <3>2, <4>2, <4>3, <4>4
    <3> QED
      BY <1>2, <1>3, <3>1, <3>2
  <2> QED
    BY <2>2 DEF TargetInv
<1>5. \A id \in 1..Processed : written'[id] = written[id]
  BY <1>1, <1>2, <1>3
<1>6. \A k \in DOMAIN buffer : buffer[k].id \in 1..Processed
  BY <1>1 DEF ServerOrder
<1> QED
  BY <1>1, <1>4, <1>5, <1>6, EndsMeetWrote

LEMMA StepWrite ==
  ASSUME MessagesInv, NEW kind \in Kinds, NEW targets \in Targets, NEW e \in Entities \cup {None},
         Write(kind, targets, e)
  PROVE  MessagesInv'
<1> DEFINE m == [kind |-> kind, entity |-> e, targets |-> [to |-> targets.to, who |-> IdOf(targets.who)]]
<1>1. TypeInv /\ ServerOrder
  BY DEF MessagesInv
<1>2. /\ Wrote(m)
      /\ UNCHANGED <<serverTick, world, spawned, buffer, link, disconnects, netVars, clientVars>>
      /\ targets.who \in Clients => targets.who \in Connected
  BY <1>1, WriteWrote
<1>3. TypeInv'
  BY <1>1, TypeWrite
<1>4. m.targets.who = IdOf(targets.who)
  OBVIOUS
<1> HIDE DEF m
<1>5. ServerOrder' /\ Processed' = Processed
  BY <1>1, <1>2, OrderWrote, WroteFacts DEF clientVars
<1>6. ASSUME NEW c \in Clients
      PROVE  EndsMeet(written', Processed', serverTick', world', buffer', c,
                      link'[c], app[c], updates'[c], seen'[c], down'[c])
  <2>1. m.targets.who[1] = c => c \in Connected /\ m.targets.who = IdOf(c)
    BY <1>2, <1>4 DEF IdOf
  <2>2. EndsMeet(written', Processed, serverTick, world, buffer, c,
                 link[c], app[c], updates[c], seen[c], down[c])
    BY <1>2, <2>1, EndsMeetNewTarget
  <2> QED
    BY <1>2, <1>5, <2>2 DEF netVars, clientVars
<1>7. app' = app /\ handled' = handled /\ up' = up
  BY <1>2 DEF netVars, clientVars
<1> QED
  BY <1>3, <1>5, <1>6, <1>7, ServerStep

LEMMA StepServerDrops ==
  ASSUME MessagesInv, NEW cl \in Clients, ServerDrops(cl)
  PROVE  MessagesInv'
<1>1. TypeInv /\ ServerOrder
  BY DEF MessagesInv
<1>2. TypeInv' /\ OthersKept(link, link', cl) /\ link'[cl] = NoLink
  BY <1>1, TypeDrops
<1>3. /\ up' = [up EXCEPT ![cl] = <<>>]
      /\ UNCHANGED <<serverTick, world, spawned, toClients, buffer, written, updates, down, clientVars>>
  BY DEF ServerDrops
<1>4. ServerOrder' /\ Processed' = Processed
  BY <1>1, <1>3, OrderKept DEF clientVars
<1>5. ASSUME NEW c \in Clients
      PROVE  EndsMeet(written', Processed', serverTick', world', buffer', c,
                      link'[c], app[c], updates'[c], seen'[c], down'[c])
  <2>1. /\ EndsMeet(written, Processed, serverTick, world, buffer, c, link[c], app[c], updates[c], seen[c], down[c])
        /\ Processed \in Nat /\ serverTick \in Nat
    BY ClientFacts
  <2>2. EndsMeet(written, Processed, serverTick, world, buffer, c, link'[c], app[c], updates[c], seen[c], down[c])
    <3>1. CASE c = cl
      <4>1. Processed <= Processed
        BY <2>1
      <4>2. EndsMeet(written, Processed, serverTick, world, buffer, c, NoLink, app[c], updates[c], seen[c], down[c])
        BY <2>1, <4>1, EndsMeetGone
      <4> QED
        BY <1>2, <3>1, <4>2
    <3>2. CASE c # cl
      BY <1>2, <2>1, <3>2 DEF OthersKept
    <3> QED
      BY <3>1, <3>2
  <2> QED
    BY <1>3, <1>4, <2>2 DEF clientVars
<1>6. app' = app /\ handled' = handled /\ \A c \in Clients : up'[c] = up[c] \/ up'[c] = <<>>
  BY <1>1, <1>3 DEF clientVars, TypeInv
<1> QED
  BY <1>2, <1>4, <1>5, <1>6, ServerStep

LEMMA StepRestart ==
  ASSUME MessagesInv, Restart
  PROVE  MessagesInv'
<1>1. TypeInv /\ ServerOrder
  BY DEF MessagesInv
<1>2. TypeInv' /\ ServerOrder' /\ Processed' = Len(written)
  BY <1>1, TypeRestart, OrderRestart
<1>3. /\ serverTick' = 0 /\ buffer' = <<>> /\ link' = [cl \in Clients |-> NoLink]
      /\ up' = [cl \in Clients |-> <<>>]
      /\ UNCHANGED <<world, spawned, written, updates, down, app, seen, handled>>
  BY DEF Restart
<1>4. ASSUME NEW c \in Clients
      PROVE  EndsMeet(written', Processed', serverTick', world', buffer', c,
                      link'[c], app[c], updates'[c], seen'[c], down'[c])
  <2>1. /\ EndsMeet(written, Processed, serverTick, world, buffer, c, link[c], app[c], updates[c], seen[c], down[c])
        /\ Processed \in Nat
    BY ClientFacts
  <2>2. Processed <= Len(written) /\ Len(written) \in Nat
    BY <1>1, Counts
  <2>3. EndsMeet(written, Len(written), 0, world, <<>>, c, NoLink, app[c], updates[c], seen[c], down[c])
    BY <2>1, <2>2, EndsMeetGone
  <2>4. link'[c] = NoLink
    BY <1>3
  <2> QED
    BY <1>2, <1>3, <2>3, <2>4
<1>5. \A c \in Clients : up'[c] = up[c] \/ up'[c] = <<>>
  BY <1>3
<1> QED
  BY <1>2, <1>3, <1>4, <1>5, ServerStep

LEMMA StepAccept ==
  ASSUME MessagesInv, NEW cl \in Clients, Accept(cl)
  PROVE  MessagesInv'
<1>1. TypeInv /\ ServerOrder
  BY DEF MessagesInv
<1>2. /\ TypeInv' /\ OthersKept(link, link', cl)
      /\ link'[cl] = [link[cl] EXCEPT !.status = "Connected", !.since = Processed]
  BY <1>1, TypeAccept
<1>3. /\ ServerOrder' /\ Processed' = Processed /\ DOMAIN buffer' = DOMAIN buffer
      /\ \A i \in DOMAIN buffer :
           buffer'[i].id = buffer[i].id /\ buffer'[i].excluded = buffer[i].excluded \cup {cl}
  BY <1>1, OrderAccept
<1>4. /\ link[cl].status = "Waiting"
      /\ UNCHANGED <<serverTick, world, spawned, toClients, disconnects, written, netVars, clientVars>>
  BY DEF Accept
<1>5. ASSUME NEW c \in Clients
      PROVE  EndsMeet(written', Processed', serverTick', world', buffer', c,
                      link'[c], app[c], updates'[c], seen'[c], down'[c])
  <2>1. /\ EndsMeet(written, Processed, serverTick, world, buffer, c, link[c], app[c], updates[c], seen[c], down[c])
        /\ Processed \in Nat /\ link[c] \in LinkType
    BY ClientFacts
  <2>2. EndsMeet(written, Processed, serverTick, world, buffer', c, link'[c], app[c], updates[c], seen[c], down[c])
    <3>1. CASE c = cl
      <4>1. /\ link'[c].status = "Connected" /\ link'[c].since = Processed
            /\ link'[c].session = link[c].session /\ link'[c].updateTick = link[c].updateTick
            /\ link'[c].known = link[c].known /\ link'[c].authSince = link[c].authSince
        BY <1>2, <2>1, <3>1 DEF LinkType
      <4>2. /\ DOMAIN buffer' = DOMAIN buffer
            /\ \A k \in DOMAIN buffer :
                 buffer'[k].id = buffer[k].id /\ buffer'[k].excluded = buffer[k].excluded \cup {c}
        BY <1>3, <3>1
      <4>3. link[c].status = "Waiting"
        BY <1>4, <3>1
      <4> QED
        BY <2>1, <4>1, <4>2, <4>3, EndsMeetAccepted
    <3>2. CASE c # cl
      <4>1. EndsMeet(written, Processed, serverTick, world, buffer', c, link[c], app[c], updates[c], seen[c], down[c])
        BY <1>3, <2>1, <3>2, EndsMeetExcluded
      <4> QED
        BY <1>2, <3>2, <4>1 DEF OthersKept
    <3> QED
      BY <3>1, <3>2
  <2> QED
    BY <1>3, <1>4, <2>2 DEF netVars, clientVars
<1>6. app' = app /\ handled' = handled /\ up' = up
  BY <1>4 DEF netVars, clientVars
<1> QED
  BY <1>2, <1>3, <1>5, <1>6, ServerStep

LEMMA StepServerReceive ==
  ASSUME MessagesInv, NEW cl \in Clients, NEW i \in DOMAIN up[cl], ServerReceive(cl, i)
  PROVE  MessagesInv'
<1> DEFINE rest == RemoveAt(up[cl], i)
           m == [kind |-> up[cl][i].kind, id |-> up[cl][i].id, at |-> Server]
<1>1. /\ TypeInv /\ ServerOrder
      /\ EndsMeet(written, Processed, serverTick, world, buffer, cl,
                  link[cl], app[cl], updates[cl], seen[cl], down[cl])
      /\ OnceInv(app[cl].state, app[cl].out, app[cl].wrote, up[cl], handled[cl])
      /\ Processed \in Nat /\ link[cl] \in LinkType /\ up[cl] \in Seq(UpType)
      /\ handled[cl] \in Seq(HandledType)
  BY ClientFacts
<1>2. /\ TypeInv' /\ OthersKept(link, link', cl) /\ OthersKept(up, up', cl) /\ OthersKept(handled, handled', cl)
      /\ up'[cl] = rest
      /\ ChecksHash(cl, i) =>
           link'[cl] = [link[cl] EXCEPT !.status = "Authorized", !.authSince = Processed]
      /\ HandlesMessage(cl, i) => handled'[cl] = Append(handled[cl], m)
  BY <1>1, TypeReceive
<1>3. /\ cl \in Connected
      /\ UNCHANGED <<serverTick, world, spawned, buffer, updates, down, app, seen, seenLocally>>
      /\ ChecksHash(cl, i) \/ RejectsHash(cl, i) \/ HandlesMessage(cl, i)
  BY ReceiveCases
<1>4. rest \in Seq(UpType)
      /\ \E f : Thins(f, rest, up[cl]) /\ \A k \in DOMAIN rest : f[k] # i
  BY <1>1, RemoveAtFacts
<1>5. PICK f : Thins(f, rest, up[cl]) /\ \A k \in DOMAIN rest : f[k] # i
  BY <1>4
<1> HIDE DEF rest
<1>6. \A j, k \in DOMAIN rest : f[j] = f[k] => j = k
  BY <1>1, <1>4, <1>5, ThinsApart
<1>7. OnceInv(app[cl].state, app[cl].out, app[cl].wrote, rest, handled[cl])
  BY <1>1, <1>5, <1>6, OnceUpThinned
<1>8. /\ OthersKept(app, app', cl) /\ OthersKept(updates, updates', cl) /\ OthersKept(down, down', cl)
      /\ OthersKept(seen, seen', cl)
  BY <1>3 DEF OthersKept
<1>9. CASE ChecksHash(cl, i)
  <2>1. SameServer /\ handled' = handled
    BY <1>3, <1>9 DEF ChecksHash, SameServer
  <2>2. link[cl].status \in {"Connected", "Authorized"}
    BY <1>3 DEF Connected
  <2>3. EndsMeet(written, Processed, serverTick, world, buffer, cl,
                 link'[cl], app[cl], updates[cl], seen[cl], down[cl])
    BY <1>1, <1>2, <1>9, <2>2, EndsMeetAuthorized
  <2>4. EndsMeet(written, Processed, serverTick, world, buffer, cl,
                 link'[cl], app'[cl], updates'[cl], seen'[cl], down'[cl])
    BY <1>3, <2>3
  <2>5. OnceInv(app'[cl].state, app'[cl].out, app'[cl].wrote, up'[cl], handled'[cl])
    BY <1>2, <1>3, <1>7, <2>1
  <2> QED
    BY <1>2, <1>8, <2>1, <2>4, <2>5, ClientStep
<1>10. CASE HandlesMessage(cl, i)
  <2>1. SameServer /\ link' = link /\ up[cl][i].kind # "ProtocolHash"
    BY <1>3, <1>10 DEF HandlesMessage, SameServer
  <2>2. EndsMeet(written, Processed, serverTick, world, buffer, cl,
                 link'[cl], app'[cl], updates'[cl], seen'[cl], down'[cl])
    BY <1>1, <1>3, <2>1
  <2>3. up[cl][i] \in UpType
    BY <1>1, LenProperties, ElementOfSeq
  <2>4. m \in HandledType /\ m.kind = up[cl][i].kind /\ m.id = up[cl][i].id /\ m.at = Server
    BY <2>3 DEF UpType, HandledType
  <2>5. IsMessage(up[cl][i])
    BY <2>1 DEF IsMessage
  <2> HIDE DEF m
  <2>6. OnceInv(app[cl].state, app[cl].out, app[cl].wrote, rest, Append(handled[cl], m))
    BY <1>1, <1>5, <1>6, <2>4, <2>5, OnceHandled
  <2>7. OnceInv(app'[cl].state, app'[cl].out, app'[cl].wrote, up'[cl], handled'[cl])
    BY <1>2, <1>3, <1>10, <2>6
  <2> QED
    BY <1>2, <1>8, <2>1, <2>2, <2>7, ClientStep
<1>11. CASE RejectsHash(cl, i)
  <2>1. Wrote(Mismatch(cl)) /\ link' = link /\ handled' = handled
    BY <1>1, <1>11, MismatchWrote DEF RejectsHash
  <2>2. Mismatch(cl).targets.who = IdOf(cl)
    BY DEF Mismatch
  <2> DEFINE w == Mismatch(cl)
  <2> HIDE DEF w
  <2>3. ServerOrder' /\ Processed' = Processed
    BY <1>1, <1>3, <2>1, OrderWrote, WroteFacts
  <2>4. ASSUME NEW c \in Clients PROVE DownInv(c)'
    <3>1. w.targets.who[1] = c => c \in Connected /\ w.targets.who = IdOf(c)
      BY <1>3, <2>2 DEF IdOf, w
    <3>2. EndsMeet(written', Processed, serverTick, world, buffer, c,
                   link[c], app[c], updates[c], seen[c], down[c])
      BY <2>1, <3>1, EndsMeetNewTarget DEF w
    <3> QED
      BY <1>3, <2>1, <2>3, <3>2 DEF DownInv
  <2>5. ASSUME NEW c \in Clients PROVE UpInv(c)'
    <3>1. CASE c = cl
      BY <1>2, <1>3, <1>7, <2>1, <3>1 DEF UpInv
    <3>2. CASE c # cl
      <4>1. OnceInv(app[c].state, app[c].out, app[c].wrote, up[c], handled[c])
        BY ClientFacts
      <4> QED
        BY <1>2, <1>3, <2>1, <3>2, <4>1 DEF UpInv, OthersKept
    <3> QED
      BY <3>1, <3>2
  <2> QED
    BY <1>2, <2>3, <2>4, <2>5 DEF MessagesInv
<1> QED
  BY <1>3, <1>9, <1>10, <1>11

\* Whom a message is for, by the session that the client is in.
LEMMA RecipientIsFor ==
  ASSUME TypeInv, NEW cl \in Clients, NEW id \in DOMAIN written
  PROVE  /\ IdOf(cl) = <<cl, link[cl].session>>
         /\ IsRecipient(id, cl) <=> IsFor(written, id, IdOf(cl))
<1>1. IdOf(cl) = <<cl, link[cl].session>>
  BY DEF IdOf
<1>2. written[id] \in WrittenType
  BY LenProperties, ElementOfSeq DEF TypeInv
<1>3. written[id].targets.to \in {"All", "AllExcept", "Single"}
  BY <1>2 DEF WrittenType
<1> DEFINE t == written[id].targets
           r == IdOf(cl)
<1>4. IsRecipient(id, cl) = CASE t.to = "All" -> TRUE
                              [] t.to = "AllExcept" -> r # t.who
                              [] t.to = "Single" -> r = t.who
  BY DEF IsRecipient
<1>5. t.to \in {"All", "AllExcept", "Single"}
  BY <1>3
<1>6. IsFor(written, id, r) <=> \/ t.to = "All"
                                \/ t.to = "AllExcept" /\ r # t.who
                                \/ t.to = "Single" /\ r = t.who
  BY DEF IsFor
<1> HIDE DEF t, r
<1>7. IsRecipient(id, cl) <=> IsFor(written, id, r)
  BY <1>4, <1>5, <1>6
<1> QED
  BY <1>1, <1>7 DEF r

\* Who is sent a message at once: no client that was not accepted, and every
\* authorized client that the message is for.
LEMMA AddressedFacts ==
  ASSUME TypeInv, NEW cl \in Clients, NEW id \in DOMAIN written,
         TargetInv(written, cl, link[cl], app[cl]), NEW n, NEW tick, NEW s, NEW d,
         EndInv(n, tick, link[cl], app[cl], s, d)
  PROVE  /\ IdOf(cl) \in Addressed(id) => link[cl].status \notin {"Absent", "Waiting"}
         /\ IsFor(written, id, IdOf(cl)) /\ link[cl].status = "Authorized" => IdOf(cl) \in Addressed(id)
<1>1. /\ IdOf(cl) = <<cl, link[cl].session>> /\ (IsRecipient(id, cl) <=> IsFor(written, id, IdOf(cl)))
      /\ IdOf(Server)[1] = Server /\ Server # cl
  BY RecipientIsFor, MessagesAssumption DEF IdOf
<1>2. link[cl].session \in Nat /\ app[cl].session \in Nat
  <2>1. link[cl] \in LinkType /\ app[cl] \in AppType
    BY DEF TypeInv
  <2> QED
    BY <2>1, MessagesAssumption DEF LinkType, AppType, Sessions
<1>3. CASE written[id].targets.to = "Single"
  <2>1. Addressed(id) = {written[id].targets.who} \ {IdOf(Server)}
    BY <1>3 DEF Addressed
  <2>2. ASSUME IdOf(cl) \in Addressed(id) PROVE link[cl].status \notin {"Absent", "Waiting"}
    <3>1. written[id].targets.who = <<cl, link[cl].session>>
      BY <1>1, <2>1, <2>2
    <3>2. Addressee(written, id, cl) /\ written[id].targets.who[2] = link[cl].session
      BY <3>1 DEF Addressee
    <3>3. 1 <= link[cl].session /\ (link[cl].status = "Waiting" => link[cl].session < app[cl].session)
      BY <3>2 DEF TargetInv
    <3>4. link[cl].status # "Absent"
      BY <3>3 DEF EndInv, NoLink
    <3>5. link[cl].status # "Waiting"
      BY <1>2, <3>3 DEF EndInv
    <3> QED
      BY <3>4, <3>5
  <2>3. IsFor(written, id, IdOf(cl)) => IdOf(cl) = written[id].targets.who
    BY <1>3 DEF IsFor
  <2>4. IdOf(cl) # IdOf(Server)
    BY <1>1
  <2> QED
    BY <2>1, <2>2, <2>3, <2>4
<1>4. CASE written[id].targets.to # "Single"
  <2>1. Addressed(id) = {IdOf(c) : c \in {c \in Connected : IsRecipient(id, c)}}
    BY <1>4 DEF Addressed
  <2>2. ASSUME IdOf(cl) \in Addressed(id) PROVE link[cl].status \notin {"Absent", "Waiting"}
    <3>1. PICK c \in Connected : IdOf(cl) = IdOf(c)
      BY <2>1, <2>2
    <3>2. c = cl
      BY <1>1, <3>1 DEF IdOf
    <3> QED
      BY <3>2 DEF Connected
  <2>3. link[cl].status = "Authorized" => cl \in Connected
    BY DEF Connected
  <2> QED
    BY <1>1, <2>1, <2>2, <2>3
<1> QED
  BY <1>3, <1>4

\* A frame processes what was written.
LEMMA FrameProcesses ==
  ASSUME MessagesInv, NEW cl \in Clients
  PROVE  Processes(written, Processed, Len(written), cl, link[cl], buffer, Buffered, SentAtOnce(cl))
<1>1. /\ TypeInv /\ ServerOrder
      /\ EndsMeet(written, Processed, serverTick, world, buffer, cl, link[cl], app[cl], updates[cl], seen[cl], down[cl])
  BY ClientFacts
<1>2. /\ Len(written) \in Nat /\ Processed \in Nat /\ Processed <= Len(written)
      /\ Processed + Len(toClients) = Len(written) /\ Len(toClients) \in Nat
      /\ DOMAIN toClients = 1..Len(toClients) /\ DOMAIN written = 1..Len(written)
  BY <1>1, Counts
<1>3. /\ SentAtOnce(cl) \in Seq(PacketType) /\ Increasing(SentAtOnce(cl))
      /\ \A i \in DOMAIN SentAtOnce(cl) :
           /\ SentAtOnce(cl)[i].id \in (Processed + 1)..Len(written)
           /\ SentAtOnce(cl)[i].tick = 0
           /\ written[SentAtOnce(cl)[i].id].kind # "Dependent"
           /\ IdOf(cl) \in Addressed(SentAtOnce(cl)[i].id)
      /\ \A k \in DOMAIN toClients :
           written[toClients[k]].kind # "Dependent" /\ IdOf(cl) \in Addressed(toClients[k]) =>
             \E i \in DOMAIN SentAtOnce(cl) : SentAtOnce(cl)[i].id = toClients[k]
  BY <1>1, SentAtOnceFacts
<1>4. \A id \in DOMAIN written :
        /\ IdOf(cl) \in Addressed(id) => link[cl].status \notin {"Absent", "Waiting"}
        /\ IsFor(written, id, <<cl, link[cl].session>>) /\ link[cl].status = "Authorized" => IdOf(cl) \in Addressed(id)
  <2>1. TargetInv(written, cl, link[cl], app[cl]) /\ EndInv(Processed, serverTick, link[cl], app[cl], seen[cl], down[cl])
    BY <1>1 DEF EndsMeet
  <2> QED
    BY <1>1, <2>1, AddressedFacts, RecipientIsFor
<1>5. link[cl].status \in {"Absent", "Waiting"} => SentAtOnce(cl) = <<>>
  <2>1. ASSUME link[cl].status \in {"Absent", "Waiting"} PROVE SentAtOnce(cl) = <<>>
    <3>1. \A i \in DOMAIN SentAtOnce(cl) : SentAtOnce(cl)[i].id \in DOMAIN written
      BY <1>2, <1>3
    <3>2. DOMAIN SentAtOnce(cl) = {}
      BY <1>3, <1>4, <2>1, <3>1
    <3> QED
      BY <1>3, <3>2, NoEntries
  <2> QED
    BY <2>1
<1>6. \A id \in (Processed + 1)..Len(written) :
        id \in DOMAIN written /\ \E k \in DOMAIN toClients : toClients[k] = id
  <2>1. ASSUME NEW id \in (Processed + 1)..Len(written)
        PROVE  id \in DOMAIN written /\ \E k \in DOMAIN toClients : toClients[k] = id
    <3>1. id - Processed \in DOMAIN toClients /\ Processed + (id - Processed) = id /\ id \in DOMAIN written
      BY <1>2
    <3> QED
      BY <1>1, <3>1 DEF ServerOrder
  <2> QED
    BY <2>1
<1>7. /\ \A i \in DOMAIN Buffered : (\E j \in DOMAIN buffer : Buffered[i] = buffer[j]) \/ Buffered[i].id > Processed
      /\ \A j \in DOMAIN buffer : \E i \in DOMAIN Buffered : Buffered[i] = buffer[j]
      /\ \A k \in DOMAIN toClients : written[toClients[k]].kind = "Dependent" =>
           \E i \in DOMAIN Buffered : Buffered[i].id = toClients[k] /\ Buffered[i].excluded = {}
  BY <1>1, BufferedFacts
<1>8. ASSUME NEW id \in (Processed + 1)..Len(written)
      PROVE  IF written[id].kind = "Dependent"
             THEN \E i \in DOMAIN Buffered : Buffered[i].id = id /\ Buffered[i].excluded = {}
             ELSE IsFor(written, id, <<cl, link[cl].session>>) /\ link[cl].status = "Authorized"
                    => \E i \in DOMAIN SentAtOnce(cl) : SentAtOnce(cl)[i].id = id
  <2>1. PICK k \in DOMAIN toClients : toClients[k] = id
    BY <1>6
  <2>2. CASE written[id].kind = "Dependent"
    <3>1. \E i \in DOMAIN Buffered : Buffered[i].id = id /\ Buffered[i].excluded = {}
      BY <1>7, <2>1, <2>2
    <3> QED
      BY <2>2, <3>1
  <2>3. CASE written[id].kind # "Dependent"
    <3>1. ASSUME IsFor(written, id, <<cl, link[cl].session>>), link[cl].status = "Authorized"
          PROVE  \E i \in DOMAIN SentAtOnce(cl) : SentAtOnce(cl)[i].id = id
      <4>1. IdOf(cl) \in Addressed(id)
        BY <1>4, <1>6, <3>1
      <4> QED
        BY <1>3, <2>1, <2>3, <4>1
    <3> QED
      BY <2>3, <3>1
  <2> QED
    BY <2>2, <2>3
<1> QED
  BY <1>2, <1>3, <1>5, <1>7, <1>8 DEF Processes

\* What replication leaves of a client in a frame that increments the tick.
LEMMA FrameUpdates ==
  ASSUME TypeInv, NEW cl \in Clients, ServerFrame(TRUE)
  PROVE  /\ Updated(link[cl], AfterReplication(cl, TRUE), updates[cl], updates'[cl], serverTick, world)
         /\ AfterReplication(cl, TRUE) \in LinkType /\ AfterReplication(cl, TRUE).updateTick \in Ticks
<1>1. /\ serverTick < MaxTick
      /\ updates'[cl] = IF Replicates(cl, TRUE)
                        THEN Append(updates[cl], [tick |-> serverTick + 1, world |-> world]) ELSE updates[cl]
  BY DEF ServerFrame
<1>2. AfterReplication(cl, TRUE) \in LinkType /\ (Replicates(cl, TRUE) => serverTick + 1 \in Ticks)
  BY <1>1, AfterReplicationType
<1>3. AfterReplication(cl, TRUE).updateTick \in Ticks
  BY <1>2 DEF LinkType
<1>4. link[cl] \in LinkType /\ updates[cl] \in Seq(UpdateType) /\ world \in SUBSET Entities
  BY DEF TypeInv
<1>5. CASE Replicates(cl, TRUE)
  <2> DEFINE u == [tick |-> serverTick + 1, world |-> world]
             m == AfterReplication(cl, TRUE)
  <2>1. m = [link[cl] EXCEPT !.updateTick = serverTick + 1, !.known = world]
    BY <1>5 DEF AfterReplication
  <2>2. /\ m.updateTick = serverTick + 1 /\ m.known = world /\ m.status = link[cl].status
        /\ m.session = link[cl].session /\ m.since = link[cl].since /\ m.authSince = link[cl].authSince
    BY <1>4, <2>1 DEF LinkType
  <2>3. u \in UpdateType /\ u.tick = serverTick + 1 /\ u.world = world
    BY <1>2, <1>4, <1>5 DEF UpdateType
  <2>4. updates'[cl] = Append(updates[cl], u)
    BY <1>1, <1>5
  <2> HIDE DEF u
  <2>5. \A i \in DOMAIN updates'[cl] :
          (\E j \in DOMAIN updates[cl] : updates'[cl][i] = updates[cl][j]) \/ updates'[cl][i] = u
    BY <1>4, <2>3, <2>4, AppendProperties, LenProperties
  <2>6. link[cl].status = "Authorized"
    BY <1>5 DEF Replicates, Authorized
  <2>7. Updated(link[cl], m, updates[cl], updates'[cl], serverTick, world)
    BY <2>2, <2>3, <2>5, <2>6 DEF Updated
  <2> QED
    BY <1>2, <1>3, <2>7
<1>6. CASE ~Replicates(cl, TRUE)
  <2>1. AfterReplication(cl, TRUE) = link[cl] /\ updates'[cl] = updates[cl]
    BY <1>1, <1>6 DEF AfterReplication
  <2>2. link[cl].status = "Authorized" => link[cl].known = world
    BY <1>6 DEF Replicates, Authorized
  <2> QED
    BY <1>2, <1>3, <2>1, <2>2 DEF Updated
<1> QED
  BY <1>5, <1>6

\* What the buffer sends to a client in such a frame.
LEMMA FrameSends ==
  ASSUME TypeInv, ServerOrder, NEW cl \in Clients, AfterReplication(cl, TRUE).updateTick \in Ticks
  PROVE  /\ SentFromBuffer(cl) \in Seq(PacketType)
         /\ SendsBuffer(written, cl, link[cl], AfterReplication(cl, TRUE).updateTick, Buffered, SentFromBuffer(cl))
<1> DEFINE e == SentFromBuffer(cl)
           b == Buffered
           t == AfterReplication(cl, TRUE).updateTick
<1>1. /\ e \in Seq(PacketType) /\ Increasing(e)
      /\ \A i \in DOMAIN e :
           /\ e[i].tick = t /\ cl \in Authorized
           /\ \E k \in DOMAIN b : e[i].id = b[k].id /\ cl \notin b[k].excluded /\ IsRecipient(b[k].id, cl)
      /\ \A k \in DOMAIN b :
           cl \in Authorized /\ cl \notin b[k].excluded /\ IsRecipient(b[k].id, cl) =>
             \E i \in DOMAIN e : e[i].id = b[k].id
  BY SentFromBufferFacts
<1>2. \A k \in DOMAIN b : b[k].id \in DOMAIN written
  BY BufferedFacts, Counts
<1>3. \A id \in DOMAIN written : IsRecipient(id, cl) <=> IsFor(written, id, <<cl, link[cl].session>>)
  BY RecipientIsFor
<1>4. cl \in Authorized <=> link[cl].status = "Authorized"
  BY DEF Authorized
<1> HIDE DEF e, b, t
<1>5. \A i \in DOMAIN e : e[i].tick = t /\ link[cl].status = "Authorized" /\ Stored(e[i].id, b, cl)
  <2>1. ASSUME NEW i \in DOMAIN e
        PROVE  e[i].tick = t /\ link[cl].status = "Authorized" /\ Stored(e[i].id, b, cl)
    <3>1. PICK k \in DOMAIN b : e[i].id = b[k].id /\ cl \notin b[k].excluded
      BY <1>1
    <3> QED
      BY <1>1, <1>4, <3>1 DEF Stored
  <2> QED
    BY <2>1
<1>6. ASSUME NEW id, link[cl].status = "Authorized", Stored(id, b, cl), IsFor(written, id, <<cl, link[cl].session>>)
      PROVE  \E i \in DOMAIN e : e[i].id = id
  <2>1. PICK k \in DOMAIN b : b[k].id = id /\ cl \notin b[k].excluded
    BY <1>6 DEF Stored
  <2>2. IsRecipient(b[k].id, cl)
    BY <1>2, <1>3, <1>6, <2>1
  <2> QED
    BY <1>1, <1>4, <1>6, <2>1, <2>2
<1>7. SendsBuffer(written, cl, link[cl], t, b, e)
  BY <1>1, <1>5, <1>6 DEF SendsBuffer
<1> QED
  BY <1>1, <1>7 DEF e, b, t

\* One frame of the server.
LEMMA StepFrame ==
  ASSUME MessagesInv, NEW ticks \in BOOLEAN, ServerFrame(ticks)
  PROVE  MessagesInv'
<1>1. TypeInv /\ ServerOrder
  BY DEF MessagesInv
<1>2. TypeInv' /\ ServerOrder' /\ Processed' = Len(written)
  BY <1>1, TypeFrame, OrderFrame
<1>3. /\ serverTick' = IF ticks THEN serverTick + 1 ELSE serverTick
      /\ buffer' = IF ticks THEN <<>> ELSE Buffered
      /\ UNCHANGED <<world, spawned, written, app, seen, handled>>
  BY DEF ServerFrame
<1>4. Buffered \in Seq(StoredType)
      /\ \A k \in DOMAIN Buffered : Buffered[k].id \in 1..Len(written) /\ written[Buffered[k].id].kind = "Dependent"
  BY <1>1, BufferedFacts
<1>5. Len(written) \in Nat /\ serverTick \in Nat
  BY <1>1, Counts, MessagesAssumption DEF TypeInv, Ticks
<1>6. ASSUME NEW c \in Clients
      PROVE  EndsMeet(written', Processed', serverTick', world', buffer', c,
                      link'[c], app[c], updates'[c], seen'[c], down'[c])
  <2> DEFINE sent == SentAtOnce(c)
             z == down[c] \o sent
             late == IF ticks THEN SentFromBuffer(c) ELSE <<>>
             m == AfterReplication(c, ticks)
             k == Len(written)
  <2>1. /\ EndsMeet(written, Processed, serverTick, world, buffer, c, link[c], app[c], updates[c], seen[c], down[c])
        /\ Processed \in Nat /\ link[c] \in LinkType /\ app[c] \in AppType /\ updates[c] \in Seq(UpdateType)
        /\ down[c] \in Seq(PacketType) /\ seen[c] \in Seq(Nat)
    BY ClientFacts
  <2>2. sent \in Seq(PacketType) /\ Processes(written, Processed, k, c, link[c], buffer, Buffered, sent)
    BY <1>1, SentAtOnceFacts, FrameProcesses
  <2>3. EndsMeet(written, k, serverTick, world, Buffered, c, link[c], app[c], updates[c], seen[c], z)
    BY <1>4, <1>5, <2>1, <2>2, EndsMeetProcessed
  <2>4. z \in Seq(PacketType)
    BY <2>1, <2>2, ConcatProperties
  <2>5. /\ down'[c] = z \o late
        /\ updates'[c] = IF Replicates(c, ticks)
                         THEN Append(updates[c], [tick |-> serverTick + 1, world |-> world]) ELSE updates[c]
        /\ link'[c] = IF c \in disconnects THEN NoLink ELSE m
    BY DEF ServerFrame
  <2> HIDE DEF sent, z, k
  <2>6. EndsMeet(written, k, serverTick', world, buffer', c, m, app[c], updates'[c], seen[c], down'[c])
    <3>1. CASE ticks
      <4>1. ServerFrame(TRUE) /\ ticks = TRUE
        BY <3>1
      <4>2. /\ Updated(link[c], AfterReplication(c, TRUE), updates[c], updates'[c], serverTick, world)
            /\ AfterReplication(c, TRUE).updateTick \in Ticks
        BY <1>1, <4>1, FrameUpdates
      <4>3. /\ SentFromBuffer(c) \in Seq(PacketType)
            /\ SendsBuffer(written, c, link[c], AfterReplication(c, TRUE).updateTick, Buffered, SentFromBuffer(c))
        BY <1>1, <4>2, FrameSends
      <4>4. k \in Nat /\ \A i \in DOMAIN Buffered : Buffered[i].id \in 1..k /\ written[Buffered[i].id].kind = "Dependent"
        BY <1>4, <1>5 DEF k
      <4>5. EndsMeet(written, k, serverTick + 1, world, <<>>, c, AfterReplication(c, TRUE), app[c], updates'[c],
                     seen[c], z \o SentFromBuffer(c))
        BY <1>4, <1>5, <2>1, <2>3, <2>4, <4>2, <4>3, <4>4, EndsMeetSent
      <4> QED
        BY <1>3, <2>5, <3>1, <4>1, <4>5
    <3>2. CASE ~ticks
      <4>1. late = <<>> /\ m = link[c] /\ updates'[c] = updates[c]
        BY <2>5, <3>2 DEF Replicates, AfterReplication
      <4>2. down'[c] = z
        BY <2>4, <2>5, <4>1, ConcatEmptySeq
      <4> QED
        BY <1>3, <2>3, <3>2, <4>1, <4>2
    <3> QED
      BY <3>1, <3>2
  <2>7. EndsMeet(written, k, serverTick', world, buffer', c, link'[c], app[c], updates'[c], seen[c], down'[c])
    <3>1. CASE c \in disconnects
      <4>1. serverTick' \in Nat /\ k \in Nat /\ k <= k
        BY <1>3, <1>5 DEF k
      <4>2. EndsMeet(written, k, serverTick', world, buffer', c, NoLink, app[c], updates'[c], seen[c], down'[c])
        BY <2>6, <4>1, EndsMeetGone
      <4> QED
        BY <2>5, <3>1, <4>2
    <3>2. CASE c \notin disconnects
      BY <2>5, <2>6, <3>2
    <3> QED
      BY <3>1, <3>2
  <2> QED
    BY <1>2, <1>3, <2>7 DEF k
<1>7. \A c \in Clients : up'[c] = up[c] \/ up'[c] = <<>>
  BY DEF ServerFrame
<1> QED
  BY <1>2, <1>3, <1>6, <1>7, ServerStep

-----------------------------------------------------------------------------
(* The invariant.                                                          *)

LEMMA InitInv == Init => MessagesInv
<1> SUFFICES ASSUME Init PROVE MessagesInv
  OBVIOUS
<1>1. TypeInv
  BY TypeInit
<1>2. /\ toClients = <<>> /\ written = <<>> /\ seenLocally = <<>> /\ buffer = <<>>
      /\ serverTick = 0 /\ world = {}
  BY DEF Init
<1>3. Len(written) = 0 /\ Len(toClients) = 0 /\ Processed = 0 /\ MessageIds = {}
  BY <1>2 DEF Processed, MessageIds
<1>4. ServerOrder
  BY <1>2, <1>3 DEF ServerOrder
<1>5. ASSUME NEW cl \in Clients PROVE DownInv(cl) /\ UpInv(cl)
  <2>1. /\ link[cl] = NoLink /\ app[cl] = NewApp /\ updates[cl] = <<>> /\ down[cl] = <<>>
        /\ up[cl] = <<>> /\ seen[cl] = <<>> /\ handled[cl] = <<>>
    BY <1>5 DEF Init
  <2>2. /\ NoLink.status = "Absent" /\ NoLink.updateTick = 0 /\ NoLink.since = 0 /\ NoLink.authSince = 0
    BY DEF NoLink
  <2>3. /\ NewApp.state = "Disconnected" /\ NewApp.updateTick = 0 /\ NewApp.replica = {} /\ NewApp.queue = <<>>
        /\ NewApp.out = <<>> /\ NewApp.wrote = 0
    BY DEF NewApp
  <2> HIDE DEF NoLink, NewApp
  <2>4. EndsMeet(<<>>, 0, 0, {}, <<>>, cl, NoLink, NewApp, <<>>, <<>>, <<>>)
    <3>1. TargetInv(<<>>, cl, NoLink, NewApp)
      BY DEF TargetInv
    <3>2. EndInv(0, 0, NoLink, NewApp, <<>>, <<>>)
      BY <2>2, <2>3 DEF EndInv
    <3>3. Line(<<>>, 0, NewApp.updateTick, <<>>, NewApp.queue, <<>>)
      BY <2>3 DEF Line, Ascending, AscendingPackets, AllBefore, AllPrecede
    <3>4. BehindLine(<<>>, <<>>, NewApp.queue, <<>>, <<>>)
      BY DEF BehindLine
    <3>5. /\ Audience(<<>>, cl, NoLink, NewApp, <<>>, <<>>) /\ Mappable(<<>>, {}, NoLink, NewApp, <<>>, <<>>)
          /\ Kept(<<>>, 0, {}, <<>>, cl, NoLink, NewApp, <<>>, <<>>)
      BY <2>2 DEF Audience, Mappable, Kept
    <3> QED
      BY <3>1, <3>2, <3>3, <3>4, <3>5 DEF EndsMeet
  <2>5. OnceInv("Disconnected", <<>>, 0, <<>>, <<>>)
    BY DEF OnceInv, Numbered, DistinctIds, HandledApart, NotYetIn, OnlySharedLocally
  <2> QED
    BY <1>2, <1>3, <2>1, <2>3, <2>4, <2>5 DEF DownInv, UpInv
<1> QED
  BY <1>1, <1>4, <1>5 DEF MessagesInv

LEMMA StutterInv ==
  ASSUME MessagesInv, UNCHANGED vars
  PROVE  MessagesInv'
<1>1. /\ UNCHANGED <<serverTick, world, spawned, toClients, buffer, link, disconnects, written>>
      /\ UNCHANGED <<updates, down, up, app, seen, seenLocally, handled>>
  BY DEF vars, serverVars, netVars, clientVars
<1>2. TypeInv' /\ ServerOrder' /\ Processed' = Processed
  BY <1>1 DEF MessagesInv, TypeInv, ServerOrder, Processed, MessageIds
<1>3. \A cl \in Clients : DownInv(cl)' /\ UpInv(cl)'
  BY <1>1, <1>2 DEF MessagesInv, DownInv, UpInv
<1> QED
  BY <1>2, <1>3 DEF MessagesInv

LEMMA NextInv ==
  ASSUME MessagesInv, Next
  PROVE  MessagesInv'
<1>1. CASE ServerNext
  <2>1. ASSUME NEW e \in Entities, Spawn(e) \/ Despawn(e) PROVE MessagesInv'
    BY <2>1, StepWorld
  <2>2. ASSUME NEW kind \in Kinds, NEW targets \in Targets, NEW e \in Entities \cup {None}, Write(kind, targets, e)
        PROVE  MessagesInv'
    BY <2>2, StepWrite
  <2>3. ASSUME NEW ticks \in BOOLEAN, ServerFrame(ticks) PROVE MessagesInv'
    BY <2>3, StepFrame
  <2>4. CASE Restart
    BY <2>4, StepRestart
  <2>5. ASSUME NEW cl \in Clients, Accept(cl) \/ ServerDrops(cl) PROVE MessagesInv'
    BY <2>5, StepAccept, StepServerDrops
  <2>6. ASSUME NEW cl \in Clients, NEW i \in DOMAIN up[cl], ServerReceive(cl, i) PROVE MessagesInv'
    BY <2>6, StepServerReceive
  <2> QED
    BY <1>1, <2>1, <2>2, <2>3, <2>4, <2>5, <2>6 DEF ServerNext
<1>2. ASSUME NEW cl \in Clients, Client(cl) PROVE MessagesInv'
  <2>1. CASE StartConnecting(cl) \/ GiveUp(cl)
    BY <2>1, StepState
  <2>2. CASE ClientDrops(cl)
    BY <2>2, StepClientDrops
  <2>3. ASSUME NEW protocol \in Protocols, Open(cl, protocol) PROVE MessagesInv'
    BY <2>3, StepOpen
  <2>4. ASSUME NEW kind \in UpKinds, ClientWrite(cl, kind) PROVE MessagesInv'
    BY <2>4, StepClientWrite
  <2>5. CASE SendRemotely(cl) \/ SendLocally(cl) \/ Expire(cl)
    BY <2>5, StepSendRemotely, StepSendLocally, StepExpire
  <2>6. ASSUME NEW n \in DOMAIN updates[cl], ReceiveReplication(cl, n) PROVE MessagesInv'
    BY <2>6, StepReceiveReplication
  <2>7. ASSUME NEW i \in DOMAIN down[cl], ReceiveMessage(cl, i) \/ Lose(cl, i) PROVE MessagesInv'
    BY <2>7, StepReceiveMessage, StepLose
  <2> QED
    BY <1>2, <2>1, <2>2, <2>3, <2>4, <2>5, <2>6, <2>7 DEF Client
<1> QED
  BY <1>1, <1>2 DEF Next

\* Every state that is reached has the invariant, for any clients, entities,
\* targets, channels and bounds.
THEOREM MessagesInvariant == Spec => []MessagesInv
<1>1. MessagesInv /\ [Next]_vars => MessagesInv'
  BY NextInv, StutterInv
<1> QED
  BY <1>1, InitInv, PTL DEF Spec

-----------------------------------------------------------------------------
(* What follows from it.                                                   *)

LEMMA InvTyped == MessagesInv => TypeOK
<1> SUFFICES ASSUME MessagesInv PROVE TypeOK
  OBVIOUS
<1>1. TypeInv /\ ServerOrder
  BY DEF MessagesInv
<1>2. /\ Len(written) \in Nat /\ Processed \in Nat /\ Processed <= Len(written) /\ MessageIds = 1..Len(written)
      /\ Processed + Len(toClients) = Len(written) /\ Len(toClients) \in Nat /\ DOMAIN toClients = 1..Len(toClients)
  BY <1>1, Counts
<1>3. \A id \in ToSet(toClients) \cup ToSet(seenLocally) : id \in MessageIds
  <2>1. ASSUME NEW i \in DOMAIN toClients PROVE toClients[i] \in MessageIds
    <3>1. toClients[i] = Processed + i /\ i \in 1..Len(toClients)
      BY <1>1, <1>2 DEF ServerOrder
    <3> QED
      BY <1>2, <3>1
  <2>2. \A i \in DOMAIN seenLocally : seenLocally[i] \in MessageIds
    BY <1>1 DEF ServerOrder
  <2> QED
    BY <2>1, <2>2 DEF ToSet
<1>4. \A i \in DOMAIN buffer : buffer[i] \in [id : MessageIds, excluded : SUBSET Clients]
  <2>1. ASSUME NEW i \in DOMAIN buffer PROVE buffer[i] \in [id : MessageIds, excluded : SUBSET Clients]
    <3>1. buffer[i] \in StoredType
      BY <1>1, LenProperties, ElementOfSeq DEF TypeInv
    <3>2. buffer[i].id \in MessageIds
      BY <1>1, <1>2 DEF ServerOrder
    <3> QED
      BY <3>1, <3>2 DEF StoredType
  <2> QED
    BY <2>1
<1>5. \A cl \in Clients :
        /\ EndInv(Processed, serverTick, link[cl], app[cl], seen[cl], down[cl])
        /\ Line(written, Processed, app[cl].updateTick, seen[cl], app[cl].queue, down[cl])
        /\ link[cl] \in LinkType /\ app[cl] \in AppType /\ down[cl] \in Seq(PacketType) /\ seen[cl] \in Seq(Nat)
  BY ClientFacts DEF EndsMeet
<1> DEFINE Linked == [status : {"Absent", "Waiting", "Connected", "Authorized"}, session : 0..MaxSession,
                      updateTick : 0..MaxTick, known : SUBSET Entities,
                      since : 0..Len(written), authSince : 0..Len(written)]
<1>6. link \in [Clients -> Linked]
  <2>1. ASSUME NEW cl \in Clients PROVE link[cl] \in Linked
    <3>1. link[cl].since \in Nat /\ link[cl].authSince \in Nat /\ link[cl].since <= Processed /\ link[cl].authSince <= Processed
      BY <1>5 DEF EndInv, LinkType
    <3>2. link[cl].since \in 0..Len(written) /\ link[cl].authSince \in 0..Len(written)
      BY <1>2, <3>1
    <3> QED
      BY <1>5, <3>2 DEF LinkType, Sessions, Ticks
  <2>2. link \in [Clients -> LinkType]
    BY <1>1 DEF TypeInv
  <2> QED
    BY <2>1, <2>2
<1>7. ASSUME NEW cl \in Clients
      PROVE  /\ app[cl].state \in {"Disconnected", "Connecting", "Connected"}
             /\ app[cl].session \in 0..MaxSession /\ app[cl].wrote \in 0..MaxMessages
             /\ app[cl].replica \subseteq Entities
             /\ \A m \in ToSet(down[cl]) \cup ToSet(app[cl].queue) : m \in [id : MessageIds, tick : 0..MaxTick]
             /\ ToSet(seen[cl]) \subseteq MessageIds
  <2>1. /\ app[cl].state \in {"Disconnected", "Connecting", "Connected"}
        /\ app[cl].session \in 0..MaxSession /\ app[cl].wrote \in 0..MaxMessages
        /\ app[cl].replica \subseteq Entities /\ app[cl].queue \in Seq(PacketType)
    BY <1>5 DEF AppType, Sessions
  <2>2. 1..Processed \subseteq MessageIds
    BY <1>2
  <2>3. /\ \A i \in DOMAIN seen[cl] : seen[cl][i] \in MessageIds
        /\ \A i \in DOMAIN down[cl] : down[cl][i].id \in MessageIds
        /\ \A i \in DOMAIN app[cl].queue : app[cl].queue[i].id \in MessageIds
    BY <1>5, <2>2 DEF Line
  <2>4. /\ \A i \in DOMAIN down[cl] : down[cl][i] \in PacketType
        /\ \A i \in DOMAIN app[cl].queue : app[cl].queue[i] \in PacketType
    BY <1>5, <2>1, LenProperties, ElementOfSeq
  <2>5. /\ \A i \in DOMAIN down[cl] : down[cl][i] \in [id : MessageIds, tick : 0..MaxTick]
        /\ \A i \in DOMAIN app[cl].queue : app[cl].queue[i] \in [id : MessageIds, tick : 0..MaxTick]
    BY <2>3, <2>4 DEF PacketType, Ticks
  <2> QED
    BY <2>1, <2>3, <2>5 DEF ToSet
<1>8. written \in Seq([kind : Kinds, targets : [to : {"All", "AllExcept", "Single"},
                                                who : (Clients \cup {Server, None}) \X Nat],
                       entity : Entities \cup {None}])
  BY <1>1 DEF TypeInv, WrittenType
<1> QED
  BY <1>1, <1>3, <1>4, <1>6, <1>7, <1>8 DEF TypeInv, TypeOK, Ticks

LEMMA InvInOrder == MessagesInv => SeenInOrder
<1> SUFFICES ASSUME MessagesInv, NEW cl \in Clients,
                    NEW i \in DOMAIN (seen[cl] \o Ids(app[cl].queue)),
                    NEW j \in DOMAIN (seen[cl] \o Ids(app[cl].queue)), i < j,
                    Chained(written, (seen[cl] \o Ids(app[cl].queue))[i], (seen[cl] \o Ids(app[cl].queue))[j])
             PROVE  (seen[cl] \o Ids(app[cl].queue))[i] < (seen[cl] \o Ids(app[cl].queue))[j]
  BY DEF SeenInOrder, Chained
<1> DEFINE s == seen[cl]
           q == app[cl].queue
           r == Ids(q)
           z == s \o r
<1>1. /\ Line(written, Processed, app[cl].updateTick, s, q, down[cl])
      /\ s \in Seq(Nat) /\ app[cl] \in AppType
  BY ClientFacts DEF EndsMeet
<1>2. q \in Seq(PacketType)
  BY <1>1 DEF AppType
<1>3. r \in Seq(Nat) /\ DOMAIN r = DOMAIN q /\ \A k \in DOMAIN q : r[k] = q[k].id
  <2>1. Len(q) \in Nat /\ DOMAIN q = 1..Len(q) /\ \A k \in DOMAIN q : q[k] \in PacketType
    BY <1>2, LenProperties, ElementOfSeq
  <2>2. r = [k \in 1..Len(q) |-> q[k].id]
    BY <2>1 DEF Ids
  <2>3. \A k \in DOMAIN q : q[k].id \in Nat
    BY <2>1 DEF PacketType
  <2>4. r \in [1..Len(q) -> Nat]
    BY <2>1, <2>2, <2>3
  <2> QED
    BY <2>1, <2>2, <2>4, SeqDef
<1>4. i \in DOMAIN z /\ j \in DOMAIN z /\ i < j /\ Chained(written, z[i], z[j])
  OBVIOUS
<1> SUFFICES z[i] < z[j]
  OBVIOUS
<1> HIDE DEF s, q, r, z
<1>5. z = s \o r /\ Len(s) \in Nat /\ DOMAIN s = 1..Len(s) /\ i \in Int /\ j \in Int
  <2>1. z \in Seq(Nat)
    BY <1>1, <1>3, ConcatProperties DEF z
  <2>2. Len(z) \in Nat /\ DOMAIN z = 1..Len(z)
    BY <2>1, LenProperties
  <2> QED
    BY <1>1, <1>4, <2>2, LenProperties DEF z
<1>6. /\ \/ i \in DOMAIN s /\ z[i] = s[i]
         \/ i - Len(s) \in DOMAIN r /\ z[i] = r[i - Len(s)] /\ i \notin DOMAIN s
      /\ \/ j \in DOMAIN s /\ z[j] = s[j]
         \/ j - Len(s) \in DOMAIN r /\ z[j] = r[j - Len(s)] /\ j \notin DOMAIN s
  <2>1. \A k \in DOMAIN (s \o r) :
          \/ k \in DOMAIN s /\ (s \o r)[k] = s[k]
          \/ k - Len(s) \in DOMAIN r /\ (s \o r)[k] = r[k - Len(s)] /\ k \notin DOMAIN s
    BY <1>1, <1>3, ConcatEntries
  <2> QED
    BY <1>4, <1>5, <2>1
<1>7. Ascending(written, s) /\ AscendingPackets(written, q) /\ AllBefore(written, s, q)
  BY <1>1 DEF Line
<1>8. CASE i \in DOMAIN s /\ j \in DOMAIN s
  <2>1. z[i] = s[i] /\ z[j] = s[j]
    BY <1>6, <1>8
  <2> QED
    BY <1>4, <1>7, <1>8, <2>1 DEF Ascending
<1>9. CASE i \in DOMAIN s /\ j \notin DOMAIN s
  <2>1. z[i] = s[i] /\ j - Len(s) \in DOMAIN q /\ z[j] = q[j - Len(s)].id
    BY <1>3, <1>6, <1>9
  <2> QED
    BY <1>4, <1>7, <1>9, <2>1 DEF AllBefore
<1>10. CASE i \notin DOMAIN s /\ j \notin DOMAIN s
  <2>1. /\ i - Len(s) \in DOMAIN q /\ z[i] = q[i - Len(s)].id
        /\ j - Len(s) \in DOMAIN q /\ z[j] = q[j - Len(s)].id
    BY <1>3, <1>6, <1>10
  <2>2. i - Len(s) < j - Len(s)
    BY <1>4, <1>5
  <2>3. Precedes(written, q[i - Len(s)], q[j - Len(s)])
    BY <1>7, <2>1, <2>2 DEF AscendingPackets
  <2> QED
    BY <1>4, <2>1, <2>3 DEF Precedes
<1>11. ~(i \notin DOMAIN s /\ j \in DOMAIN s)
  <2>1. j \in DOMAIN z /\ i \in DOMAIN z
    BY <1>4
  <2>2. 1 <= i
    <3>1. DOMAIN z = 1..Len(z)
      <4>1. z \in Seq(Nat)
        BY <1>1, <1>3, <1>5, ConcatProperties
      <4> QED
        BY <4>1, LenProperties
    <3> QED
      BY <2>1, <3>1
  <2> QED
    BY <1>4, <1>5, <2>2
<1> QED
  BY <1>8, <1>9, <1>10, <1>11

\* An entry of a sequence is one of the set of its entries.
LEMMA EntryOf ==
  ASSUME NEW S, NEW s \in Seq(S), NEW i \in DOMAIN s
  PROVE  s[i] \in ToSet(s)
BY DEF ToSet

\* The ids of messages are those of its entries.
LEMMA IdsOfEntries ==
  ASSUME NEW S, NEW ms \in Seq(S)
  PROVE  /\ \A i \in DOMAIN ms : ms[i].id \in ToSet(Ids(ms))
         /\ \A id \in ToSet(Ids(ms)) : \E i \in DOMAIN ms : id = ms[i].id
BY DEF ToSet, Ids

LEMMA InvAudience == MessagesInv => AudienceIsExact
<1> SUFFICES ASSUME MessagesInv PROVE OldMessagesAreExcluded /\ NothingIsLost
  BY DEF AudienceIsExact
<1>1. TypeInv /\ ServerOrder
  BY DEF MessagesInv
<1>2. /\ Len(written) \in Nat /\ Processed \in Nat /\ Processed <= Len(written) /\ MessageIds = 1..Len(written)
      /\ Processed + Len(toClients) = Len(written) /\ Len(toClients) \in Nat /\ DOMAIN toClients = 1..Len(toClients)
      /\ DOMAIN written = 1..Len(written)
  BY <1>1, Counts
<1>3. \A cl \in Clients :
        /\ Audience(buffer, cl, link[cl], app[cl], seen[cl], down[cl])
        /\ Kept(written, Processed, world, buffer, cl, link[cl], app[cl], seen[cl], down[cl])
        /\ app[cl].queue \in Seq(PacketType) /\ down[cl] \in Seq(PacketType) /\ seen[cl] \in Seq(Nat)
  BY ClientFacts DEF EndsMeet, AppType
<1>4. OldMessagesAreExcluded
  <2> SUFFICES ASSUME NEW cl \in Connected,
                      NEW id \in ToSet(seen[cl]) \cup ToSet(Ids(app[cl].queue)) \cup ToSet(Ids(down[cl]))
               PROVE  id > link[cl].since
    BY DEF OldMessagesAreExcluded
  <2>1. cl \in Clients /\ NewerThan(link[cl].since, seen[cl], app[cl].queue, down[cl])
    BY <1>3 DEF Connected, Audience
  <2>2. CASE id \in ToSet(seen[cl])
    BY <2>1, <2>2 DEF ToSet, NewerThan
  <2>3. CASE id \in ToSet(Ids(app[cl].queue))
    <3>1. \E i \in DOMAIN app[cl].queue : id = app[cl].queue[i].id
      BY <1>3, <2>1, <2>3, IdsOfEntries
    <3> QED
      BY <2>1, <3>1 DEF NewerThan
  <2>4. CASE id \in ToSet(Ids(down[cl]))
    <3>1. \E i \in DOMAIN down[cl] : id = down[cl][i].id
      BY <1>3, <2>1, <2>4, IdsOfEntries
    <3> QED
      BY <2>1, <3>1 DEF NewerThan
  <2> QED
    BY <2>2, <2>3, <2>4
<1>5. NothingIsLost
  <2> SUFFICES ASSUME NEW cl \in Authorized, NEW id \in MessageIds,
                      app[cl].state = "Connected", link[cl].authSince < id, id \notin ToSet(toClients),
                      IsRecipient(id, cl), ChannelOf[written[id].kind] # "Unreliable",
                      written[id].entity \in (IF written[id].kind = "Dependent" THEN world ELSE {}) \cup {None}
               PROVE  \/ id \in ToSet(seen[cl]) \cup ToSet(Ids(app[cl].queue)) \cup ToSet(Ids(down[cl]))
                      \/ \E b \in ToSet(buffer) : b.id = id /\ cl \notin b.excluded
    BY DEF NothingIsLost
  <2>1. cl \in Clients /\ link[cl].status = "Authorized"
    BY DEF Authorized
  <2>2. id \in 1..Processed
    <3>1. ASSUME ~(id <= Processed) PROVE FALSE
      <4>1. id - Processed \in DOMAIN toClients /\ Processed + (id - Processed) = id
        BY <1>2, <3>1
      <4>2. toClients[id - Processed] = id
        BY <1>1, <4>1 DEF ServerOrder
      <4>3. toClients \in Seq(Nat)
        BY <1>1 DEF TypeInv
      <4> QED
        BY <4>1, <4>2, <4>3, EntryOf
    <3> QED
      BY <1>2, <3>1
  <2>3. IsFor(written, id, <<cl, link[cl].session>>)
    BY <1>1, <1>2, <2>1, RecipientIsFor
  <2>4. Due(written, id, world, <<cl, link[cl].session>>, link[cl].authSince)
    BY <2>3 DEF Due
  <2>5. OnLine(id, seen[cl], app[cl].queue, down[cl]) \/ Stored(id, buffer, cl)
    BY <1>3, <2>1, <2>2, <2>4 DEF Kept
  <2>6. CASE OnLine(id, seen[cl], app[cl].queue, down[cl])
    BY <1>3, <2>1, <2>6, EntryOf, IdsOfEntries DEF OnLine
  <2>7. CASE Stored(id, buffer, cl)
    <3>1. PICK k \in DOMAIN buffer : buffer[k].id = id /\ cl \notin buffer[k].excluded
      BY <2>7 DEF Stored
    <3>2. buffer[k] \in ToSet(buffer)
      BY <1>1, EntryOf DEF TypeInv
    <3> QED
      BY <3>1, <3>2
  <2> QED
    BY <2>5, <2>6, <2>7
<1> QED
  BY <1>4, <1>5

LEMMA InvOnce == MessagesInv => HandledOnce
<1> SUFFICES ASSUME MessagesInv, NEW cl \in Clients, NEW i \in DOMAIN handled[cl], NEW j \in DOMAIN handled[cl]
             PROVE  /\ handled[cl][i].kind # "ProtocolHash"
                    /\ i # j /\ handled[cl][i].id = handled[cl][j].id =>
                         handled[cl][i].kind = "Shared" /\ handled[cl][i].at # handled[cl][j].at
  BY DEF HandledOnce
<1>1. OnceInv(app[cl].state, app[cl].out, app[cl].wrote, up[cl], handled[cl])
  BY ClientFacts
<1>2. HandledApart(handled[cl]) /\ IsMessage(handled[cl][i])
  BY <1>1 DEF OnceInv
<1> QED
  BY <1>2 DEF HandledApart, IsMessage

\* Type correctness: ids name messages that were written, ticks and sessions
\* stay in their ranges, and a client connected after what was processed then.
THEOREM MessagesTyped == Spec => []TypeOK
BY MessagesInvariant, InvTyped, PTL

\* Messages of an ordered channel are shown to a client in the order in which
\* the server wrote them, however frames, ticks, updates and arrivals
\* interleave (MessageBuffer, MessageQueue::insert and pop_if_le).
THEOREM ShownInOrder == Spec => []SeenInOrder
BY MessagesInvariant, InvInOrder, PTL

\* A client is shown nothing that was processed before it connected
\* (MessageBuffer::exclude_client), and nothing that was for it when it was
\* authorized is lost while its connection lasts.
THEOREM AudienceHolds == Spec => []AudienceIsExact
BY MessagesInvariant, InvAudience, PTL

\* What a client writes is handled at most once by the server and, when it is
\* shared or the client is disconnected, at most once by the client, whatever
\* the order of writing, sending, connecting and expiring.
THEOREM HandledAtMostOnce == Spec => []HandledOnce
BY MessagesInvariant, InvOnce, PTL
=============================================================================
