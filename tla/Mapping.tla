------------------------------- MODULE Mapping -------------------------------
(***************************************************************************)
(* How the client finds its entity for an entity of the server: the map    *)
(* between the two, the signatures that match entities spawned on both     *)
(* sides, the entities spawned for references, and the hierarchy, which    *)
(* despawns entities on both sides.  Mappings, despawns, removals and      *)
(* insertions of ChildOf travel in update messages, reliably and in order; *)
(* a change of ChildOf is a mutation, which may be late or lost.           *)
(* Visibility and other values are in Replication.                         *)
(***************************************************************************)
EXTENDS Naturals, FiniteSets, Functions, Sequences, SequencesExt, TLC

CONSTANTS
  ServerEntities,
  Hashes,             \* hashes of signatures
  None,               \* no signature, no parent, no entity
  MaxSteps, MaxTicks, MaxSessions, MaxClient   \* bounds: steps of the apps, messages,
                                               \* connections, client entities

ASSUME MappingAssumption ==
  /\ None \notin ServerEntities \cup Hashes /\ None \notin Nat
  /\ \A n \in {MaxSteps, MaxTicks, MaxSessions, MaxClient} : n \in Nat

VARIABLES
  server,             \* entities of the server; moved: the tick after which ChildOf changed
  despawned,          \* DespawnBuffer
  removed,            \* RemovalBuffer: entities that lost ChildOf
  tick,               \* server tick of the last message
  ticks,              \* ClientTicks::entities: last tick known to be applied, and
                      \* whether the client has ChildOf
  updateTick,         \* ClientTicks::update_tick
  queue,              \* update messages on their way
  mutations,          \* mutate messages on their way: what never arrives is lost
  acks,               \* acknowledgements on their way
  client,             \* the client's world and resources, and two histories: astray
                      \* (server entities) and stranded (client entities)
  dropped,            \* history: server entities whose client entity the app despawned
  session,            \* connections so far
  steps               \* steps of the two apps so far

serverVars == <<server, despawned, removed>>
sentVars == <<tick, ticks, updateTick, queue, mutations, acks>>
vars == <<serverVars, sentVars, client, dropped, session, steps>>

NoMap == [x \in {} |-> None]

Init ==
  /\ server = [s \in ServerEntities |-> [state |-> "Unborn", replicated |-> FALSE,
                                         hash |-> None, parent |-> None, moved |-> 0]]
  /\ despawned = {} /\ removed = {} /\ tick = 0 /\ ticks = NoMap /\ updateTick = 0
  /\ queue = <<>> /\ mutations = {} /\ acks = {}
  /\ client = [world |-> <<>>, toClient |-> NoMap, toServer |-> NoMap, hashes |-> NoMap,
               storage |-> {}, updateTick |-> 0, buffer |-> {}, panicked |-> FALSE,
               astray |-> {}, stranded |-> {}]
  /\ dropped = {} /\ session = 0 /\ steps = 0

Step == steps < MaxSteps /\ steps' = steps + 1
Alive(s) == server[s].state = "Alive"
OnServer == {s \in ServerEntities : Alive(s)}
Tracked == DOMAIN ticks

\* Everything below e, with e: the children, as often as there are entities; parents
\* gives the parent of every entity.
Below(e, parents) ==
  FoldLeft(LAMBDA S, i : S \cup {y \in DOMAIN parents : parents[y] \in S},
           {e} \cap DOMAIN parents, [i \in 1..Cardinality(DOMAIN parents) |-> i])
BelowOnServer(s) == Below(s, [x \in OnServer |-> server[x].parent])

-----------------------------------------------------------------------------
(* The server.                                                             *)

Unused(h) == \A s \in OnServer : server[s].hash # h

SpawnServer(s, isReplicated, h, p) ==
  /\ Step /\ server[s].state = "Unborn"
  /\ h \in {None} \cup {x \in Hashes : Unused(x)} /\ p \in {None} \cup OnServer
  /\ server' = [server EXCEPT ![s] = [state |-> "Alive", replicated |-> isReplicated,
                                      hash |-> h, parent |-> p, moved |-> tick]]
  /\ UNCHANGED <<despawned, removed, sentVars, client, dropped, session>>

\* An entity is replicated from now on.
Replicate(s) ==
  /\ Step /\ Alive(s) /\ ~server[s].replicated
  /\ server' = [server EXCEPT ![s].replicated = TRUE]
  /\ UNCHANGED <<despawned, removed, sentVars, client, dropped, session>>

\* Another parent, or none.  buffer_removals.
SetParent(s, p) ==
  /\ Step /\ Alive(s) /\ server[s].parent # p
  /\ p \in {None} \cup (OnServer \ BelowOnServer(s))
  /\ server' = [server EXCEPT ![s].parent = p, ![s].moved = tick]
  /\ removed' = IF p = None /\ server[s].replicated THEN removed \cup {s} ELSE removed
  /\ UNCHANGED <<despawned, sentVars, client, dropped, session>>

\* The children go with the parent.  buffer_despawn.
DespawnServer(s) ==
  LET gone == BelowOnServer(s)
  IN  /\ Step /\ Alive(s)
      /\ server' = [x \in ServerEntities |->
                      IF x \in gone THEN [server[x] EXCEPT !.state = "Dead"] ELSE server[x]]
      /\ despawned' = despawned \cup {x \in gone : server[x].replicated}
      /\ UNCHANGED <<removed, sentVars, client, dropped, session>>

\* What the client knows, and what collect_removals and collect_changes find.
Replicated == {s \in ServerEntities : Alive(s) /\ server[s].replicated}
New == Replicated \ Tracked
Removals == {s \in removed \cap (Tracked \ despawned) : ticks[s].has}
Has(s) == s \in Tracked \ Removals /\ ticks[s].has
Inserted == {s \in Replicated : server[s].parent # None /\ ~Has(s)}
Mutated == {s \in Replicated : Has(s) /\ server[s].moved >= ticks[s].at}

\* The entities with an insertion, a removal, or new, whose mutations go into the
\* update message; others have one of a component that is not modelled.
InUpdate(others) == New \cup Inserted \cup (removed \cap Replicated) \cup others
Changed(others) == New \cup Inserted \cup (Mutated \cap InUpdate(others))
Written(s) == IF s \in Inserted \cup Mutated THEN server[s].parent ELSE None
Update(others, despawns, changes) ==
  [tick |-> tick + 1,
   mappings |-> {<<s, server[s].hash>> : s \in {s \in New : server[s].hash # None}},
   despawns |-> despawns,
   removals |-> Removals,
   changes |-> [i \in DOMAIN changes |-> <<changes[i], Written(changes[i])>>],
   parents |-> [s \in Replicated |-> server[s].parent]]    \* history
Mutation(s, after) ==
  [entity |-> s, parent |-> server[s].parent, tick |-> tick + 1, after |-> after]

\* send_replication: the update message, if there is something for it, and the mutate
\* messages, each entity in one of its own.
Send ==
  /\ session > 0 /\ tick < MaxTicks
  /\ New \cup Inserted \cup Mutated \cup removed \cup despawned # {}
  /\ \E others \in SUBSET Mutated :
       LET gone == despawned \cap Tracked
           isEmpty == gone \cup Removals \cup Changed(others) = {}
       IN  /\ \E despawns \in SetToSeqs(gone), changes \in SetToSeqs(Changed(others)) :
                queue' = IF isEmpty THEN queue
                         ELSE Append(queue, Update(others, despawns, changes))
           /\ updateTick' = IF isEmpty THEN updateTick ELSE tick + 1
           /\ mutations' = mutations \cup
                {Mutation(s, updateTick') : s \in Mutated \ InUpdate(others)}
           /\ ticks' = [s \in Replicated |->
                IF s \in InUpdate(others)
                THEN [at |-> tick + 1, has |-> Has(s) \/ s \in Inserted] ELSE ticks[s]]
  /\ despawned' = {} /\ removed' = {} /\ tick' = tick + 1
  /\ UNCHANGED <<server, acks, client, dropped, session, steps>>

\* receive_acks.
Acknowledge(ack) ==
  LET s == ack.entity
  IN  /\ acks' = acks \ {ack}
      /\ ticks' = IF s \in Tracked /\ ticks[s].at < ack.tick
                  THEN [ticks EXCEPT ![s].at = ack.tick] ELSE ticks
      /\ UNCHANGED <<serverVars, tick, updateTick, queue, mutations, client, dropped,
                     session, steps>>

-----------------------------------------------------------------------------
(* The client's resources.                                                 *)

Living(m) == {c \in DOMAIN m.world : m.world[c].alive}
IsAlive(m, c) == c \in Living(m)
BelowLocal(m, c) == Below(c, [x \in Living(m) |-> m.world[x].parent])

\* ServerEntityMap::insert: a server entity mapped before loses its client entity.
Insert(m, s, c) ==
  [m EXCEPT !.toClient = s :> c @@ @,
            !.toServer =
              c :> s @@ Restrict(@, DOMAIN @ \ {m.toClient[x] : x \in {s} \cap DOMAIN m.toClient})]
\* Only the forward entry goes.
RemoveForward(m, s) ==
  IF s \in DOMAIN m.toClient
  THEN [m EXCEPT !.toClient = Restrict(@, DOMAIN @ \ {s})] ELSE m
\* OccupiedEntityEntry::remove.
RemoveByServer(m, s) ==
  IF s \in DOMAIN m.toClient
  THEN [m EXCEPT !.toClient = Restrict(@, DOMAIN @ \ {s}),
                 !.toServer = Restrict(@, DOMAIN @ \ {m.toClient[s]})] ELSE m
\* remove_by_client.
RemoveByClient(m, c) ==
  IF c \in DOMAIN m.toServer
  THEN [m EXCEPT !.toServer = Restrict(@, DOMAIN @ \ {c}),
                 !.toClient = Restrict(@, DOMAIN @ \ {m.toServer[c]})] ELSE m

\* SignatureMap::insert and remove.  The hash of the first entity stays.
AddHash(m, c, h) == IF h \in DOMAIN m.hashes THEN m ELSE [m EXCEPT !.hashes = h :> c @@ @]
RemoveHash(m, c) == [m EXCEPT !.hashes = Restrict(@, {h \in DOMAIN @ : @[h] # c})]

SpawnLocal(m, isRemote, p) ==
  [m EXCEPT !.world = Append(@, [alive |-> TRUE, remote |-> isRemote, parent |-> p,
                                 confirmed |-> 0])]
Newest(m) == Len(m.world)
SetRemote(m, c) == [m EXCEPT !.world[c].remote = TRUE]

\* A despawn while the resources are taken out of the world: no observer or hook
\* reaches them.
Killed(world, gone) ==
  [x \in DOMAIN world |-> IF x \in gone THEN [world[x] EXCEPT !.alive = FALSE] ELSE world[x]]
DespawnBelow(m, c) == [m EXCEPT !.world = Killed(@, BelowLocal(m, c))]

\* A despawn by the app: cleanup_entity_map and cleanup_storage for what is Remote,
\* unregister_hash for everything.
CleanUp(m, c) ==
  LET n == RemoveHash(m, c)
  IN  IF m.world[c].remote THEN [RemoveByClient(n, c) EXCEPT !.storage = @ \ {c}] ELSE n
DespawnByApp(m, cs) ==
  LET gone == UNION {BelowLocal(m, c) : c \in cs}
      cleaned == FoldLeft(CleanUp, m, SetToSeq(gone))
  IN  [cleaned EXCEPT !.world = Killed(@, gone)]

-----------------------------------------------------------------------------
(* Receiving messages.                                                     *)

\* History.  A mapping that meets another one, or an entity with a parent.
Collides(m, s, c) ==
  s \in DOMAIN m.toClient \/ c \in DOMAIN m.toServer \/ m.world[c].parent # None
Diverted(m, s, c) ==
  {s} \cup {m.toServer[x] : x \in {c} \cap DOMAIN m.toServer}

\* apply_entity_mapping.  entity_mut panics for a despawned entity.
ApplyMapping(m, mapping) ==
  LET s == mapping[1] h == mapping[2] c == m.hashes[h]
      n == [Insert(m, s, c) EXCEPT
              !.astray = IF Collides(m, s, c) THEN @ \cup Diverted(m, s, c) ELSE @]
  IN  CASE m.panicked \/ h \notin DOMAIN m.hashes -> m
        [] OTHER -> IF IsAlive(m, c) THEN SetRemote(n, c) ELSE [n EXCEPT !.panicked = TRUE]

\* apply_despawn: the manual cleanup, and the despawn of what is still alive.
NoManualCleanup(m, c) == m
ManualCleanup(m, c) == [RemoveHash(m, c) EXCEPT !.storage = @ \ {c}]
ApplyDespawn(m, s) ==
  IF m.panicked \/ s \notin DOMAIN m.toClient THEN m
  ELSE LET c == m.toClient[s]
           cleaned == ManualCleanup(RemoveByServer(m, s), c)
       IN  IF IsAlive(m, c) THEN DespawnBelow(cleaned, c) ELSE cleaned

\* get_mapped: a reference to an unknown entity spawns an empty one for it.
MapReference(m, p) ==
  IF p = None \/ p \in DOMAIN m.toClient THEN m
  ELSE LET n == SpawnLocal(m, FALSE, None) IN Insert(n, p, Newest(n))

\* The write of ChildOf, if there is one: the parent is mapped, and a relation whose
\* target is gone is not inserted.
Write(m, c, p) ==
  LET n == MapReference(m, p)
  IN  IF p = None THEN m
      ELSE [n EXCEPT !.world[c].parent = IF IsAlive(n, n.toClient[p]) THEN n.toClient[p] ELSE None,
                     !.storage = @ \cup {c}]
Confirm(m, c, at) == [m EXCEPT !.world[c].confirmed = at]

\* apply_removals.
ApplyRemoval(m, s, at) ==
  IF m.panicked \/ s \notin DOMAIN m.toClient THEN m
  ELSE LET c == m.toClient[s]
       IN  IF IsAlive(m, c) THEN [Confirm(m, c, at) EXCEPT !.world[c].parent = None]
           ELSE RemoveByClient(m, c)

\* apply_changes: the entity is looked up or spawned.
ApplyChange(m, change, at) ==
  LET s == change[1] p == change[2]
      isKnown == s \in DOMAIN m.toClient
      spawned == SpawnLocal(m, TRUE, None)
      found == IF isKnown THEN SetRemote(m, m.toClient[s]) ELSE Insert(spawned, s, Newest(spawned))
      c == found.toClient[s]
  IN  IF m.panicked \/ (isKnown /\ ~IsAlive(m, m.toClient[s])) THEN m
      ELSE Write(Confirm(found, c, at), c, p)

\* apply_mutations: of one entity; what is not newer than the entity is ignored.
ApplyMutation(m, mutation) ==
  LET s == mutation.entity c == m.toClient[s]
  IN  IF m.panicked \/ s \notin DOMAIN m.toClient THEN m
      ELSE IF ~IsAlive(m, c) THEN RemoveByClient(m, c)
      ELSE IF m.world[c].confirmed \in {0} \cup mutation.tick..tick THEN m
      ELSE Write(Confirm(m, c, mutation.tick), c, mutation.parent)

\* History.  What hangs elsewhere on the client than it did on the server when the
\* message was sent.
Misplaced(m, message) ==
  {x \in Living(m) :
     \/ x \notin DOMAIN m.toServer \/ m.toServer[x] \notin DOMAIN message.parents
     \/ LET p == message.parents[m.toServer[x]]
        IN  m.world[x].parent # IF p \in DOMAIN m.toClient THEN m.toClient[p] ELSE None}

\* History.  What goes with another entity of the message, and hangs on the client on
\* something misplaced: nothing removes its entries.
Dragged(m, n, message) ==
  LET own == {m.toClient[s] : s \in ToSet(message.despawns) \cap DOMAIN m.toClient}
  IN  {x \in Living(m) \ (Living(n) \cup own) :
         \E y \in Misplaced(m, message) : x \in BelowLocal(m, y)}

\* apply_update_message.
AfterMappings(m, message) == FoldLeft(ApplyMapping, m, SetToSeq(message.mappings))
AfterDespawns(m, message) ==
  LET n == FoldLeft(ApplyDespawn, m, message.despawns)
      dragged == Dragged(m, n, message)
  IN  [n EXCEPT !.stranded = @ \cup dragged,
                !.astray = @ \cup {m.toServer[x] : x \in dragged \cap DOMAIN m.toServer}]
AfterRemovals(m, message) ==
  FoldLeft(LAMBDA n, s : ApplyRemoval(n, s, message.tick), m, SetToSeq(message.removals))
AfterChanges(m, message) ==
  FoldLeft(LAMBDA n, change : ApplyChange(n, change, message.tick), m, message.changes)
ApplyUpdate(m, message) ==
  LET n == [m EXCEPT !.updateTick = IF m.panicked THEN @ ELSE message.tick]
  IN  AfterChanges(AfterRemovals(AfterDespawns(AfterMappings(n, message), message), message), message)

\* apply_replication: all updates that arrived, then the mutations that need no later
\* update, the newest first.  What arrives is acknowledged.
Receive(count, arrived) ==
  LET updated == FoldLeft(ApplyUpdate, client, SubSeq(queue, 1, count))
      waiting == updated.buffer \cup arrived
      ready == {x \in waiting : x.after <= updated.updateTick}
      newestFirst == SetToSortSeq(ready, LAMBDA x, y : x.tick > y.tick)
  IN  /\ count > 0 \/ arrived # {}
      /\ queue' = SubSeq(queue, count + 1, Len(queue))
      /\ mutations' = mutations \ arrived
      /\ acks' = acks \cup {[entity |-> x.entity, tick |-> x.tick] : x \in arrived}
      /\ client' = [FoldLeft(ApplyMutation, updated, newestFirst) EXCEPT !.buffer = waiting \ ready]
      /\ UNCHANGED <<serverVars, tick, ticks, updateTick, dropped, session, steps>>

-----------------------------------------------------------------------------
(* The client app and the connection.                                      *)

\* An entity that is expected from the server: register_hash.
Predict(h, p) ==
  /\ Step /\ Newest(client) < MaxClient
  /\ LET n == SpawnLocal(client, FALSE, p) IN client' = AddHash(n, Newest(n), h)
  /\ UNCHANGED <<serverVars, sentVars, dropped, session>>

DespawnLocal(c) ==
  /\ Step /\ IsAlive(client, c)
  /\ client' = DespawnByApp(client, {c})
  /\ dropped' = dropped \cup
       {client.toServer[x] : x \in BelowLocal(client, c) \cap DOMAIN client.toServer}
  /\ UNCHANGED <<serverVars, sentVars, session>>

\* reset on both sides.  The app despawns the remote entities, or keeps them.
Reset(m) == [m EXCEPT !.toClient = NoMap, !.toServer = NoMap, !.updateTick = 0,
                      !.buffer = {}, !.astray = {}]
Disconnect(keeps) ==
  /\ Step /\ session \in 1..MaxSessions - 1 /\ session' = session + 1
  /\ client' = IF keeps THEN Reset(client)
               ELSE DespawnByApp(Reset(client), {c \in Living(client) : client.world[c].remote})
  /\ queue' = <<>> /\ mutations' = {} /\ acks' = {} /\ ticks' = NoMap /\ updateTick' = 0
  /\ dropped' = {}
  /\ UNCHANGED <<serverVars, tick>>

Connect ==
  /\ session = 0 /\ session' = 1
  /\ UNCHANGED <<serverVars, sentVars, client, dropped, steps>>

Next ==
  /\ ~client.panicked
  /\ \/ \E s \in ServerEntities :
          \/ \E isReplicated \in BOOLEAN, h \in Hashes \cup {None} :
               \E p \in ServerEntities \cup {None} : SpawnServer(s, isReplicated, h, p)
          \/ Replicate(s) \/ DespawnServer(s)
          \/ \E p \in ServerEntities \cup {None} : SetParent(s, p)
     \/ Send \/ Connect
     \/ \E ack \in acks : Acknowledge(ack)
     \/ \E count \in 0..Len(queue), arrived \in SUBSET mutations : Receive(count, arrived)
     \/ \E keeps \in BOOLEAN : Disconnect(keeps)
     \/ \E h \in Hashes, p \in Living(client) \cup {None} : Predict(h, p)
     \/ \E c \in Living(client) : DespawnLocal(c)

Spec == Init /\ [][Next]_vars

-----------------------------------------------------------------------------

\* Trees of living client entities, known hashes, and a map whose directions agree
\* (ServerEntityMap::insert, remove and remove_by_client keep both), but for the
\* entities whose mapping met another one.
TypeOK ==
  /\ server \in [ServerEntities -> [state : {"Unborn", "Alive", "Dead"}, replicated : BOOLEAN,
                                    hash : Hashes \cup {None}, parent : ServerEntities \cup {None},
                                    moved : 0..tick]]
  /\ despawned \cup removed \cup Tracked \cup dropped \subseteq ServerEntities
  /\ \A s \in Tracked : ticks[s].at \in 1..tick /\ ticks[s].has \in BOOLEAN
  /\ tick \in 0..MaxTicks /\ updateTick \in client.updateTick..tick
  /\ \A c \in DOMAIN client.world :
       /\ client.world[c].alive => client.world[c].parent \in Living(client) \cup {None}
       /\ client.world[c].confirmed <= tick
  /\ DOMAIN client.hashes \subseteq Hashes /\ client.storage \subseteq DOMAIN client.world
  /\ session \in 0..MaxSessions /\ steps \in 0..MaxSteps
  \* The two directions of ServerEntityMap agree.
  /\ \A s \in DOMAIN client.toClient \ client.astray :
       /\ client.toClient[s] \in DOMAIN client.toServer
       /\ client.toServer[client.toClient[s]] = s
  /\ \A c \in DOMAIN client.toServer :
       client.toServer[c] \in client.astray \/
         /\ client.toServer[c] \in DOMAIN client.toClient
         /\ client.toClient[client.toServer[c]] = c

\* Whatever SignatureMap or the storage has an entry for is alive, so that a mapping
\* never meets a despawned entity, except what a message despawned with something it
\* hung on only on the client: a predicted or kept entity, or one whose change of
\* parent did not come in time (client.rs:460-474 cleans up only the entity it names).
EntriesAreAlive ==
  LET entries == {client.hashes[h] : h \in DOMAIN client.hashes} \cup client.storage
  IN  /\ entries \subseteq Living(client) \cup client.stranded
      /\ client.panicked => client.stranded \cap entries # {}


\* lib.rs:681: "All events, messages, inserts, removals and despawns will be applied
\* to clients in the same order as on the server": an entity that left its parent
\* before the parent was despawned is not despawned with it.
AppliedInOrder ==
  queue = <<>> =>
    \A s \in Tracked \ (dropped \cup despawned) :
      s \in DOMAIN client.toClient /\ IsAlive(client, client.toClient[s])

\* server_entity_map.rs: "If the client predicts a despawn, the mapping is kept
\* until the server also despawns the entity."
MappingIsKept ==
  \A s \in dropped : s \in Tracked => s \in DOMAIN client.toClient
=============================================================================
