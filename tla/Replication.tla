---------------------------- MODULE Replication ----------------------------
(***************************************************************************)
(* World replication from a bevy_replicon server to its clients: the       *)
(* server's send pipeline (collect_despawns .. send_messages), its         *)
(* per-client bookkeeping (ClientTicks, ClientVisibility, PriorityMap),    *)
(* the two server channels (reliable ordered Updates, unreliable           *)
(* unordered Mutations), the acknowledgement channel, and the receive      *)
(* pipeline of the client (apply_replication).                             *)
(*                                                                         *)
(* Values are abstracted to the tick at which they were last changed:      *)
(* world[e][c] is 0 when the component is absent and otherwise the number  *)
(* of the first run of the send systems that can see the change.  A        *)
(* change is therefore "newer than the last acknowledgement"               *)
(* (ticks.is_changed) exactly when world[e][c] exceeds the acknowledged    *)
(* tick.  The server tick and Bevy's change tick advance together, once    *)
(* per run of the send systems, so one number stands for both.             *)
(***************************************************************************)
EXTENDS Integers, Sequences, FiniteSets

CONSTANTS
  Clients,          \* network clients
  Entities,         \* server entities; an id is used for one entity only
  Components,       \* components with a replication rule
  OnceComponents,   \* those whose rule has ReplicationMode::Once
  Filters,          \* registered visibility filters (bits of FiltersMask)
  Scope,            \* VisibilityScope of each filter
  Lifetime,         \* ScopeLifetime of each filter
  Periods,          \* 1/priority: an entity's mutations wait this many ticks
  Pausable,         \* entities the server may stop replicating
  Roaming,          \* clients that may disconnect and come back
  IndexMod,         \* number of mutate indices (2^16 in the code)
  MaxPackets        \* bound: mutate messages per client and tick

\* Bounds of the exploration, each used as a guard.
CONSTANTS
  MaxTick,          \* the send systems run for ticks 1..MaxTick
  LastChangeTick,   \* the world, filters and sessions change before it
  LastLossTick      \* mutate messages of later ticks are not lost

\* ScopeLifetime, in its derived order; NotHidden stands for Option::None.
WhileVisible == 0
AfterFirstVisibility == 1
AlwaysPresent == 2
NotHidden == 3

ASSUME ReplicationAssumption ==
  /\ OnceComponents \subseteq Components
  /\ Scope \in [Filters -> [kind : {"Entity", "Components", "AllExcept"},
                            mask : SUBSET Components]]
  /\ Lifetime \in [Filters -> {WhileVisible, AfterFirstVisibility, AlwaysPresent}]
  /\ Periods \subseteq Nat /\ 1 \in Periods
  /\ IndexMod \in Nat \ {0} /\ MaxPackets \in Nat \ {0}
  /\ MaxTick \in Nat /\ LastChangeTick \in Nat /\ LastLossTick \in Nat

VARIABLES
  \* The server's world.
  serverTick,       \* ServerTick of the last run of the send systems
  status,           \* "unborn", "replicated", "paused" or "despawned"
  world,            \* [entity -> [component -> stamp]]
  despawnBuffer,    \* DespawnBuffer
  removalBuffer,    \* RemovalBuffer: [entity -> set of components]
  panicked,         \* a send system panicked
  \* The server's state for each client.
  connected,        \* the client's entity exists and is authorized
  ticks,            \* ClientTicks::entities
  updateTick,       \* ClientTicks::update_tick
  mutations,        \* ClientTicks::mutations, as a set of indexed infos
  mutateIndex,      \* ClientTicks::mutate_index
  hidden,           \* ClientVisibility::hidden: [entity -> set of filters]
  lost,             \* ClientVisibility::lost
  priority,         \* PriorityMap, as periods; 1 when there is no entry
  \* The network.
  updates,          \* ServerChannel::Updates: sequence per client
  mutates,          \* ServerChannel::Mutations: set per client
  acks,             \* ClientChannel::MutationAcks: sequence of index sets
  \* The clients.
  clientUp,         \* ClientState::Connected
  serverUpdateTick, \* ServerUpdateTick
  buffered,         \* BufferedMutations
  replica           \* known entities: ConfirmHistory tick and values

worldVars == <<status, world, despawnBuffer, removalBuffer>>
ackVars == <<ticks, mutations>>
visibilityVars == <<hidden, lost>>
sentVars == <<updateTick, mutateIndex>>
channelVars == <<updates, mutates, acks>>
clientVars == <<serverUpdateTick, buffered, replica>>
vars == <<serverTick, worldVars, panicked, connected, ackVars, sentVars,
          visibilityVars, priority, channelVars, clientUp, clientVars>>

-----------------------------------------------------------------------------
\* State shapes.

Stamps == [Components -> Nat]
NoStamps == [c \in Components |-> 0]

\* EntityTicks; an entity absent from ClientTicks::entities has tick 0.
EntityTicks == [tick : Nat, components : SUBSET Components]
NoTicks == [tick |-> 0, components |-> {}]

MutateInfo == [index : 0 .. IndexMod - 1, tick : Nat, entities : SUBSET Entities]

Update == [tick : Nat, despawns : SUBSET Entities,
           removals : [Entities -> SUBSET Components],
           changed : SUBSET Entities, values : [Entities -> Stamps]]

Mutate == [tick : Nat, updateTick : Nat, index : 0 .. IndexMod - 1,
           values : [Entities -> Stamps]]

\* A client's copy of an entity; unmapped entities have history 0.
Copy == [history : Nat, values : Stamps]
NoCopy == [history |-> 0, values |-> NoStamps]

\* Mutant: a missing entry read as 0 instead of the default.
NoPeriod == 0
\* The base priority of an entity without an entry in the PriorityMap.
DefaultPeriod == 1

Carries(m, e) == \E c \in Components : m.values[e][c] > 0

\* The types of the world, the server's bookkeeping, the client and the network.
TypeOK ==
  /\ serverTick \in Nat
  /\ status \in [Entities -> {"unborn", "replicated", "paused", "despawned"}]
  /\ world \in [Entities -> Stamps]
  /\ despawnBuffer \subseteq Entities
  /\ removalBuffer \in [Entities -> SUBSET Components]
  /\ panicked \in BOOLEAN
  /\ connected \in [Clients -> BOOLEAN]
  /\ ticks \in [Clients -> [Entities -> EntityTicks]]
  /\ updateTick \in [Clients -> Nat]
  /\ mutations \in [Clients -> SUBSET MutateInfo]
  /\ mutateIndex \in [Clients -> 0 .. IndexMod - 1]
  /\ hidden \in [Clients -> [Entities -> SUBSET Filters]]
  /\ lost \in [Clients -> [Entities -> SUBSET Filters]]
  /\ priority \in [Clients -> [Entities -> Periods]]
  /\ updates \in [Clients -> Seq(Update)]
  /\ mutates \in [Clients -> SUBSET Mutate]
  /\ acks \in [Clients -> Seq(SUBSET (0 .. IndexMod - 1))]
  /\ clientUp \in [Clients -> BOOLEAN]
  /\ serverUpdateTick \in [Clients -> Nat]
  /\ buffered \in [Clients -> SUBSET Mutate]
  /\ replica \in [Clients -> [Entities -> Copy]]

Init ==
  /\ serverTick = 0
  /\ status = [e \in Entities |-> "unborn"]
  /\ world = [e \in Entities |-> NoStamps]
  /\ despawnBuffer = {}
  /\ removalBuffer = [e \in Entities |-> {}]
  /\ panicked = FALSE
  /\ connected = [cl \in Clients |-> FALSE]
  /\ ticks = [cl \in Clients |-> [e \in Entities |-> NoTicks]]
  /\ updateTick = [cl \in Clients |-> 0]
  /\ mutations = [cl \in Clients |-> {}]
  /\ mutateIndex = [cl \in Clients |-> 0]
  /\ hidden = [cl \in Clients |-> [e \in Entities |-> {}]]
  /\ lost = [cl \in Clients |-> [e \in Entities |-> {}]]
  /\ priority = [cl \in Clients |-> [e \in Entities |-> DefaultPeriod]]
  /\ updates = [cl \in Clients |-> <<>>]
  /\ mutates = [cl \in Clients |-> {}]
  /\ acks = [cl \in Clients |-> <<>>]
  /\ clientUp = [cl \in Clients |-> FALSE]
  /\ serverUpdateTick = [cl \in Clients |-> 0]
  /\ buffered = [cl \in Clients |-> {}]
  /\ replica = [cl \in Clients |-> [e \in Entities |-> NoCopy]]

-----------------------------------------------------------------------------
\* The application changes the server's world between two sends.

Changing == ~panicked /\ serverTick < LastChangeTick

Spawn(e) ==
  /\ Changing /\ status[e] = "unborn"
  /\ status' = [status EXCEPT ![e] = "replicated"]
  /\ UNCHANGED <<serverTick, world, despawnBuffer, removalBuffer, panicked,
                 connected, ackVars, sentVars, visibilityVars, priority,
                 channelVars, clientUp, clientVars>>

\* Insertion of a component or mutation of its value.
Write(e, c) ==
  /\ Changing /\ status[e] \in {"replicated", "paused"}
  /\ world' = [world EXCEPT ![e][c] = serverTick + 1]
  /\ UNCHANGED <<serverTick, status, despawnBuffer, removalBuffer, panicked,
                 connected, ackVars, sentVars, visibilityVars, priority,
                 channelVars, clientUp, clientVars>>

\* Removal of a component; buffer_removals ignores entities without the
\* Replicated marker.
Remove(e, c) ==
  /\ Changing /\ world[e][c] > 0
  /\ world' = [world EXCEPT ![e][c] = 0]
  /\ removalBuffer' =
       [removalBuffer EXCEPT ![e] = IF status[e] = "replicated" THEN @ \cup {c} ELSE @]
  /\ UNCHANGED <<serverTick, status, despawnBuffer, panicked, connected,
                 ackVars, sentVars, visibilityVars, priority, channelVars,
                 clientUp, clientVars>>

\* buffer_despawn, or cleanup_unreplicated when the marker is missing.
Despawn(e) ==
  /\ Changing /\ status[e] \in {"replicated", "paused"}
  /\ status' = [status EXCEPT ![e] = "despawned"]
  /\ world' = [world EXCEPT ![e] = NoStamps]
  /\ IF status[e] = "replicated"
     THEN despawnBuffer' = despawnBuffer \cup {e} /\ UNCHANGED ticks
     ELSE /\ ticks' = [cl \in Clients |-> [ticks[cl] EXCEPT ![e] = NoTicks]]
          /\ UNCHANGED despawnBuffer
  /\ UNCHANGED <<serverTick, removalBuffer, panicked, connected, mutations,
                 sentVars, visibilityVars, priority, channelVars, clientUp, clientVars>>

\* The Replicated marker is removed from, or put back on, an entity.
Pause(e) ==
  /\ Changing /\ e \in Pausable
  /\ \/ status[e] = "replicated" /\ status' = [status EXCEPT ![e] = "paused"]
     \/ status[e] = "paused" /\ status' = [status EXCEPT ![e] = "replicated"]
  /\ UNCHANGED <<serverTick, world, despawnBuffer, removalBuffer, panicked,
                 connected, ackVars, sentVars, visibilityVars, priority,
                 channelVars, clientUp, clientVars>>

\* ClientVisibility::set with visible = FALSE.
Hide(cl, e, f) ==
  /\ Changing /\ connected[cl] /\ status[e] \in {"replicated", "paused"}
  /\ f \notin hidden[cl][e]
  /\ hidden' = [hidden EXCEPT ![cl][e] = @ \cup {f}]
  /\ lost' = [lost EXCEPT ![cl][e] = @ \cup {f}]
  /\ UNCHANGED <<serverTick, worldVars, panicked, connected, ackVars, sentVars,
                 priority, channelVars, clientUp, clientVars>>

\* ClientVisibility::set with visible = TRUE.
Show(cl, e, f) ==
  /\ Changing /\ connected[cl] /\ status[e] \in {"replicated", "paused"}
  /\ f \in hidden[cl][e]
  /\ hidden' = [hidden EXCEPT ![cl][e] = @ \ {f}]
  /\ lost' = [lost EXCEPT ![cl][e] = @ \ {f}]
  /\ UNCHANGED <<serverTick, worldVars, panicked, connected, ackVars, sentVars,
                 priority, channelVars, clientUp, clientVars>>

SetPriority(cl, e, p) ==
  /\ Changing /\ connected[cl] /\ status[e] = "replicated"
  /\ priority' = [priority EXCEPT ![cl][e] = p]
  /\ UNCHANGED <<serverTick, worldVars, panicked, connected, ackVars, sentVars,
                 visibilityVars, channelVars, clientUp, clientVars>>

-----------------------------------------------------------------------------
\* Visibility masks.

HidesComponent(f, c) ==
  CASE Scope[f].kind = "Entity" -> TRUE
    [] Scope[f].kind = "Components" -> c \in Scope[f].mask
    [] Scope[f].kind = "AllExcept" -> c \notin Scope[f].mask

ShortestLifetime(fs) ==
  CHOOSE l \in {Lifetime[f] : f \in fs} \cup {NotHidden} :
    \A f \in fs : l <= Lifetime[f]

HiddenEntityLifetime(fs) == ShortestLifetime({f \in fs : Scope[f].kind = "Entity"})
HiddenComponentLifetime(fs, c) == ShortestLifetime({f \in fs : HidesComponent(f, c)})

\* hides_entity with max_lifetime = WhileVisible.
HidesEntity(fs) == \E f \in fs : Scope[f].kind = "Entity" /\ Lifetime[f] <= WhileVisible

-----------------------------------------------------------------------------
\* One run of the send systems, for one client.  Each stage reads what the
\* stage before it left in ClientTicks.

Now == serverTick + 1

\* collect_despawns

VisibilityLost(cl, e) == e \notin despawnBuffer /\ HidesEntity(lost[cl][e])

Forgotten(cl, e) == e \in despawnBuffer \/ VisibilityLost(cl, e)

SendsDespawn(cl, e) ==
  /\ ticks[cl][e] # NoTicks
  /\ \/ e \in despawnBuffer /\ HiddenEntityLifetime(hidden[cl][e]) = NotHidden
     \/ VisibilityLost(cl, e)

\* Mutant: losing sight of an entity despawns it but keeps its ticks.
KeepsLostEntity(cl, e) == IF e \in despawnBuffer THEN NoTicks ELSE ticks[cl][e]
AfterDespawns(cl, e) == IF Forgotten(cl, e) THEN NoTicks ELSE ticks[cl][e]

\* collect_removals

BufferedRemovals(cl, e) ==
  {c \in removalBuffer[e] \cap AfterDespawns(cl, e).components :
     HiddenComponentLifetime(hidden[cl][e], c) = NotHidden}

\* Mutant: the mask of an AllExcept scope read as the mask of Components.
LostInMask(cl, e) ==
  {c \in AfterDespawns(cl, e).components \ BufferedRemovals(cl, e) :
     \E f \in lost[cl][e] : Lifetime[f] <= WhileVisible /\ c \in Scope[f].mask}

LostComponents(cl, e) ==
  {c \in AfterDespawns(cl, e).components \ BufferedRemovals(cl, e) :
     \E f \in lost[cl][e] : Lifetime[f] <= WhileVisible /\ HidesComponent(f, c)}

Removals(cl, e) == BufferedRemovals(cl, e) \cup LostComponents(cl, e)

\* write_lost finds neither the entity's archetype nor the component's rule.
Panics(cl, e) ==
  /\ AfterDespawns(cl, e) # NoTicks
  /\ lost[cl][e] # {}
  /\ \/ status[e] # "replicated"
     \/ \E c \in LostComponents(cl, e) : world[e][c] = 0

AfterRemovals(cl, e) == [AfterDespawns(cl, e) EXCEPT !.components = @ \ Removals(cl, e)]

\* collect_changes

Present(e) == IF status[e] = "replicated" THEN {c \in Components : world[e][c] > 0} ELSE {}

\* Mutant: only changes of this tick are written, none is sent again.
NeverResent(cl, e) ==
  {c \in (Present(e) \cap AfterRemovals(cl, e).components) \ OnceComponents :
     HiddenComponentLifetime(hidden[cl][e], c) = NotHidden /\ world[e][c] = Now}

Mutated(cl, e) ==
  LET known == AfterRemovals(cl, e)
  IN {c \in (Present(e) \cap known.components) \ OnceComponents :
        /\ HiddenComponentLifetime(hidden[cl][e], c) = NotHidden
        /\ Now - known.tick >= priority[cl][e]
        /\ world[e][c] > known.tick}

Inserted(cl, e) ==
  LET known == AfterRemovals(cl, e)
  IN {c \in Present(e) \ known.components :
        LET lifetime == HiddenComponentLifetime(hidden[cl][e], c)
        IN \/ lifetime = NotHidden
           \/ lifetime = AlwaysPresent /\ known = NoTicks}

StartsReplication(cl, e) ==
  /\ status[e] = "replicated"
  /\ AfterRemovals(cl, e) = NoTicks
  /\ HiddenEntityLifetime(hidden[cl][e]) \in {NotHidden, AlwaysPresent}

\* The entity's mutations go into the update message and its tick is bumped.
InUpdate(cl, e) ==
  /\ status[e] = "replicated"
  /\ HiddenEntityLifetime(hidden[cl][e]) # WhileVisible
  /\ StartsReplication(cl, e) \/ Inserted(cl, e) # {} \/ removalBuffer[e] # {}

\* update_ticks
AfterChanges(cl, e) ==
  IF InUpdate(cl, e)
  THEN [tick |-> Now,
        components |-> AfterRemovals(cl, e).components \cup Inserted(cl, e)]
  ELSE AfterRemovals(cl, e)

\* send_messages

Written(e, cs) == [c \in Components |-> IF c \in cs THEN world[e][c] ELSE 0]

\* Mutant: the entity's mutations are not merged into its update.
UnmergedUpdate(cl) ==
  [tick |-> Now,
   despawns |-> {e \in Entities : SendsDespawn(cl, e)},
   removals |-> [e \in Entities |-> Removals(cl, e)],
   changed |-> {e \in Entities : /\ InUpdate(cl, e)
                                 /\ \/ StartsReplication(cl, e)
                                    \/ Inserted(cl, e) \cup Mutated(cl, e) # {}},
   values |-> [e \in Entities |->
                 IF InUpdate(cl, e)
                 THEN Written(e, Inserted(cl, e))
                 ELSE NoStamps]]

UpdateMessage(cl) ==
  [tick |-> Now,
   despawns |-> {e \in Entities : SendsDespawn(cl, e)},
   removals |-> [e \in Entities |-> Removals(cl, e)],
   changed |-> {e \in Entities : /\ InUpdate(cl, e)
                                 /\ \/ StartsReplication(cl, e)
                                    \/ Inserted(cl, e) \cup Mutated(cl, e) # {}},
   values |-> [e \in Entities |->
                 IF InUpdate(cl, e)
                 THEN Written(e, Inserted(cl, e) \cup Mutated(cl, e))
                 ELSE NoStamps]]

\* Mutant: an update with nothing but removals is not sent.
IgnoresRemovals(u) == u.despawns = {} /\ u.changed = {}

IsEmptyUpdate(u) ==
  u.despawns = {} /\ u.changed = {} /\ \A e \in Entities : u.removals[e] = {}

\* Mutant: mutations are sent with the update tick of the previous send.
StaleUpdateTick(cl) == updateTick[cl]
SentUpdateTick(cl) == IF IsEmptyUpdate(UpdateMessage(cl)) THEN updateTick[cl] ELSE Now

\* Mutations::send splits the mutated entities into packets; which entities
\* share one depends on their sizes.
MutatedEntities(cl) == {e \in Entities : ~InUpdate(cl, e) /\ Mutated(cl, e) # {}}

UsedPackets(cl, packet) == {packet[e] : e \in MutatedEntities(cl)}

PacketIndex(cl, packet, p) ==
  (mutateIndex[cl] + Cardinality({q \in UsedPackets(cl, packet) : q < p})) % IndexMod

MutateMessages(cl, packet) ==
  {[tick |-> Now, updateTick |-> SentUpdateTick(cl), index |-> PacketIndex(cl, packet, p),
    values |-> [e \in Entities |->
                  IF e \in MutatedEntities(cl) /\ packet[e] = p
                  THEN Written(e, Mutated(cl, e)) ELSE NoStamps]]
     : p \in UsedPackets(cl, packet)}

\* register_mutate_message overwrites an older message with the same index.
Registered(cl, sent) ==
  {i \in mutations[cl] : \A m \in sent : m.index # i.index}
    \cup {[index |-> m.index, tick |-> m.tick,
           entities |-> {e \in Entities : Carries(m, e)}] : m \in sent}

\* ServerSystems::Send, in a frame that incremented the server tick.
SendTick ==
  /\ ~panicked /\ serverTick < MaxTick
  /\ \A cl \in Clients, e \in Entities : connected[cl] => ~Panics(cl, e)
  /\ serverTick' = Now
  /\ \E packet \in [Clients -> [Entities -> 1 .. MaxPackets]] :
       LET sent(cl) == MutateMessages(cl, packet[cl])
       IN /\ mutations' = [cl \in Clients |->
                IF connected[cl] THEN Registered(cl, sent(cl)) ELSE mutations[cl]]
          /\ mutateIndex' = [cl \in Clients |->
                IF connected[cl]
                THEN (mutateIndex[cl] + Cardinality(UsedPackets(cl, packet[cl]))) % IndexMod
                ELSE mutateIndex[cl]]
          /\ mutates' = [cl \in Clients |->
                IF connected[cl] /\ clientUp[cl] THEN mutates[cl] \cup sent(cl) ELSE mutates[cl]]
  /\ updates' = [cl \in Clients |->
       IF connected[cl] /\ clientUp[cl] /\ ~IsEmptyUpdate(UpdateMessage(cl))
       THEN Append(updates[cl], UpdateMessage(cl)) ELSE updates[cl]]
  /\ updateTick' = [cl \in Clients |->
       IF connected[cl] THEN SentUpdateTick(cl) ELSE updateTick[cl]]
  /\ ticks' = [cl \in Clients |->
       IF connected[cl] THEN [e \in Entities |-> AfterChanges(cl, e)] ELSE ticks[cl]]
  /\ hidden' = [cl \in Clients |->
       [e \in Entities |-> IF e \in despawnBuffer THEN {} ELSE hidden[cl][e]]]
  /\ lost' = [cl \in Clients |-> [e \in Entities |-> {}]]
  /\ priority' = [cl \in Clients |->
       [e \in Entities |-> IF Forgotten(cl, e) THEN DefaultPeriod ELSE priority[cl][e]]]
  /\ despawnBuffer' = {}
  /\ removalBuffer' = [e \in Entities |-> {}]
  /\ UNCHANGED <<status, world, panicked, connected, acks, clientUp, clientVars>>

\* The run that panics in collect_removals sends nothing and ends the server.
PanicInSend ==
  /\ ~panicked /\ serverTick < MaxTick
  /\ \E cl \in Clients, e \in Entities : connected[cl] /\ Panics(cl, e)
  /\ panicked' = TRUE
  /\ UNCHANGED <<serverTick, worldVars, connected, ackVars, sentVars,
                 visibilityVars, priority, channelVars, clientUp, clientVars>>

-----------------------------------------------------------------------------
\* Acknowledgements on the server.

\* ack_mutate_message, for every acknowledged message in turn: the entity's
\* tick moves to the newest of them that carried the entity.
AckedTick(cl, e, acked) ==
  LET newer == {i.tick : i \in {j \in acked : e \in j.entities /\ j.tick > ticks[cl][e].tick}}
  IN IF ticks[cl][e] = NoTicks \/ newer = {} THEN ticks[cl][e].tick
     ELSE CHOOSE t \in newer : \A u \in newer : u <= t

ReceiveAcks(cl) ==
  /\ ~panicked /\ connected[cl] /\ acks[cl] # <<>>
  /\ LET acked == {i \in mutations[cl] : i.index \in Head(acks[cl])}
     IN /\ ticks' = [ticks EXCEPT ![cl] =
             [e \in Entities |-> [ticks[cl][e] EXCEPT !.tick = AckedTick(cl, e, acked)]]]
        /\ mutations' = [mutations EXCEPT ![cl] = @ \ acked]
  /\ acks' = [acks EXCEPT ![cl] = Tail(@)]
  /\ UNCHANGED <<serverTick, worldVars, panicked, connected, sentVars, visibilityVars,
                 priority, updates, mutates, clientUp, clientVars>>

\* cleanup_acks: messages sent up to some tick have timed out.
CleanupAcks(cl, t) ==
  /\ ~panicked /\ connected[cl]
  /\ mutations' = [mutations EXCEPT ![cl] = {i \in @ : i.tick > t}]
  /\ UNCHANGED <<serverTick, worldVars, panicked, connected, ticks, sentVars,
                 visibilityVars, priority, channelVars, clientUp, clientVars>>

-----------------------------------------------------------------------------
\* The client's receive system.  A frame is any number of ReceiveUpdate
\* steps, one for each received update message, and then one ReceiveMutations
\* step.  Steps of the server in between change only what the client reads
\* in a later frame or in the messages it has not yet taken.

\* Mutants: removals are applied after changes; only the first update of an
\* entity sets its history.
RemovesLast(u, e, copy) ==
  LET old == IF e \in u.despawns THEN NoCopy ELSE copy
  IN IF e \in u.changed \/ (old.history > 0 /\ u.removals[e] # {})
     THEN [history |-> u.tick,
           values |-> [c \in Components |->
                         IF c \in u.removals[e] THEN 0
                         ELSE IF u.values[e][c] > 0 THEN u.values[e][c] ELSE old.values[c]]]
     ELSE old

\* apply_despawn, apply_removals and apply_changes for one entity.
ApplyUpdate(u, e, copy) ==
  LET old == IF e \in u.despawns THEN NoCopy ELSE copy
      confirmed == e \in u.changed \/ (old.history > 0 /\ u.removals[e] # {})
  IN IF confirmed
     THEN [history |-> u.tick,
           values |-> [c \in Components |->
                         IF u.values[e][c] > 0 THEN u.values[e][c]
                         ELSE IF c \in u.removals[e] THEN 0 ELSE old.values[c]]]
     ELSE old

\* The values of a message written over those of the entity.
Overwritten(values, m, e) ==
  [c \in Components |-> IF m.values[e][c] > 0 THEN m.values[e][c] ELSE values[c]]

Newest(ms) == CHOOSE m \in ms : \A n \in ms : n.tick <= m.tick

\* Mutants: a mutation brings a missing entity back; outdated messages are
\* applied too, moving the history back or leaving it.
SpawnsOnMutation(ms, e, copy) ==
  LET newer == {m \in ms : Carries(m, e) /\ m.tick > copy.history}
  IN IF newer = {} THEN copy
     ELSE [history |-> Newest(newer).tick, values |-> Overwritten(copy.values, Newest(newer), e)]
AppliesOutdated(ms, e, copy) ==
  LET carrying == {m \in ms : Carries(m, e)}
  IN IF copy.history = 0 \/ carrying = {} THEN copy
     ELSE [history |-> Newest(carrying).tick,
           values |-> Overwritten(copy.values, Newest(carrying), e)]
WritesOutdated(ms, e, copy) ==
  LET carrying == {m \in ms : Carries(m, e)}
  IN IF copy.history = 0 \/ carrying = {} THEN copy
     ELSE [copy EXCEPT !.values = Overwritten(@, Newest(carrying), e)]

\* apply_mutations for one entity over the applied messages, newest first:
\* only the newest message of an entity finds its history outdated.
ApplyMutations(ms, e, copy) ==
  LET newer == {m \in ms : Carries(m, e) /\ m.tick > copy.history}
  IN IF copy.history = 0 \/ newer = {} THEN copy
     ELSE [history |-> Newest(newer).tick, values |-> Overwritten(copy.values, Newest(newer), e)]

\* apply_update_message
ReceiveUpdate(cl) ==
  /\ clientUp[cl] /\ updates[cl] # <<>>
  /\ serverUpdateTick' = [serverUpdateTick EXCEPT ![cl] = Head(updates[cl]).tick]
  /\ replica' = [replica EXCEPT ![cl] =
       [e \in Entities |-> ApplyUpdate(Head(updates[cl]), e, replica[cl][e])]]
  /\ updates' = [updates EXCEPT ![cl] = Tail(@)]
  /\ UNCHANGED <<serverTick, worldVars, panicked, connected, ackVars, sentVars,
                 visibilityVars, priority, mutates, acks, clientUp, buffered>>

\* Mutant: mutate messages are applied as they arrive.
EveryMessage(cl, pending) == pending
Ready(cl, pending) == {m \in pending : m.updateTick <= serverUpdateTick[cl]}

\* The rest of apply_replication: buffer and acknowledge what arrived, then
\* apply every buffered message whose update tick has been reached.
ReceiveMutations(cl, arrived) ==
  LET pending == buffered[cl] \cup arrived
      ready == Ready(cl, pending)
  IN /\ clientUp[cl]
     /\ mutates' = [mutates EXCEPT ![cl] = @ \ arrived]
     /\ acks' = IF arrived # {} /\ connected[cl]
                THEN [acks EXCEPT ![cl] = Append(@, {m.index : m \in arrived})]
                ELSE acks
     /\ buffered' = [buffered EXCEPT ![cl] = pending \ ready]
     /\ replica' = [replica EXCEPT ![cl] =
          [e \in Entities |-> ApplyMutations(ready, e, replica[cl][e])]]
     /\ UNCHANGED <<serverTick, worldVars, panicked, connected, ackVars, sentVars,
                    visibilityVars, priority, updates, clientUp, serverUpdateTick>>

\* The network drops a mutate message.
LoseMutation(cl, m) ==
  /\ m.tick <= LastLossTick
  /\ mutates' = [mutates EXCEPT ![cl] = @ \ {m}]
  /\ UNCHANGED <<serverTick, worldVars, panicked, connected, ackVars, sentVars,
                 visibilityVars, priority, updates, acks, clientUp, clientVars>>

-----------------------------------------------------------------------------
\* Sessions.  The two ends notice a broken connection independently.

Connect(cl) ==
  /\ ~panicked /\ serverTick < MaxTick
  /\ ~connected[cl] /\ ~clientUp[cl]
  /\ connected' = [connected EXCEPT ![cl] = TRUE]
  /\ clientUp' = [clientUp EXCEPT ![cl] = TRUE]
  /\ UNCHANGED <<serverTick, worldVars, panicked, ackVars, sentVars, visibilityVars,
                 priority, channelVars, clientVars>>

\* The client's entity is despawned with all its state; handle_disconnect
\* purges what was received from it.
ServerDisconnect(cl) ==
  /\ ~panicked /\ cl \in Roaming /\ connected[cl]
  /\ clientUp[cl] => Changing
  /\ connected' = [connected EXCEPT ![cl] = FALSE]
  /\ ticks' = [ticks EXCEPT ![cl] = [e \in Entities |-> NoTicks]]
  /\ updateTick' = [updateTick EXCEPT ![cl] = 0]
  /\ mutations' = [mutations EXCEPT ![cl] = {}]
  /\ mutateIndex' = [mutateIndex EXCEPT ![cl] = 0]
  /\ hidden' = [hidden EXCEPT ![cl] = [e \in Entities |-> {}]]
  /\ lost' = [lost EXCEPT ![cl] = [e \in Entities |-> {}]]
  /\ priority' = [priority EXCEPT ![cl] = [e \in Entities |-> DefaultPeriod]]
  /\ acks' = [acks EXCEPT ![cl] = <<>>]
  /\ UNCHANGED <<serverTick, worldVars, panicked, updates, mutates, clientUp, clientVars>>

\* reset on the client; replicated entities stay in its world but lose
\* their mapping, so no later message reaches them.
ClientDisconnect(cl) ==
  /\ clientUp[cl] /\ cl \in Roaming
  /\ connected[cl] => Changing
  /\ clientUp' = [clientUp EXCEPT ![cl] = FALSE]
  /\ updates' = [updates EXCEPT ![cl] = <<>>]
  /\ mutates' = [mutates EXCEPT ![cl] = {}]
  /\ serverUpdateTick' = [serverUpdateTick EXCEPT ![cl] = 0]
  /\ buffered' = [buffered EXCEPT ![cl] = {}]
  /\ replica' = [replica EXCEPT ![cl] = [e \in Entities |-> NoCopy]]
  /\ UNCHANGED <<serverTick, worldVars, panicked, connected, ackVars, sentVars,
                 visibilityVars, priority, acks>>

-----------------------------------------------------------------------------
Next ==
  \/ \E e \in Entities :
       \/ Spawn(e) \/ Despawn(e) \/ Pause(e)
       \/ \E c \in Components : Write(e, c) \/ Remove(e, c)
  \/ \E cl \in Clients, e \in Entities :
       \/ \E f \in Filters : Hide(cl, e, f) \/ Show(cl, e, f)
       \/ \E p \in Periods : SetPriority(cl, e, p)
  \/ SendTick
  \/ PanicInSend
  \/ \E cl \in Clients :
       \/ Connect(cl) \/ ServerDisconnect(cl) \/ ClientDisconnect(cl)
       \/ ReceiveAcks(cl)
       \/ \E t \in 1 .. serverTick : CleanupAcks(cl, t)
       \/ ReceiveUpdate(cl)
       \/ \E arrived \in SUBSET mutates[cl] : ReceiveMutations(cl, arrived)
       \/ \E m \in mutates[cl] : LoseMutation(cl, m)

Spec == Init /\ [][Next]_vars

\* Frames keep running on both sides, a broken connection is noticed by the
\* other end, and the network delivers: the Updates and acknowledgement
\* channels are reliable, and a mutate message that is never lost arrives.
Fairness ==
  /\ WF_vars(SendTick)
  /\ \A cl \in Clients :
       /\ WF_vars(~clientUp[cl] /\ ServerDisconnect(cl))
       /\ WF_vars(~connected[cl] /\ ClientDisconnect(cl))
       /\ WF_vars(ReceiveUpdate(cl))
       /\ WF_vars(ReceiveMutations(cl, mutates[cl]))
       /\ WF_vars(ReceiveAcks(cl))

FairSpec == Spec /\ Fairness

-----------------------------------------------------------------------------
\* Safety.

Linked(cl) == connected[cl] /\ clientUp[cl]

\* What the client will hold once every update message on its way and every
\* mutate message it has buffered are applied: the replay of the Updates
\* channel followed by the buffered mutations.
Replayed(cl) ==
  LET after[n \in 0 .. Len(updates[cl])] ==
        IF n = 0 THEN replica[cl]
        ELSE [e \in Entities |-> ApplyUpdate(updates[cl][n], e, after[n - 1][e])]
  IN after[Len(updates[cl])]

Settled(cl) == [e \in Entities |-> ApplyMutations(buffered[cl], e, Replayed(cl)[e])]

HeldComponents(copy) == {c \in Components : copy.values[c] > 0}

\* What ClientTicks records for an entity is what the client has, or will have
\* when the messages on their way arrive: the recorded components are the ones
\* the client holds.  If it ever differed, the server would send a mutation
\* for a component the client never got or never send a removal it needs.
TrackedIsHeld ==
  \A cl \in Clients, e \in Entities :
    Linked(cl) /\ ticks[cl][e] # NoTicks =>
      /\ Settled(cl)[e].history > 0
      /\ HeldComponents(Settled(cl)[e]) = ticks[cl][e].components

\* An entity that ClientTicks no longer records is gone from the client, and
\* no mutate message in flight brings it back.  Entities that stopped being
\* replicated before their despawn are the documented exception.
UntrackedIsGone ==
  \A cl \in Clients, e \in Entities \ Pausable :
    Linked(cl) /\ ticks[cl][e] = NoTicks => Settled(cl)[e].history = 0

\* A component the server considers acknowledged (it will not be sent again
\* until it changes) has its current value on the client's side of the network.
\* Acknowledgements come for one packet at a time, late, out of order or never;
\* old infos are dropped; a mutation is merged into the entity's update message
\* when something else of the entity is inserted or removed, and the tick moves
\* with it: none of these may count a change the client was not sent.  The code
\* does not keep it everywhere: not when a mutation waits for its priority, or
\* when the entity loses a hidden component in that send, and not for a
\* message acknowledged in the buffer and then discarded (findings 1 to 3 of the
\* README).  Nothing is claimed of a mutate index that is used again while its
\* old message is unacknowledged.
AckedIsDelivered ==
  \A cl \in Clients, e \in Entities :
    \A c \in (Present(e) \cap ticks[cl][e].components) \ OnceComponents :
      /\ Linked(cl)
      /\ HiddenComponentLifetime(hidden[cl][e], c) = NotHidden
      /\ world[e][c] <= ticks[cl][e].tick
      => Settled(cl)[e].values[c] = world[e][c]

\* A client never shows a change made after the tick of an update message it
\* has not applied yet: a mutation waits for every insertion, removal, spawn
\* and despawn the server sent before it.
CausalDelivery ==
  \A cl \in Clients : \A n \in DOMAIN updates[cl] : \A e \in Entities, c \in Components :
    replica[cl][e].values[c] < updates[cl][n].tick

\* The four parts of the invariant behind CausalDelivery.

\* No tick or value is ahead of the send that stamped it.
StampsBounded ==
  /\ \A e \in Entities, c \in Components : world[e][c] <= serverTick + 1
  /\ \A cl \in Clients :
       /\ \A i \in mutations[cl] : i.tick <= serverTick
       /\ \A m \in mutates[cl] \cup buffered[cl] :
            /\ m.tick <= serverTick
            /\ \A e \in Entities, c \in Components : m.values[e][c] <= m.tick
       /\ \A n \in DOMAIN updates[cl] : \A e \in Entities, c \in Components :
            updates[cl][n].values[e][c] <= updates[cl][n].tick
       /\ \A e \in Entities, c \in Components :
            replica[cl][e].values[c] <= replica[cl][e].history

\* The update messages on their way continue the ones the client applied, up
\* to the update tick the server sends with its mutations.
UpdatesInOrder ==
  \A cl \in Clients :
    /\ updateTick[cl] <= serverTick /\ serverUpdateTick[cl] <= serverTick
    /\ \A n \in DOMAIN updates[cl] :
         /\ serverUpdateTick[cl] < updates[cl][n].tick
         /\ updates[cl][n].tick <= serverTick
         /\ connected[cl] => updates[cl][n].tick <= updateTick[cl]
         /\ \A k \in 1 .. n - 1 : updates[cl][k].tick < updates[cl][n].tick

\* A mutate message waits for every update message sent no later than it.
MutationsWait ==
  \A cl \in Clients : \A n \in DOMAIN updates[cl] : \A m \in mutates[cl] \cup buffered[cl] :
    updates[cl][n].tick <= m.updateTick \/ m.tick < updates[cl][n].tick

\* Confirmed ticks lag behind the update messages on their way, and a client
\* that is not connected has no state of an earlier session.
HistoryInOrder ==
  \A cl \in Clients :
    /\ \A e \in Entities :
         /\ replica[cl][e].history <= serverTick
         /\ \A n \in DOMAIN updates[cl] : replica[cl][e].history < updates[cl][n].tick
    /\ ~clientUp[cl] => updates[cl] = <<>>

\* What the order of messages on their way guarantees at any time, whatever
\* is lost, delayed or cut off by a disconnect: the inductive invariant.
DeliveryInv ==
  TypeOK /\ StampsBounded /\ UpdatesInOrder /\ MutationsWait /\ HistoryInOrder

\* Neither an update nor a mutate message moves an entity's confirmed tick
\* back (the debug assertion of ConfirmHistory::set_last_tick), as long as
\* the client keeps the entity.
ConfirmedTickAdvances ==
  [][\A cl \in Clients, e \in Entities :
       replica'[cl][e].history = 0 \/ replica'[cl][e].history >= replica[cl][e].history]_vars

\* A component the client keeps is never set back to an older value,
\* whatever the order in which mutate messages arrive.
ValuesAdvance ==
  [][\A cl \in Clients, e \in Entities, c \in Components :
       replica'[cl][e].values[c] = 0
         \/ replica'[cl][e].values[c] >= replica[cl][e].values[c]]_vars

\* Once the send systems ran after an entity or component became hidden by a
\* WhileVisible filter, the client no longer holds it, and no message in flight
\* gives it back.  (The despawn of an entity ends its visibility records.)
HiddenIsGone ==
  \A cl \in Clients, e \in Entities, c \in Components :
    /\ Linked(cl) /\ status[e] # "despawned"
    /\ HiddenComponentLifetime(hidden[cl][e] \ lost[cl][e], c) = WhileVisible
    => Settled(cl)[e].values[c] = 0

\* Nothing is on its way and the server has nothing to send.
Quiet(cl) ==
  /\ Linked(cl) /\ updates[cl] = <<>> /\ mutates[cl] = {} /\ acks[cl] = <<>>
  /\ buffered[cl] = {} /\ despawnBuffer = {}
  /\ \A e \in Entities :
       /\ removalBuffer[e] = {} /\ lost[cl][e] = {}
       /\ ~InUpdate(cl, e)
       /\ \A c \in Present(e) \cap ticks[cl][e].components :
            \/ c \in OnceComponents
            \/ HiddenComponentLifetime(hidden[cl][e], c) # NotHidden
            \/ world[e][c] <= ticks[cl][e].tick

\* The client's copy of the visible replicated world is the server's.
InSync(cl) ==
  /\ Linked(cl)
  /\ \A e \in Entities :
       /\ status[e] = "replicated" /\ HiddenEntityLifetime(hidden[cl][e]) = NotHidden =>
            /\ replica[cl][e].history > 0
            /\ \A c \in Components :
                 HiddenComponentLifetime(hidden[cl][e], c) = NotHidden =>
                   \/ replica[cl][e].values[c] = world[e][c]
                   \/ c \in OnceComponents /\ replica[cl][e].values[c] > 0 /\ world[e][c] > 0
       /\ status[e] = "despawned" /\ e \notin Pausable => replica[cl][e].history = 0

\* Eventual consistency, as a state property: when nothing is left to send
\* or receive the client is in sync with the server.
QuietIsInSync == \A cl \in Clients : Quiet(cl) => InSync(cl)

\* The send systems find an archetype and a rule for every visibility loss.
NeverPanics == ~panicked

\* Eventual consistency, as a liveness property: after the last change and the
\* last loss every connected client ends up, and stays, in sync, because what
\* is not acknowledged is sent again.
EventuallyInSync == <>[](\A cl \in Clients : Linked(cl) => InSync(cl))
=============================================================================
