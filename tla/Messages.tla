------------------------------ MODULE Messages ------------------------------
(***************************************************************************)
(* Messages and events between the server and its clients                  *)
(* (shared/message/, server/message.rs, client/message.rs), with what they *)
(* need of replication and of the connection.                              *)
(*                                                                         *)
(* A dependent server message waits in MessageBuffer for the next server   *)
(* tick, is stamped with the update tick of each recipient, and waits in   *)
(* the client's MessageQueue until the client has applied that update.  An *)
(* independent one is sent at once and shown at once.  Client and shared   *)
(* messages are sent while the client is connected, and handled locally    *)
(* while it is disconnected.  An event is a message that is drained and    *)
(* triggered when it is received.                                          *)
(*                                                                         *)
(* Of replication the model keeps which entities exist and which of them   *)
(* each client has.                                                        *)
(***************************************************************************)
EXTENDS Integers, Sequences, FiniteSets, SequencesExt, FiniteSetsExt, TLC

CONSTANTS
  Clients,            \* client apps
  Server,             \* ClientId::Server: the server as a recipient
  Entities,           \* entities the server may spawn
  None,               \* a message that refers to no entity
  Protocols,          \* protocol hashes a client app may have,
  Protocol,           \*   and the server's
  ChannelOf,          \* the channel of each kind of server message
  Targets,            \* the targets the server's messages are given
  MaxMessages,        \* bounds: messages written by the server and the clients,
  MaxTick,            \*   server ticks,
  MaxSession          \*   sessions of one client

\* The kinds of server messages: the event that reports a different protocol
\* is one of the independent ones.
Kinds == {"Dependent", "Independent", "ProtocolMismatch"}

\* What a client sends: messages to the server, messages it also handles
\* itself, and the hash of its protocol.
UpKinds == {"Client", "Shared", "ProtocolHash"}

ASSUME MessagesAssumption ==
  /\ Server \notin Clients /\ Server # "Local"
  /\ None \notin Entities
  /\ Protocol \in Protocols
  /\ ChannelOf \in [Kinds -> {"Ordered", "Unordered", "Unreliable"}]
  /\ Targets \subseteq [to : {"All", "AllExcept", "Single"}, who : Clients \cup {Server, None}]
  /\ MaxMessages \in Nat /\ MaxTick \in Nat /\ MaxSession \in Nat

VARIABLES
  \* server
  serverTick,         \* ServerTick
  world,              \* replicated entities
  spawned,            \* entities that were ever spawned
  toClients,          \* Messages<ToClients<M>>: ids not yet processed
  buffer,             \* MessageBuffer: [id, excluded]
  link,               \* link[cl]: the entity with ConnectedClient
  disconnects,        \* DisconnectRequest of this frame
  written,            \* history: every server message, by id
  \* network
  updates,            \* update messages on their way
  down,               \* server messages on their way: [id, tick]
  up,                 \* client messages on their way: [kind, id]
  \* client
  app,                \* app[cl]: client state and its resources
  \* history of what was shown to the application
  seen,               \* seen[cl]: server messages, in the session of cl
  seenLocally,        \* server messages shown to the server itself
  handled             \* handled[cl]: messages of cl: [id, kind, at]

serverVars == <<serverTick, world, spawned, toClients, buffer, link, disconnects, written>>
netVars == <<updates, down, up>>
clientVars == <<app, seen, seenLocally, handled>>
vars == <<serverVars, netVars, clientVars>>

-----------------------------------------------------------------------------
\* The entries of a sequence at the positions in keep, in their order
\* (SelectSeq, without recursion).
Nth(keep, i) == CHOOSE j \in keep : Cardinality({k \in keep : k <= j}) = i
Pick(s, keep) == [i \in 1..Cardinality(keep) |-> s[Nth(keep, i)]]

-----------------------------------------------------------------------------
(* Targets, and the ends of a connection.                                  *)

ToAll == [to |-> "All", who |-> None]
AllExcept(r) == [to |-> "AllExcept", who |-> r]
Single(r) == [to |-> "Single", who |-> r]

\* A client entity that does not exist.  The history fields say how many
\* messages had left toClients when the client connected and was authorized.
NoLink == [status |-> "Absent", session |-> 0, updateTick |-> 0, known |-> {}, since |-> 0, authSince |-> 0]

\* The resources of a client that never connected: its state, ServerUpdateTick,
\* the mapped entities, MessageQueue and the messages it wrote.
NewApp == [state |-> "Disconnected", protocol |-> Protocol, updateTick |-> 0, replica |-> {}, queue |-> <<>>,
           out |-> <<>>, wrote |-> 0, session |-> 0]

\* A connection waits at the listener before the server accepts it.  A client
\* has one connection at a time: the server drops the old one before the next.
Connected == {cl \in Clients : link[cl].status \in {"Connected", "Authorized"}}
Authorized == {cl \in Clients : link[cl].status = "Authorized"}

\* ClientId: the entity of a client, another one in each session, or the server.
IdOf(r) == <<r, IF r \in Clients THEN link[r].session ELSE 0>>
ConnectedIds == {IdOf(cl) : cl \in Connected}

\* SendTargets: whether r, a client or the server, is a recipient of a message.
IsRecipient(id, r) ==
  LET targets == written[id].targets
  IN  CASE targets.to = "All" -> TRUE
        [] targets.to = "AllExcept" -> IdOf(r) # targets.who
        [] targets.to = "Single" -> IdOf(r) = targets.who

\* The bound on what the server and one client write together.
MayWrite(cl) == Len(written) + app[cl].wrote < MaxMessages

\* Messages that have left toClients.
Processed == Len(written) - Len(toClients)

Init ==
  /\ serverTick = 0
  /\ world = {} /\ spawned = {}
  /\ toClients = <<>> /\ buffer = <<>> /\ written = <<>>
  /\ disconnects = {}
  /\ link = [cl \in Clients |-> NoLink]
  /\ updates = [cl \in Clients |-> <<>>]
  /\ down = [cl \in Clients |-> <<>>]
  /\ up = [cl \in Clients |-> <<>>]
  /\ app = [cl \in Clients |-> NewApp]
  /\ seen = [cl \in Clients |-> <<>>]
  /\ seenLocally = <<>>
  /\ handled = [cl \in Clients |-> <<>>]

-----------------------------------------------------------------------------
(* The application on the server.                                          *)

Spawn(e) ==
  /\ e \notin spawned
  /\ world' = world \cup {e}
  /\ spawned' = spawned \cup {e}
  /\ UNCHANGED <<serverTick, toClients, buffer, link, disconnects, written, netVars, clientVars>>

Despawn(e) ==
  /\ e \in world
  /\ world' = world \ {e}
  /\ UNCHANGED <<serverTick, spawned, toClients, buffer, link, disconnects, written,
                 netVars, clientVars>>

\* A message is written for some targets, and may refer to an entity that
\* exists.  The server knows a client from its entity, which may be gone when
\* the message is sent.
Write(kind, targets, e) ==
  /\ \A cl \in Clients : MayWrite(cl)
  /\ serverTick < MaxTick
  /\ kind # "ProtocolMismatch"
  /\ e \in world \cup {None}
  /\ targets.who \in Clients => targets.who \in Connected
  /\ written' = Append(written, [kind |-> kind, entity |-> e,
                                 targets |-> [to |-> targets.to, who |-> IdOf(targets.who)]])
  /\ toClients' = Append(toClients, Len(written) + 1)
  /\ UNCHANGED <<serverTick, world, spawned, buffer, link, disconnects, netVars, clientVars>>

-----------------------------------------------------------------------------
(* PostUpdate on the server: replication, then messages.                   *)

\* The update message and update tick of a client, when the send systems run.
ReplicatesEveryFrame(cl, ticks) == cl \in Authorized /\ link[cl].known # world
Replicates(cl, ticks) == ticks /\ cl \in Authorized /\ link[cl].known # world

AfterReplication(cl, ticks) ==
  IF Replicates(cl, ticks)
  THEN [link[cl] EXCEPT !.updateTick = serverTick + 1, !.known = world]
  ELSE link[cl]

\* send_independent_message: the connected clients among the targets; a single
\* target is not looked up among them.
Addressed(id) ==
  IF written[id].targets.to = "Single" THEN {written[id].targets.who} \ {IdOf(Server)}
  ELSE {IdOf(cl) : cl \in {cl \in Connected : IsRecipient(id, cl)}}

SentAtOnce(cl) ==
  LET goes(id) == written[id].kind # "Dependent" /\ IdOf(cl) \in Addressed(id)
      ids == Pick(toClients, {i \in DOMAIN toClients : goes(toClients[i])})
  IN  [i \in DOMAIN ids |-> [id |-> ids[i], tick |-> 0]]

\* send_or_buffer: dependent messages go to a new set of the buffer.
Buffered ==
  LET isDependent(id) == written[id].kind = "Dependent"
      ids == Pick(toClients, {i \in DOMAIN toClients : isDependent(toClients[i])})
  IN  buffer \o [i \in DOMAIN ids |-> [id |-> ids[i], excluded |-> {}]]

\* MessageBuffer::send_all: to authorized recipients that are not excluded,
\* stamped with the update tick the client has after this tick's replication.
SentFromBuffer(cl) ==
  LET goes(b) ==
        /\ cl \in Authorized
        /\ cl \notin b.excluded
        /\ IsRecipient(b.id, cl)
      sets == Pick(Buffered, {i \in DOMAIN Buffered : goes(Buffered[i])})
  IN  [i \in DOMAIN sets |-> [id |-> sets[i].id, tick |-> AfterReplication(cl, TRUE).updateTick]]

\* send_locally: everything is drained, and shown if the server is a recipient.
ShownLocally == Pick(toClients, {i \in DOMAIN toClients : IsRecipient(toClients[i], Server)})

\* One frame: the tick may be incremented, then replication, messages and, in
\* the messaging backend, the requested disconnects.
ServerFrame(ticks) ==
  /\ ticks => serverTick < MaxTick
  /\ serverTick' = IF ticks THEN serverTick + 1 ELSE serverTick
  /\ updates' = [cl \in Clients |->
       IF Replicates(cl, ticks)
       THEN Append(updates[cl], [tick |-> serverTick + 1, world |-> world])
       ELSE updates[cl]]
  /\ down' = [cl \in Clients |->
       down[cl] \o SentAtOnce(cl) \o (IF ticks THEN SentFromBuffer(cl) ELSE <<>>)]
  /\ buffer' = IF ticks THEN <<>> ELSE Buffered
  /\ seenLocally' = seenLocally \o ShownLocally
  /\ toClients' = <<>>
  /\ link' = [cl \in Clients |->
       IF cl \in disconnects THEN NoLink ELSE AfterReplication(cl, ticks)]
  /\ up' = [cl \in Clients |-> IF cl \in disconnects THEN <<>> ELSE up[cl]]
  /\ disconnects' = {}
  /\ UNCHANGED <<world, spawned, written, app, seen, handled>>

-----------------------------------------------------------------------------
(* Connections and client messages on the server.                          *)

\* MessageBuffer::exclude_client, when ConnectedClient is inserted.
ExcludeNoClient(cl) == buffer
ExcludeClient(cl) ==
  [i \in DOMAIN buffer |-> [buffer[i] EXCEPT !.excluded = @ \cup {cl}]]

Accept(cl) ==
  /\ link[cl].status = "Waiting"
  /\ link' = [link EXCEPT ![cl].status = "Connected", ![cl].since = Processed]
  /\ buffer' = ExcludeClient(cl)
  /\ UNCHANGED <<serverTick, world, spawned, toClients, disconnects, written, netVars, clientVars>>

\* The connection breaks on the server: the client entity is despawned and
\* its messages are removed (ServerMessages::remove_client).
ServerDrops(cl) ==
  /\ link[cl].status # "Absent"
  /\ link' = [link EXCEPT ![cl] = NoLink]
  /\ up' = [up EXCEPT ![cl] = <<>>]
  /\ disconnects' = disconnects \ {cl}
  /\ UNCHANGED <<serverTick, world, spawned, toClients, buffer, written, updates, down, clientVars>>

\* The server leaves ServerState::Running, and runs again.  The messages not
\* yet processed are drained by send_locally while it is stopped.
Restart ==
  /\ serverTick > 0
  /\ serverTick' = 0
  /\ buffer' = <<>>
  /\ toClients' = <<>>
  /\ seenLocally' = seenLocally \o ShownLocally
  /\ link' = [cl \in Clients |-> NoLink]
  /\ up' = [cl \in Clients |-> <<>>]
  /\ disconnects' = {}
  /\ UNCHANGED <<world, spawned, written, updates, down, app, seen, handled>>

\* Each kind has a channel of its own, which keeps its order.
FirstOfItsKind(sent, i) == \A j \in 1..(i - 1) : sent[j].kind # sent[i].kind

\* check_protocol: the client becomes authorized, with new ClientTicks, or is
\* told that its protocol differs and is disconnected after this frame's send.
CheckProtocol(cl, protocol) ==
  IF protocol = Protocol
  THEN /\ link' = [link EXCEPT ![cl].status = "Authorized", ![cl].authSince = Processed]
       /\ UNCHANGED <<toClients, written, disconnects>>
  ELSE /\ written' = Append(written, [kind |-> "ProtocolMismatch", entity |-> None,
                                       targets |-> Single(IdOf(cl))])
       /\ toClients' = Append(toClients, Len(written) + 1)
       /\ disconnects' = disconnects \cup {cl}
       /\ UNCHANGED link

ServerReceive(cl, i) ==
  /\ cl \in Connected
  /\ i \in DOMAIN up[cl] /\ FirstOfItsKind(up[cl], i)
  /\ up' = [up EXCEPT ![cl] = RemoveAt(@, i)]
  /\ IF up[cl][i].kind = "ProtocolHash"
     THEN CheckProtocol(cl, up[cl][i].id) /\ UNCHANGED handled
     ELSE /\ handled' = [handled EXCEPT ![cl] = Append(@, [kind |-> up[cl][i].kind, id |-> up[cl][i].id, at |-> Server])]
          /\ UNCHANGED <<link, toClients, written, disconnects>>
  /\ UNCHANGED <<serverTick, world, spawned, buffer, updates, down, app, seen, seenLocally>>

-----------------------------------------------------------------------------
(* The state of a client.                                                  *)

StartConnecting(cl) ==
  /\ app[cl].state = "Disconnected" /\ app[cl].session < MaxSession
  /\ app' = [app EXCEPT ![cl].state = "Connecting"]
  /\ UNCHANGED <<serverVars, netVars, seen, seenLocally, handled>>

GiveUp(cl) ==
  /\ app[cl].state = "Connecting"
  /\ app' = [app EXCEPT ![cl].state = "Disconnected"]
  /\ UNCHANGED <<serverVars, netVars, seen, seenLocally, handled>>

\* OnEnter(Connected): send_protocol_hash writes the hash of this client app.
Open(cl, protocol) ==
  /\ app[cl].state # "Connected" /\ app[cl].session < MaxSession
  /\ link[cl].status = "Absent"
  /\ app' = [app EXCEPT ![cl].state = "Connected", ![cl].session = @ + 1,
         ![cl].protocol = protocol,
         ![cl].out = Append(@, [kind |-> "ProtocolHash", id |-> protocol, sent |-> FALSE])]
  /\ link' = [link EXCEPT ![cl].status = "Waiting", ![cl].session = app[cl].session + 1]
  /\ seen' = [seen EXCEPT ![cl] = <<>>]
  /\ updates' = [updates EXCEPT ![cl] = <<>>]
  /\ down' = [down EXCEPT ![cl] = <<>>]
  /\ up' = [up EXCEPT ![cl] = <<>>]
  /\ UNCHANGED <<serverTick, world, spawned, toClients, buffer, disconnects, written,
                 seenLocally, handled>>

\* OnExit(Connected): the reset systems clear ClientMessages, the update tick,
\* the entity map and the queues, and drain client and shared messages.
AfterResetWithoutDrain(a) ==
  [a EXCEPT !.state = "Disconnected", !.updateTick = 0, !.replica = {}, !.queue = <<>>]
AfterReset(a) ==
  [a EXCEPT !.state = "Disconnected", !.updateTick = 0, !.replica = {}, !.queue = <<>>,
            !.out = <<>>]

\* What was received and what was sent but not yet taken by the backend is
\* cleared with ClientMessages; the server notices on its own.
ClientDrops(cl) ==
  /\ app[cl].state = "Connected"
  /\ app' = [app EXCEPT ![cl] = AfterReset(@)]
  /\ updates' = [updates EXCEPT ![cl] = <<>>]
  /\ down' = [down EXCEPT ![cl] = <<>>]
  /\ UNCHANGED <<serverVars, up, seen, seenLocally, handled>>

-----------------------------------------------------------------------------
(* Messages of a client.                                                   *)

ClientWrite(cl, kind) ==
  /\ MayWrite(cl)
  /\ kind # "ProtocolHash"
  /\ app' = [app EXCEPT ![cl].wrote = @ + 1,
       ![cl].out = Append(@, [kind |-> kind, id |-> app[cl].wrote + 1, sent |-> FALSE])]
  /\ UNCHANGED <<serverVars, netVars, seen, seenLocally, handled>>

Unsent(out) == Pick(out, {i \in DOMAIN out : ~out[i].sent})
SharedIn(out) == Pick(out, {i \in DOMAIN out : out[i].kind = "Shared"})
NotSharedIn(out) == Pick(out, {i \in DOMAIN out : out[i].kind # "Shared"})
AsLocal(out) == [i \in DOMAIN out |-> [kind |-> out[i].kind, id |-> out[i].id, at |-> "Local"]]

\* send and send_shared: a client message is read but stays in Messages<M>; a
\* shared one is drained and handled here as well.
SendRemotely(cl) ==
  LET new == Unsent(app[cl].out)
      kept == NotSharedIn(app[cl].out)
  IN  /\ app[cl].state = "Connected"
      /\ new # <<>>
      /\ up' = [up EXCEPT ![cl] =
           IF link[cl].status = "Absent" THEN @
           ELSE @ \o [i \in DOMAIN new |-> [kind |-> new[i].kind, id |-> new[i].id]]]
      /\ app' = [app EXCEPT ![cl].out =
           [i \in DOMAIN kept |-> [kind |-> kept[i].kind, id |-> kept[i].id, sent |-> TRUE]]]
      /\ handled' = [handled EXCEPT ![cl] = @ \o AsLocal(SharedIn(new))]
      /\ UNCHANGED <<serverVars, updates, down, seen, seenLocally>>

\* send_locally and send_shared_locally, while disconnected.
SendLocally(cl) ==
  /\ app[cl].state = "Disconnected"
  /\ app[cl].out # <<>>
  /\ handled' = [handled EXCEPT ![cl] = @ \o AsLocal(app[cl].out)]
  /\ app' = [app EXCEPT ![cl].out = <<>>]
  /\ UNCHANGED <<serverVars, netVars, seen, seenLocally>>

\* Messages<M> drops what is two frames old: what was already sent, and what
\* was written while connecting.
Expire(cl) ==
  /\ app[cl].out # Unsent(app[cl].out) \/ (app[cl].state = "Connecting" /\ app[cl].out # <<>>)
  /\ app' = [app EXCEPT ![cl].out =
       IF app[cl].state = "Connecting" THEN <<>> ELSE Unsent(@)]
  /\ UNCHANGED <<serverVars, netVars, seen, seenLocally, handled>>

-----------------------------------------------------------------------------
(* PreUpdate on a client: replication, then messages.                      *)

\* MessageQueue::insert: after all older and equal ticks.
EnqueueBeforeEqual(queue, m) ==
  LET older == Cardinality({i \in DOMAIN queue : queue[i].tick < m.tick})
  IN  InsertAt(queue, older + 1, m)
Enqueue(queue, m) ==
  LET older == Cardinality({i \in DOMAIN queue : queue[i].tick <= m.tick})
  IN  InsertAt(queue, older + 1, m)

\* Mapping the entities of a message fails for one the client does not have:
\* the message is ignored.
Maps(replica, id) == written[id].entity \in replica \cup {None}

\* MessageQueue::pop_if_le: everything up to the update tick leaves.
ReadyIfOlder(queue, tick) == Pick(queue, {i \in DOMAIN queue : queue[i].tick < tick})
Ready(queue, tick) == Pick(queue, {i \in DOMAIN queue : queue[i].tick <= tick})
Remaining(queue, tick) == Pick(queue, {i \in DOMAIN queue : queue[i].tick > tick})
Ids(ms) == [i \in DOMAIN ms |-> ms[i].id]

\* The first n update messages are applied, then the queue is popped.
ReceiveReplication(cl, n) ==
  /\ app[cl].state = "Connected"
  /\ n \in DOMAIN updates[cl]
  /\ LET last == updates[cl][n]
         ready == Ids(Ready(app[cl].queue, last.tick))
     IN  /\ app' = [app EXCEPT ![cl].updateTick = last.tick, ![cl].replica = last.world,
                               ![cl].queue = Remaining(@, last.tick)]
         /\ seen' = [seen EXCEPT ![cl] =
              @ \o Pick(ready, {i \in DOMAIN ready : Maps(last.world, ready[i])})]
  /\ updates' = [updates EXCEPT ![cl] = SubSeq(@, n + 1, Len(@))]
  /\ UNCHANGED <<serverVars, down, up, seenLocally, handled>>

\* An ordered channel delivers in the order of sending.
MayArrive(cl, i) ==
  LET kind == written[down[cl][i].id].kind
  IN  ChannelOf[kind] = "Ordered" => \A j \in 1..(i - 1) : written[down[cl][j].id].kind # kind

ReceiveMessage(cl, i) ==
  /\ app[cl].state = "Connected"
  /\ i \in DOMAIN down[cl] /\ MayArrive(cl, i)
  /\ down' = [down EXCEPT ![cl] = RemoveAt(@, i)]
  /\ LET m == down[cl][i] IN
     IF m.tick > app[cl].updateTick
     THEN /\ app' = [app EXCEPT ![cl].queue = Enqueue(@, m)]
          /\ UNCHANGED seen
     ELSE /\ seen' = IF Maps(app[cl].replica, m.id)
                     THEN [seen EXCEPT ![cl] = Append(@, m.id)] ELSE seen
          /\ UNCHANGED app
  /\ UNCHANGED <<serverVars, updates, up, seenLocally, handled>>

Lose(cl, i) ==
  /\ i \in DOMAIN down[cl]
  /\ ChannelOf[written[down[cl][i].id].kind] = "Unreliable"
  /\ down' = [down EXCEPT ![cl] = RemoveAt(@, i)]
  /\ UNCHANGED <<serverVars, updates, up, clientVars>>

-----------------------------------------------------------------------------
ServerNext ==
  \/ \E e \in Entities : Spawn(e) \/ Despawn(e)
  \/ \E kind \in Kinds, targets \in Targets, e \in Entities \cup {None} : Write(kind, targets, e)
  \/ \E ticks \in BOOLEAN : ServerFrame(ticks)
  \/ Restart
  \/ \E cl \in Clients :
       \/ Accept(cl) \/ ServerDrops(cl)
       \/ \E i \in DOMAIN up[cl] : ServerReceive(cl, i)

Client(cl) ==
  \/ StartConnecting(cl) \/ GiveUp(cl) \/ ClientDrops(cl)
  \/ \E protocol \in Protocols : Open(cl, protocol)
  \/ \E kind \in UpKinds : ClientWrite(cl, kind)
  \/ SendRemotely(cl) \/ SendLocally(cl) \/ Expire(cl)
  \/ \E n \in DOMAIN updates[cl] : ReceiveReplication(cl, n)
  \/ \E i \in DOMAIN down[cl] : ReceiveMessage(cl, i) \/ Lose(cl, i)

Next == ServerNext \/ \E cl \in Clients : Client(cl)

Spec == Init /\ [][Next]_vars

\* Both apps keep running frames: the server ticks, accepts and receives, the
\* clients send and receive.  Nothing has to disconnect or be lost.
Fairness ==
  /\ WF_vars(ServerFrame(TRUE)) /\ WF_vars(ServerFrame(FALSE) /\ toClients # <<>>)
  /\ \A cl \in Clients :
       /\ WF_vars(Accept(cl))
       /\ WF_vars(\E i \in DOMAIN up[cl] : ServerReceive(cl, i))
       /\ WF_vars(SendRemotely(cl))
       /\ WF_vars(\E n \in DOMAIN updates[cl] : ReceiveReplication(cl, n))
       /\ WF_vars(\E i \in DOMAIN down[cl] : ReceiveMessage(cl, i))

FairSpec == Spec /\ Fairness

-----------------------------------------------------------------------------
(* Properties.                                                             *)

MessageIds == 1..Len(written)

\* The type of every variable.
TypeOK ==
  /\ serverTick \in 0..MaxTick
  /\ world \subseteq spawned /\ spawned \subseteq Entities
  /\ written \in Seq([kind : Kinds, targets : [to : {"All", "AllExcept", "Single"},
                                               who : (Clients \cup {Server, None}) \X Nat],
                       entity : Entities \cup {None}])
  /\ \A id \in ToSet(toClients) \cup ToSet(seenLocally) : id \in MessageIds
  /\ \A i \in DOMAIN buffer : buffer[i] \in [id : MessageIds, excluded : SUBSET Clients]
  /\ disconnects \subseteq Clients
  /\ link \in [Clients -> [status : {"Absent", "Waiting", "Connected", "Authorized"},
                           session : 0..MaxSession,
                           updateTick : 0..MaxTick, known : SUBSET Entities,
                           since : 0..Len(written), authSince : 0..Len(written)]]
  /\ \A cl \in Clients :
       /\ app[cl].state \in {"Disconnected", "Connecting", "Connected"}
       /\ app[cl].session \in 0..MaxSession /\ app[cl].wrote \in 0..MaxMessages
       /\ app[cl].replica \subseteq Entities
       /\ \A m \in ToSet(down[cl]) \cup ToSet(app[cl].queue) :
            m \in [id : MessageIds, tick : 0..MaxTick]
       /\ ToSet(seen[cl]) \subseteq MessageIds

\* Messages of an ordered channel are shown, or will leave the queue, in the
\* order in which they were written.
SeenInOrder ==
  \A cl \in Clients :
    LET shown == seen[cl] \o Ids(app[cl].queue)
    IN  \A i, j \in DOMAIN shown :
          /\ i < j
          /\ written[shown[i]].kind = written[shown[j]].kind
          /\ ChannelOf[written[shown[i]].kind] = "Ordered"
          => shown[i] < shown[j]

\* What is sent to a connected client was not yet processed when it connected:
\* a message buffered before does not reach it (MessageBuffer::excluded).
OldMessagesAreExcluded ==
  \A cl \in Connected :
    app[cl].state = "Connected" =>
      \A id \in ToSet(seen[cl]) \cup ToSet(Ids(app[cl].queue)) \cup ToSet(Ids(down[cl])) :
        id > link[cl].since

\* A dependent message for a client that was authorized when it was processed
\* is shown, or still buffered, on its way or queued, unless the entity it
\* refers to is gone; so is an independent one of a reliable channel that
\* refers to no entity.
NothingIsLost ==
  \A cl \in Authorized, id \in MessageIds :
    /\ app[cl].state = "Connected"
    /\ link[cl].authSince < id /\ id \notin ToSet(toClients)
    /\ IsRecipient(id, cl)
    /\ ChannelOf[written[id].kind] # "Unreliable"
    /\ written[id].entity \in (IF written[id].kind = "Dependent" THEN world ELSE {}) \cup {None}
    => \/ id \in ToSet(seen[cl]) \cup ToSet(Ids(app[cl].queue)) \cup ToSet(Ids(down[cl]))
       \/ \E b \in ToSet(buffer) : b.id = id /\ cl \notin b.excluded

\* Who is sent a message: everyone it was for when it was processed, and nobody
\* who connected later.
AudienceIsExact == OldMessagesAreExcluded /\ NothingIsLost

\* What a client writes is handled at most once: by the server, or by the
\* client itself while disconnected; a shared message at most once by each.
\* The protocol hash is never handled by the client (the `expect` in
\* check_protocol).
HandledOnce ==
  \A cl \in Clients : \A i, j \in DOMAIN handled[cl] :
    LET a == handled[cl][i]
        b == handled[cl][j]
    IN  /\ a.kind # "ProtocolHash"
        /\ i # j /\ a.id = b.id => a.kind = "Shared" /\ a.at # b.at

\* A message that is sent at once goes to clients that are connected: the
\* backend looks up the stream of every client that is sent something.
SentToConnectedClients ==
  \A id \in ToSet(toClients) :
    written[id].kind # "Dependent" => Addressed(id) \subseteq ConnectedIds

\* A message that may not be lost is eventually shown to a client that stays
\* connected, unless the entity it refers to is despawned.
EventuallySeen ==
  \A cl \in Clients, id \in 1..MaxMessages :
    /\ cl \in Authorized /\ app[cl].state = "Connected"
    /\ id \in ToSet(toClients)
    /\ IsRecipient(id, cl)
    /\ ChannelOf[written[id].kind] # "Unreliable"
    /\ written[id].kind = "Dependent" \/ written[id].entity = None
    ~> \/ id \in ToSet(seen[cl])
       \/ cl \notin Authorized \/ app[cl].state # "Connected"
       \/ id \in MessageIds /\ written[id].entity \notin world \cup {None}

\* A connection leads to authorization, or with another protocol to a
\* disconnect, unless it breaks before.
ProtocolIsSettled ==
  \A cl \in Clients :
    link[cl].status \in {"Waiting", "Connected"} /\ app[cl].state = "Connected"
    ~> \/ cl \in Authorized /\ app[cl].protocol = Protocol
       \/ link[cl].status = "Absent" \/ app[cl].state # "Connected"
=============================================================================
