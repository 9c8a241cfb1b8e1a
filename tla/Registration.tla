---------------------------- MODULE Registration ----------------------------
(***************************************************************************)
(* The protocol that the server app and the client app register, each on   *)
(* its own, and what they understand of each other once they are connected.*)
(*                                                                         *)
(* A message is read by whatever the receiver registered at the same       *)
(* position of its channels (RepliconChannels), a component by whatever it *)
(* registered at the same FnsId (ReplicationRegistry).  Nothing on the     *)
(* wire names a type: the two apps must have registered the same things in *)
(* the same order, which the hash of all registrations (ProtocolHasher) is *)
(* to guarantee before a client is authorized.                             *)
(*                                                                         *)
(* The hash is modelled as the sequence of what was hashed: no two         *)
(* sequences collide.  What is not hashed (functions, filters, the         *)
(* guarantee of a channel) is not modelled.                                *)
(***************************************************************************)
EXTENDS Integers, Sequences, FiniteSets, SequencesExt, FiniteSetsExt

CONSTANTS
  Types,              \* types the apps may use as messages and events
  Rules,              \* component lists the apps may replicate
  Priorities,         \* priorities of rules and markers
  Markers,
  CustomValues,       \* values the apps may add to the hash
  AuthMethods,        \* the AuthMethods the apps may choose
  None,
  MaxCalls            \* bound: registration calls of one app

Apps == {"Server", "Client"}
ServerKinds == {"ServerMessage", "ServerEvent"}
ClientKinds == {"ClientMessage", "ClientEvent", "SharedMessage", "SharedEvent"}
Kinds == ServerKinds \cup ClientKinds

ASSUME RegistrationAssumption ==
  /\ \A rule \in Rules : rule # <<>> /\ rule \in Seq(ToSet(rule))
  /\ AuthMethods \subseteq {"ProtocolCheck", "None", "Custom"}
  /\ {"ProtocolHash", "ProtocolMismatch", None} \cap Types = {}
  /\ MaxCalls \in Nat

VARIABLES
  apps,               \* apps[a]: what an app has registered
  link,               \* the connection
  last                \* the last thing that was received: [from, sent, as, link]

vars == <<apps, link, last>>

\* The reserved channels: Updates and Mutations, MutationAcks.
ReservedChannels(direction) == IF direction = "Server" THEN 2 ELSE 1

\* The number of channels in both directions, the registered messages and
\* events in the order of registration, and the component of each FnsId.
NewApp(auth) ==
  [auth |-> auth, calls |-> 0, parts |-> <<>>,
   channels |-> [direction \in Apps |-> ReservedChannels(direction)],
   messages |-> <<>>, fns |-> <<>>]

\* ProtocolPart with its fields, and the name of the type.
Hashed(app, part, fields, name) ==
  [app EXCEPT !.parts = Append(@, [part |-> part, fields |-> fields, name |-> name])]

\* Server messages and events use a channel of the server, everything else,
\* shared messages included, one of the client.
Direction(kind) == IF kind \in ServerKinds THEN "Server" ELSE "Client"

\* create_server_channel and create_client_channel: the next free position.
AddMessageAfterPush(app, kind, type) ==
  LET direction == Direction(kind)
      entry == [kind |-> kind, type |-> type, channel |-> app.channels[direction] + 1,
                independent |-> FALSE]
      hashed == Hashed(app, kind, <<>>, <<type>>)
  IN  [hashed EXCEPT !.channels[direction] = @ + 1, !.messages = Append(@, entry)]
AddMessage(app, kind, type) ==
  LET direction == Direction(kind)
      entry == [kind |-> kind, type |-> type, channel |-> app.channels[direction],
                independent |-> FALSE]
      hashed == Hashed(app, kind, <<>>, <<type>>)
  IN  [hashed EXCEPT !.channels[direction] = @ + 1, !.messages = Append(@, entry)]

IsRegistered(app, kind, type) ==
  \E i \in DOMAIN app.messages : app.messages[i].kind = kind /\ app.messages[i].type = type

\* The mark is set on the message that was registered for the type.
MakeIndependent(app, kind, type) ==
  LET part == IF kind = "ServerMessage" THEN "IndependentMessage" ELSE "IndependentEvent"
      hashed == Hashed(app, part, <<>>, <<type>>)
  IN  [hashed EXCEPT !.messages =
        [i \in DOMAIN @ |-> IF @[i].kind = kind /\ @[i].type = type
                            THEN [@[i] EXCEPT !.independent = TRUE] ELSE @[i]]]

\* The functions of a rule's components get the next FnsIds, in order; a
\* bundle is hashed without its priority.
Replicate(app, rule, priority) ==
  [Hashed(app, "Replicate", <<priority>>, rule) EXCEPT !.fns = @ \o rule]

ReplicateBundle(app, rule) ==
  [Hashed(app, "ReplicateBundle", <<>>, rule) EXCEPT !.fns = @ \o rule]

\* Markers are positions in ReceiveMarkers of the client, and never sent.
RegisterMarker(app, marker, priority, needHistory) ==
  Hashed(app, "ReceiveMarker", <<priority, needHistory>>, <<marker>>)

AddCustom(app, value) == Hashed(app, "Custom", <<>>, <<value>>)

\* RepliconSharedPlugin::build comes before any registration of the app.
WithSharedPlugin(auth) ==
  IF auth # "ProtocolCheck" THEN NewApp(auth)
  ELSE LET withHash == AddMessage(NewApp(auth), "ClientEvent", "ProtocolHash")
           withMismatch == AddMessage(withHash, "ServerEvent", "ProtocolMismatch")
       IN  MakeIndependent(withMismatch, "ServerEvent", "ProtocolMismatch")

\* RepliconSharedPlugin::finish
NamesOnly(app) == [i \in DOMAIN app.parts |-> app.parts[i].name]
ProtocolHash(app) == app.parts

Init ==
  /\ apps \in [Apps -> {WithSharedPlugin(auth) : auth \in AuthMethods}]
  /\ link = "Disconnected"
  /\ last = None

-----------------------------------------------------------------------------
(* Registration, while the plugins are built.                              *)

Registers(a, app) ==
  /\ link = "Disconnected"
  /\ apps[a].calls < MaxCalls
  /\ apps' = [apps EXCEPT ![a] = [app EXCEPT !.calls = @ + 1]]
  /\ UNCHANGED <<link, last>>

\* An app registers a type once as a message of a kind, and makes only what it
\* registered independent (the code panics otherwise).
Register(a) ==
  \/ \E kind \in Kinds, type \in Types :
       ~IsRegistered(apps[a], kind, type) /\ Registers(a, AddMessage(apps[a], kind, type))
  \/ \E kind \in ServerKinds, type \in Types :
       IsRegistered(apps[a], kind, type) /\ Registers(a, MakeIndependent(apps[a], kind, type))
  \/ \E rule \in Rules, priority \in Priorities : Registers(a, Replicate(apps[a], rule, priority))
  \/ \E rule \in Rules : Registers(a, ReplicateBundle(apps[a], rule))
  \/ \E marker \in Markers, priority \in Priorities, needHistory \in BOOLEAN :
       Registers(a, RegisterMarker(apps[a], marker, priority, needHistory))
  \/ \E value \in CustomValues : Registers(a, AddCustom(apps[a], value))

-----------------------------------------------------------------------------
(* The connection.                                                         *)

\* AuthMethod::None makes AuthorizedClient a required component.
Connect ==
  /\ link = "Disconnected"
  /\ link' = IF apps["Server"].auth = "None" THEN "Authorized" ELSE "Connected"
  /\ UNCHANGED <<apps, last>>

Peer(a) == IF a = "Server" THEN "Client" ELSE "Server"

\* The message of an app that uses a channel, None if the app has no such
\* channel: insert_received panics then.
OnChannel(a, direction, channel) ==
  LET found == {m \in ToSet(apps[a].messages) :
                  Direction(m.kind) = direction /\ m.channel = channel}
  IN  IF found = {} THEN None ELSE CHOOSE m \in found : TRUE

Receives(from, m) ==
  last' = [from |-> from, sent |-> m, link |-> link,
           as |-> OnChannel(Peer(from), Direction(m.kind), m.channel)]

\* The server sends what depends on replication to authorized clients only;
\* what is independent, and everything from a client, needs a connection.
MaySend(from, m) ==
  \/ link = "Authorized"
  \/ link = "Connected" /\ (from = "Client" \/ m.independent)

\* Messages of the application.
SendMessage(from, i) ==
  /\ i \in DOMAIN apps[from].messages
  /\ LET m == apps[from].messages[i] IN
       /\ m.type \in Types
       /\ Direction(m.kind) = from
       /\ MaySend(from, m)
       /\ Receives(from, m)
       \* What a server takes for a hash is some other number, or ignored.
       /\ IF last'.as # None /\ last'.as.type = "ProtocolHash" /\ link = "Connected"
          THEN link' \in {link, "Mismatched"} ELSE UNCHANGED link
  /\ UNCHANGED apps

\* send_protocol_hash, and check_protocol if the server takes it for a hash.
SendHash ==
  /\ link = "Connected" /\ apps["Client"].auth = "ProtocolCheck"
  /\ LET m == apps["Client"].messages[1] IN
       /\ Receives("Client", m)
       /\ link' = IF last'.as = None \/ last'.as.type # "ProtocolHash" THEN link
                  ELSE IF ProtocolHash(apps["Client"]) = ProtocolHash(apps["Server"])
                  THEN "Authorized" ELSE "Mismatched"
  /\ UNCHANGED apps

\* AuthMethod::Custom: the app authorizes the client when it likes.
Authorize ==
  /\ link = "Connected" /\ apps["Server"].auth = "Custom"
  /\ link' = "Authorized"
  /\ UNCHANGED <<apps, last>>

\* The mismatch is sent, and the client is disconnected.
NotifyMismatch ==
  /\ link = "Mismatched"
  /\ Receives("Server", CHOOSE m \in ToSet(apps["Server"].messages) :
                          m.type = "ProtocolMismatch")
  /\ link' = "Closed"
  /\ UNCHANGED apps

\* A component of an update or mutate message, by its FnsId; the client panics
\* for one it does not have.
ComponentOf(a, i) ==
  IF i \in DOMAIN apps[a].fns THEN [component |-> apps[a].fns[i]] ELSE None

SendComponent(i) ==
  /\ link = "Authorized"
  /\ last' = [from |-> "Server", sent |-> ComponentOf("Server", i), link |-> link,
              as |-> ComponentOf("Client", i)]
  /\ UNCHANGED <<apps, link>>

Next ==
  \/ \E a \in Apps : Register(a)
  \/ Connect \/ SendHash \/ Authorize \/ NotifyMismatch
  \/ \E a \in Apps : \E i \in DOMAIN apps[a].messages : SendMessage(a, i)
  \/ \E i \in DOMAIN apps["Server"].fns : SendComponent(i)

Spec == Init /\ [][Next]_vars

-----------------------------------------------------------------------------
(* Properties.                                                             *)

Entries(a, direction) ==
  {i \in DOMAIN apps[a].messages : Direction(apps[a].messages[i].kind) = direction}

\* The type of every variable; the channels of a direction are used by one
\* message each, without gaps, and leave the reserved ones alone.
TypeOK ==
  /\ \A a \in Apps :
       /\ apps[a].auth \in AuthMethods /\ apps[a].calls \in 0..MaxCalls
       /\ apps[a].fns \in Seq(UNION {ToSet(rule) : rule \in Rules})
       /\ \A direction \in Apps :
            /\ {apps[a].messages[i].channel : i \in Entries(a, direction)}
                 = ReservedChannels(direction)..(apps[a].channels[direction] - 1)
            /\ Cardinality(Entries(a, direction))
                 = apps[a].channels[direction] - ReservedChannels(direction)
  /\ link \in {"Disconnected", "Connected", "Authorized", "Mismatched", "Closed"}

Handshake == {"ProtocolHash", "ProtocolMismatch"}
IsHandshake(m) == m \in [kind : Kinds, type : Handshake, channel : Nat, independent : BOOLEAN]

\* What is exchanged with a client whose hash was checked is read as what was
\* sent: a message of the same kind and type, with or without the tick of a
\* dependent one, or the same component.  If both apps check the protocol, the
\* messages of the check are understood whatever else they registered.
Understood ==
  /\ last # None
  /\ apps["Server"].auth = "ProtocolCheck"
  /\ \/ last.link = "Authorized"
     \/ IsHandshake(last.sent) /\ apps["Client"].auth = "ProtocolCheck"
  => last.as = last.sent

\* Until a client is authorized only independent messages are exchanged, all
\* others are ignored (the comment of AuthorizedClient).
UnauthorizedIsIgnored ==
  last # None => last.link = "Authorized" \/ last.sent.independent \/ IsHandshake(last.sent)
=============================================================================
