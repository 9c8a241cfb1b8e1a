--------------------------------- MODULE Wire ---------------------------------
(***************************************************************************)
(* The bytes of replication messages.  In a frame the server serializes    *)
(* into one buffer for all clients; a client's messages are lists of       *)
(* ranges of it, with the lengths the client needs to read them back.      *)
(* What is sent to whom is decided in Replication; here it is any choice,  *)
(* and the question is whether the client reads what was written for it.   *)
(* A byte is a pair of what it belongs to and its value.                   *)
(***************************************************************************)
EXTENDS Naturals, FiniteSets, Sequences, SequencesExt

CONSTANTS
  Clients, Entities, Components, None,
  Reused,             \* entities whose generation is not the first
  Diffs,              \* components sent as diffs to who has a cursor
  Size,               \* bytes of the value of a component
  MaxData,            \* bound: bytes of the shared buffer
  MaxUserdata         \* bound: bytes of ReplicationUserdata

ASSUME WireAssumption ==
  /\ Reused \subseteq Entities /\ Diffs \subseteq Components
  /\ Size \in [Components -> Nat] /\ \A f \in Diffs : Size[f] > 0
  /\ None \notin Entities \cup Components
  /\ MaxData \in Nat /\ MaxUserdata \in Nat

VARIABLES
  phase,              \* the system that is running
  loop,               \* its place in its loops
  visited,            \* entities it has been through, with the clients it did it for
  removed,            \* entities in RemovalBuffer
  serialized,         \* SerializedData
  updates,            \* Updates of each client
  mutations,          \* Mutations of each client
  messages,           \* what was sent
  wanted              \* history: what was written for each client

vars == <<phase, loop, visited, removed, serialized, updates, mutations, messages, wanted>>

Phases == <<"mappings", "despawns", "lost_despawns", "removals", "lost_removals", "changes",
            "sent">>
Nowhere ==
  [entity |-> None, entityRange |-> None, component |-> None, range |-> None,
   clients |-> {}, left |-> {}, written |-> {}, starting |-> {}, added |-> {}, mutated |-> {}]
EmptyUpdates ==
  [mappings |-> <<>>, mappingsLen |-> 0, despawns |-> <<>>, despawnsLen |-> 0,
   removals |-> <<>>, changes |-> <<>>]
NothingWanted ==
  [mappings |-> {}, despawns |-> {}, removals |-> {}, started |-> {}, components |-> {}]

Init ==
  /\ phase = "mappings" /\ loop = Nowhere /\ visited = {} /\ removed = {}
  /\ serialized = <<>>
  /\ updates = [c \in Clients |-> EmptyUpdates] /\ mutations = [c \in Clients |-> <<>>]
  /\ messages = [c \in Clients |-> <<>>]
  /\ wanted = [c \in Clients |-> NothingWanted]

-----------------------------------------------------------------------------
(* Serialization.  A range is the pair of its first byte and the byte after *)
(* its last, counted from zero.                                            *)

EntityBytes(e) ==
  <<<<"index", e>>>> \o IF e \in Reused THEN <<<<"generation", e>>>> ELSE <<>>
MappingBytes(e) == EntityBytes(e) \o <<<<"hash", e>>>>
FnsBytes(f) == <<<<"fns", f>>>>
ComponentBytes(f, kind) == FnsBytes(f) \o [i \in 1..Size[f] |-> <<kind, f>>]
Number(n) == <<<<"number", n>>>>

Length(range) == range[2] - range[1]
Total(ranges) == FoldLeft(LAMBDA n, range : n + Length(range), 0, ranges)
Slice(range) == SubSeq(serialized, range[1] + 1, range[2])
Slices(ranges) == FlattenSeq([i \in DOMAIN ranges |-> Slice(ranges[i])])

\* write_cached: written once, whoever asks for it.
Cached(bytes, range, data) ==
  IF range # None THEN [bytes |-> bytes, range |-> range]
  ELSE [bytes |-> bytes \o data, range |-> <<Len(bytes), Len(bytes) + Len(data)>>]

\* A range that follows the last one is merged with it.
AddRangeApart(ranges, range) == Append(ranges, range)
AddRange(ranges, range) ==
  IF ranges # <<>> /\ Last(ranges)[2] = range[1]
  THEN [ranges EXCEPT ![Len(ranges)][2] = range[2]]
  ELSE Append(ranges, range)

\* EntityRanges: the ranges of an entity and of its data, which are counted in bytes.
NewEntity(list, range) == Append(list, [entity |-> range, data |-> <<>>])
AddData(list, range) == [list EXCEPT ![Len(list)].data = AddRange(@, range)]
DataSize(entity) == Total(entity.data)

-----------------------------------------------------------------------------
(* The loops: over entities, their components and the clients.             *)

\* A system is done with an entity when it goes to another.  What is lost by a
\* client is collected for each client alone.
OneByOne == phase \in {"lost_despawns", "lost_removals"}
Free(e, clients) ==
  \A pair \in visited : pair[1] = e => pair[2] \cap clients = {}
IsBetween == loop.entity = None \/ phase # "changes"

\* Nothing is known of it, and nothing was written for it, before its insertion.
IsNew(c, e) == e \in wanted[c].mappings
IsGone(c, e) == e \in wanted[c].despawns
HasRemoval(c, e) == \E f \in Components : <<e, f>> \in wanted[c].removals

Fits(bytes) == Len(bytes) <= MaxData
StartEntity(e, clients, starting) ==
  LET isGiven == phase = "despawns"    \* written before it is known for whom
      entity == Cached(serialized, None, EntityBytes(e))
  IN  /\ phase # "sent" /\ IsBetween /\ Free(e, clients)
      /\ IF OneByOne THEN Cardinality(clients) = 1 ELSE clients = Clients
      /\ IF phase = "changes"
         THEN \A c \in Clients :
                /\ IsNew(c, e) => c \in starting
                /\ IsGone(c, e) \/ HasRemoval(c, e) => c \notin starting
         ELSE starting = {}
      /\ isGiven => Fits(entity.bytes)
      /\ serialized' = IF isGiven THEN entity.bytes ELSE serialized
      /\ loop' = [Nowhere EXCEPT !.entity = e, !.clients = clients, !.starting = starting,
                                 !.entityRange = IF isGiven THEN entity.range ELSE None,
                                 !.left = {c \in clients : ~IsGone(c, e)}]
      /\ visited' = visited \cup {<<e, clients>>}
      /\ removed' = IF phase = "removals" THEN removed \cup {e} ELSE removed
      /\ UNCHANGED <<phase, updates, mutations, messages, wanted>>

NextComponent(f) ==
  /\ phase \in {"removals", "lost_removals", "changes"} /\ loop.entity # None
  /\ f \notin loop.written
  /\ loop' = [loop EXCEPT !.component = f, !.range = None, !.written = @ \cup {f},
                          !.left = {c \in loop.clients : ~IsGone(c, loop.entity)}]
  /\ UNCHANGED <<phase, visited, removed, serialized, updates, mutations, messages, wanted>>

Visits(c) == loop.entity # None /\ c \in loop.left

\* collect_mappings.
AddMapping(c) ==
  LET e == loop.entity
      mapping == Cached(serialized, loop.entityRange, MappingBytes(e))
  IN  /\ phase = "mappings" /\ Visits(c) /\ Fits(mapping.bytes)
      /\ serialized' = mapping.bytes
      /\ updates' = [updates EXCEPT ![c].mappings = AddRange(@, mapping.range),
                                    ![c].mappingsLen = @ + 1]
      /\ wanted' = [wanted EXCEPT ![c].mappings = @ \cup {e}]
      /\ loop' = [loop EXCEPT !.entityRange = mapping.range, !.left = @ \ {c}]
      /\ UNCHANGED <<phase, visited, removed, mutations, messages>>

\* collect_despawns, for the entities that were despawned and for what was lost.
AddDespawn(c) ==
  LET e == loop.entity
      entity == Cached(serialized, loop.entityRange, EntityBytes(e))
  IN  /\ phase \in {"despawns", "lost_despawns"} /\ Visits(c) /\ Fits(entity.bytes)
      /\ ~IsNew(c, e)
      /\ serialized' = entity.bytes
      /\ updates' = [updates EXCEPT ![c].despawns = AddRange(@, entity.range),
                                    ![c].despawnsLen = @ + 1]
      /\ wanted' = [wanted EXCEPT ![c].despawns = @ \cup {e}]
      /\ loop' = [loop EXCEPT !.entityRange = entity.range, !.left = @ \ {c}]
      /\ UNCHANGED <<phase, visited, removed, mutations, messages>>

\* collect_removals, for removed components and for those that were lost.
AddRemoval(c) ==
  LET e == loop.entity f == loop.component
      entity == Cached(serialized, loop.entityRange, EntityBytes(e))
      fns == Cached(entity.bytes, loop.range, FnsBytes(f))
      list == IF c \in loop.added THEN updates[c].removals
              ELSE NewEntity(updates[c].removals, entity.range)
  IN  /\ phase \in {"removals", "lost_removals"} /\ f # None /\ Visits(c) /\ Fits(fns.bytes)
      /\ ~IsNew(c, e) /\ <<e, f>> \notin wanted[c].removals
      /\ serialized' = fns.bytes
      /\ updates' = [updates EXCEPT ![c].removals = AddData(list, fns.range)]
      /\ wanted' = [wanted EXCEPT ![c].removals = @ \cup {<<e, f>>}]
      /\ loop' = [loop EXCEPT !.entityRange = entity.range, !.range = fns.range,
                              !.added = @ \cup {c}, !.left = @ \ {c}]
      /\ UNCHANGED <<phase, visited, removed, mutations, messages>>

-----------------------------------------------------------------------------
(* collect_changes.                                                        *)

AddInsertion(c) ==
  LET e == loop.entity f == loop.component
      entity == Cached(serialized, loop.entityRange, EntityBytes(e))
      component == Cached(entity.bytes, loop.range, ComponentBytes(f, "snapshot"))
      list == IF c \in loop.added THEN updates[c].changes
              ELSE NewEntity(updates[c].changes, entity.range)
  IN  /\ phase = "changes" /\ f # None /\ Visits(c) /\ Fits(component.bytes)
      /\ <<e, f>> \in wanted[c].removals => e \in removed
      /\ serialized' = component.bytes
      /\ updates' = [updates EXCEPT ![c].changes = AddData(list, component.range)]
      /\ wanted' = [wanted EXCEPT ![c].components = @ \cup {<<e, f, "snapshot">>}]
      /\ loop' = [loop EXCEPT !.entityRange = entity.range, !.range = component.range,
                              !.added = @ \cup {c}, !.left = @ \ {c}]
      /\ UNCHANGED <<phase, visited, removed, mutations, messages>>

\* Only snapshots are shared.
OwnDiff(bytes, f) ==
  [component |-> Cached(bytes, None, ComponentBytes(f, "diff")), range |-> loop.range]
Snapshot(bytes, f) ==
  LET component == Cached(bytes, loop.range, ComponentBytes(f, "snapshot"))
  IN  [component |-> component, range |-> component.range]

AddMutation(c, kind) ==
  LET e == loop.entity f == loop.component
      entity == Cached(serialized, loop.entityRange, EntityBytes(e))
      written == IF kind = "diff" THEN OwnDiff(entity.bytes, f) ELSE Snapshot(entity.bytes, f)
      list == IF c \in loop.mutated THEN mutations[c] ELSE NewEntity(mutations[c], entity.range)
  IN  /\ phase = "changes" /\ f # None /\ Visits(c) /\ Fits(written.component.bytes)
      /\ c \notin loop.starting /\ <<e, f>> \notin wanted[c].removals
      /\ kind = "diff" => f \in Diffs
      /\ serialized' = written.component.bytes
      /\ mutations' = [mutations EXCEPT ![c] = AddData(list, written.component.range)]
      /\ wanted' = [wanted EXCEPT ![c].components = @ \cup {<<e, f, kind>>}]
      /\ loop' = [loop EXCEPT !.entityRange = entity.range, !.range = written.range,
                              !.mutated = @ \cup {c}, !.left = @ \ {c}]
      /\ UNCHANGED <<phase, visited, removed, updates, messages>>

\* take_added_entity: the entity of the mutations, or its data after that of the
\* insertions.
Taken(c) ==
  LET changes == updates[c].changes mutated == Last(mutations[c])
  IN  IF c \in loop.added
      THEN [changes EXCEPT ![Len(changes)].data = @ \o mutated.data]
      ELSE Append(changes, mutated)

\* An entity with insertions or removals takes its mutations along; one that
\* starts without components is written empty.
Merges(c) == c \in loop.starting \cup loop.added \/ loop.entity \in removed
FinishEntity ==
  LET e == loop.entity
      taking == {c \in loop.mutated : Merges(c)}
      empty == loop.starting \ loop.added
      entity == Cached(serialized, loop.entityRange, EntityBytes(e))
  IN  /\ phase = "changes" /\ e # None
      /\ empty # {} => Fits(entity.bytes)
      /\ serialized' = IF empty = {} THEN serialized ELSE entity.bytes
      /\ updates' = [c \in Clients |->
           [updates[c] EXCEPT !.changes =
              CASE c \in taking -> Taken(c)
                [] c \in empty -> NewEntity(@, entity.range)
                [] OTHER -> @]]
      /\ mutations' = [c \in Clients |-> IF c \in taking THEN Front(mutations[c]) ELSE mutations[c]]
      /\ wanted' = [c \in Clients |->
           [wanted[c] EXCEPT !.started = IF c \in loop.starting THEN @ \cup {e} ELSE @]]
      /\ loop' = Nowhere
      /\ UNCHANGED <<phase, visited, removed, messages>>

\* The next system.
NextPhase ==
  /\ phase \notin {"changes", "sent"}
  /\ phase' = Phases[1 + (CHOOSE i \in DOMAIN Phases : Phases[i] = phase)]
  /\ loop' = Nowhere /\ visited' = {}
  /\ UNCHANGED <<removed, serialized, updates, mutations, messages, wanted>>

-----------------------------------------------------------------------------
(* Messages.  A header, and the sections whose flags are set, in the order *)
(* of the flags.  Userdata and all sections but the last have a length.    *)

UpdateOrder == <<"USERDATA", "MAPPINGS", "DESPAWNS", "REMOVALS", "CHANGES">>
MutateOrder == <<"USERDATA", "MESSAGES_COUNT", "MUTATIONS">>

Sections(flags, order) == SelectSeq(order, LAMBDA flag : flag \in flags)
LastFlag(flags) == Last(Sections(flags, UpdateOrder))

UserBytes(n) == Number(n) \o [i \in 1..n |-> <<"user", i>>]
WithData(list) ==
  FlattenSeq([i \in DOMAIN list |->
    Slice(list[i].entity) \o Number(DataSize(list[i])) \o Slices(list[i].data)])

UpdateFlags(u, userdata) ==
  {flag \in ToSet(UpdateOrder) :
     CASE flag = "USERDATA" -> userdata > 0
       [] flag = "MAPPINGS" -> u.mappings # <<>>
       [] flag = "DESPAWNS" -> u.despawns # <<>>
       [] flag = "REMOVALS" -> u.removals # <<>>
       [] OTHER             -> u.changes # <<>>}
IsEmpty(u) == UpdateFlags(u, 0) = {}

\* How many there are, which is not how many ranges they are in.
CountRanges(u) == [mappings |-> Len(u.mappings), despawns |-> Len(u.despawns)]
Count(u) == [mappings |-> u.mappingsLen, despawns |-> u.despawnsLen]

\* Updates::send.
UpdateBytes(u, userdata) ==
  LET flags == UpdateFlags(u, userdata)
      Counted(flag, n) == IF flag = LastFlag(flags) THEN <<>> ELSE Number(n)
      Section(flag) ==
        CASE flag = "USERDATA" -> UserBytes(userdata)
          [] flag = "MAPPINGS" -> Counted(flag, Count(u).mappings) \o Slices(u.mappings)
          [] flag = "DESPAWNS" -> Counted(flag, Count(u).despawns) \o Slices(u.despawns)
          [] flag = "REMOVALS" -> Counted(flag, Len(u.removals)) \o WithData(u.removals)
          [] OTHER             -> WithData(u.changes)
      sections == Sections(flags, UpdateOrder)
  IN  <<<<"flags", flags>>, <<"tick", "message">>>>
        \o FlattenSeq([i \in DOMAIN sections |-> Section(sections[i])])

\* The size it calculates before.
UpdateSize(u, userdata) ==
  LET flags == UpdateFlags(u, userdata)
      Counted(flag) == IF flag = LastFlag(flags) THEN 0 ELSE 1
      Sizes(list) ==
        FoldLeft(LAMBDA n, entity : n + Length(entity.entity) + 1 + DataSize(entity), 0, list)
      Section(flag) ==
        CASE flag = "USERDATA" -> 1 + userdata
          [] flag = "MAPPINGS" -> Counted(flag) + Total(u.mappings)
          [] flag = "DESPAWNS" -> Counted(flag) + Total(u.despawns)
          [] flag = "REMOVALS" -> Counted(flag) + Sizes(u.removals)
          [] OTHER             -> Sizes(u.changes)
  IN  FoldLeft(LAMBDA n, flag : n + Section(flag), 2, Sections(flags, UpdateOrder))

\* Mutations::send.  Splitting is in Related: here all is in one message.
MutateFlags(list, userdata, tracks) ==
  {flag \in ToSet(MutateOrder) :
     CASE flag = "USERDATA"       -> userdata > 0
       [] flag = "MESSAGES_COUNT" -> tracks
       [] OTHER                   -> list # <<>>}
MutateBytes(list, userdata, tracks) ==
  <<<<"flags", MutateFlags(list, userdata, tracks)>>, <<"index", "mutate">>,
    <<"tick", "update">>, <<"tick", "message">>>>
    \o (IF userdata > 0 THEN UserBytes(userdata) ELSE <<>>)
    \o (IF tracks THEN Number(1) ELSE <<>>)
    \o WithData(list)

\* send_messages.  An empty sequence stands for no message.
Send(userdata, tracks) ==
  /\ phase = "changes" /\ loop.entity = None
  /\ phase' = "sent"
  /\ messages' = [c \in Clients |->
       [userdata |-> userdata, tracks |-> tracks,
        size |-> IF IsEmpty(updates[c]) THEN 0 ELSE UpdateSize(updates[c], userdata),
        update |-> IF IsEmpty(updates[c]) THEN <<>> ELSE UpdateBytes(updates[c], userdata),
        mutate |-> IF mutations[c] = <<>> /\ ~tracks THEN <<>>
                   ELSE MutateBytes(mutations[c], userdata, tracks)]]
  /\ serialized' = <<>>
  /\ UNCHANGED <<loop, visited, removed, updates, mutations, wanted>>

\* removal_buffer.clear, and prepare_messages of the next frame: Updates::clear and
\* Mutations::reset.
Prepare ==
  /\ phase = "sent" /\ phase' = "mappings" /\ visited' = {} /\ removed' = {}
  /\ updates' = [c \in Clients |-> EmptyUpdates]
  /\ mutations' = [c \in Clients |-> <<>>]
  /\ messages' = [c \in Clients |-> <<>>]
  /\ wanted' = [c \in Clients |-> NothingWanted]
  /\ UNCHANGED <<loop, serialized>>

Next ==
  \/ \E e \in Entities, clients, starting \in SUBSET Clients : StartEntity(e, clients, starting)
  \/ \E f \in Components : NextComponent(f)
  \/ \E c \in Clients :
       \/ AddMapping(c) \/ AddDespawn(c) \/ AddRemoval(c) \/ AddInsertion(c)
       \/ \E kind \in {"snapshot", "diff"} : AddMutation(c, kind)
  \/ FinishEntity \/ NextPhase
  \/ \E userdata \in 0..MaxUserdata, tracks \in BOOLEAN : Send(userdata, tracks)
  \/ Prepare

Spec == Init /\ [][Next]_vars

-----------------------------------------------------------------------------
(* The client reads a message.  A read gives a value and the place of the  *)
(* next byte, which is 0 when the bytes are not what is expected there.    *)

Failed == [value |-> None, next |-> 0]
Read(b, p, tag) ==
  IF p \in DOMAIN b /\ b[p][1] = tag THEN [value |-> b[p][2], next |-> p + 1] ELSE Failed

\* compact_entity: the index tells whether a generation follows.
ReadEntity(b, p) ==
  LET index == Read(b, p, "index")
  IN  IF index.value \notin Reused THEN index
      ELSE LET generation == Read(b, index.next, "generation")
           IN  IF generation.value = index.value THEN generation ELSE Failed

ReadMapping(b, p) ==
  LET entity == ReadEntity(b, p) hash == Read(b, entity.next, "hash")
  IN  IF hash.value = entity.value THEN hash ELSE Failed

\* The value of a component, by its own function.
ReadComponent(b, p) ==
  LET fns == Read(b, p, "fns")
      f == fns.value
      end == fns.next + Size[f]
      kind == IF Size[f] > 0 /\ fns.next \in DOMAIN b THEN b[fns.next][1] ELSE "snapshot"
  IN  IF fns.next = 0 \/ end > Len(b) + 1 THEN Failed
      ELSE IF SubSeq(b, fns.next, end - 1) = [i \in 1..Size[f] |-> <<kind, f>>]
           THEN [value |-> <<f, kind>>, next |-> end] ELSE Failed
ReadFns(b, p) == Read(b, p, "fns")

\* Where a read of b can start: at a byte or at the end.
Places(b) == 1..Len(b) + 1

\* apply_array: count of them, or all there are; parse[p] is the one read at p.
Array(b, first, count, parse) ==
  LET from[p \in Places(b), left \in Nat \cup {None}] ==
        IF (left = None /\ p = Len(b) + 1) \/ left = 0 THEN [value |-> <<>>, next |-> p]
        ELSE LET one == parse[p]
                 others == from[one.next, IF left = None THEN None ELSE left - 1]
             IN  IF one.next = 0 \/ others.next = 0 THEN Failed
                 ELSE [others EXCEPT !.value = <<one.value>> \o @]
  IN  from[first, count]

\* apply_removals, apply_changes, apply_mutations: data of an unknown entity is
\* skipped, any other is split off and read to its end.  Removals have the ids of
\* functions, changes and mutations also have values.
ReadOwn(own, removals) ==
  Array(own, 1, None,
    [p \in Places(own) |-> IF removals THEN ReadFns(own, p) ELSE ReadComponent(own, p)])
AsDataOf(e, own, next) ==
  IF own.next = 0 THEN Failed ELSE [value |-> <<e, own.value>>, next |-> next]
SplitOff(b, e, size, unknown, removals) ==
  IF size.next = 0 \/ size.next + size.value > Len(b) + 1 THEN Failed
  ELSE AsDataOf(e,
         IF e \in unknown THEN [value |-> <<>>, next |-> size.next]
         ELSE ReadOwn(SubSeq(b, size.next, size.next + size.value - 1), removals),
         size.next + size.value)
ReadData(b, p, unknown, removals) ==
  LET entity == ReadEntity(b, p)
  IN  SplitOff(b, entity.value, Read(b, entity.next, "number"), unknown, removals)

\* process_userdata.
ReadUserdata(b, p) ==
  LET size == Read(b, p, "number")
  IN  IF size.next = 0 THEN Failed
      ELSE IF SubSeq(b, size.next, size.next + size.value - 1)
                = [i \in 1..size.value |-> <<"user", i>>]
           THEN [value |-> size.value, next |-> size.next + size.value] ELSE Failed

\* One section, whose length precedes it unless it is the last.
ReadSection(b, p, flag, isLast, unknown) ==
  LET length == Read(b, p, "number")
      first == IF isLast THEN p ELSE length.next
      count == IF isLast THEN None ELSE length.value
      item == [q \in Places(b) |->
                 CASE flag = "MAPPINGS" -> ReadMapping(b, q)
                   [] flag = "DESPAWNS" -> ReadEntity(b, q)
                   [] OTHER             -> ReadData(b, q, unknown, flag = "REMOVALS")]
  IN  CASE flag = "USERDATA" -> ReadUserdata(b, p)
        [] flag = "MESSAGES_COUNT" -> length
        [] OTHER -> IF first = 0 THEN Failed ELSE Array(b, first, count, item)

Content == [flag \in ToSet(UpdateOrder \o MutateOrder) |-> <<>>]

\* apply_update_message, and apply_mutate_message with the last section to the end.
Received(b, first, order, unknown) ==
  LET sections == Sections(b[1][2], order)
      With(read, flag, section) ==
        [value |-> [read.value EXCEPT ![flag] = section.value], next |-> section.next]
      After(read, flag) ==
        IF read.next = 0 THEN read
        ELSE With(read, flag, ReadSection(b, read.next, flag, flag = Last(sections), unknown))
  IN  FoldLeft(After, [value |-> Content, next |-> first], sections)

NothingReceived == [value |-> Content, next |-> 1]
ReceivedUpdate(b, unknown) ==
  IF b = <<>> THEN NothingReceived ELSE Received(b, 3, UpdateOrder, unknown)
ReceivedMutate(b, unknown) ==
  IF b = <<>> THEN NothingReceived ELSE Received(b, 5, MutateOrder, unknown)

-----------------------------------------------------------------------------

Sorted(ranges) == \A i \in 1..Len(ranges) - 1 : ranges[i][2] < ranges[i + 1][1]
InBuffer(ranges) ==
  \A i \in DOMAIN ranges : ranges[i][1] < ranges[i][2] /\ ranges[i][2] <= Len(serialized)

\* Ranges are in the buffer, and those of mappings, despawns and removals are in its
\* order with a gap between them.
TypeOK ==
  /\ phase \in ToSet(Phases) /\ loop.entity \in Entities \cup {None}
  /\ loop.added \cup loop.mutated \cup loop.left \subseteq loop.clients
  /\ removed \subseteq Entities /\ Len(serialized) <= MaxData
  /\ phase # "sent" =>
       \A c \in Clients :
         LET u == updates[c]
         IN  /\ \A ranges \in {u.mappings, u.despawns} : InBuffer(ranges) /\ Sorted(ranges)
             /\ \A i \in DOMAIN u.removals : InBuffer(u.removals[i].data) /\ Sorted(u.removals[i].data)
             /\ \A i \in DOMAIN u.changes : InBuffer(u.changes[i].data)
             /\ \A i \in DOMAIN mutations[c] : InBuffer(mutations[c][i].data)

Pairs(list) ==
  UNION {{<<list[i][1], list[i][2][j]>> : j \in DOMAIN list[i][2]} : i \in DOMAIN list}
Facts(list) == {<<pair[1], pair[2][1], pair[2][2]>> : pair \in Pairs(list)}
EntitiesOf(list) == {list[i][1] : i \in DOMAIN list}
Known(facts, unknown) == {fact \in facts : fact[1] \notin unknown}

\* What a client reads, of whatever entities it does not know and has to skip, is
\* what was written for it: all of both messages is read, every mapping and despawn
\* once, and what changed of an entity beside an insertion or a removal is in the
\* update message (beside a component that was lost it is not).  The size reserved
\* for an update message is its size (updates.rs: debug_assert_eq of the two).
ReadsBack(m, w, u, v, unknown) ==
  LET changes == u.value.CHANGES
      mutated == v.value.MUTATIONS
  IN  /\ u.next = Len(m.update) + 1 /\ v.next = Len(m.mutate) + 1
      /\ m.size = Len(m.update)
      /\ m.update # <<>> /\ m.userdata > 0 => u.value.USERDATA = m.userdata
      /\ m.mutate # <<>> /\ m.userdata > 0 => v.value.USERDATA = m.userdata
      /\ m.tracks => v.value.MESSAGES_COUNT = 1
      /\ ToSet(u.value.MAPPINGS) = w.mappings /\ Len(u.value.MAPPINGS) = Cardinality(w.mappings)
      /\ ToSet(u.value.DESPAWNS) = w.despawns /\ Len(u.value.DESPAWNS) = Cardinality(w.despawns)
      /\ Pairs(u.value.REMOVALS) = Known(w.removals, unknown)
      /\ Facts(changes) \cup Facts(mutated) = Known(w.components, unknown)
      /\ w.started \subseteq EntitiesOf(changes)
      /\ EntitiesOf(mutated) \cap (EntitiesOf(changes) \cup
           (EntitiesOf(u.value.REMOVALS) \cap removed)) = {}

\* ReadsBack for every client, whatever it does not know (apply_update_message and
\* apply_mutate_message against Updates::send and Mutations::send).
RoundTrip ==
  phase = "sent" => \A c \in Clients : \A unknown \in SUBSET Entities :
    ReadsBack(messages[c], wanted[c], ReceivedUpdate(messages[c].update, unknown),
              ReceivedMutate(messages[c].mutate, unknown), unknown)
=============================================================================
