------------------------------- MODULE Related -------------------------------
(***************************************************************************)
(* Entities that are replicated in sync.  The server keeps a graph of the  *)
(* relations of replicated entities, up to date through observers; before  *)
(* each send it numbers the connected components and groups the mutated    *)
(* entities by them, so that a group is never split over two messages.     *)
(***************************************************************************)
EXTENDS Naturals, FiniteSets, Sequences, SequencesExt, Functions

CONSTANTS
  Entities,
  Relations,          \* relationship components synced with sync_related_entities
  Linked,             \* those whose target takes its sources along (linked_spawn)
  Nodes,              \* node indices of the graph
  None,               \* no target
  Sizes,              \* sizes of the mutations of one entity
  HeaderSize,         \* size of the message before its mutations
  MaxSize,            \* max_size of the client's connection
  Track,              \* TrackMutateMessages
  MayBeMutual,        \* two entities may have the same relation to each other
  WhileDisabled,      \* what is disabled may be related, replicated or despawned
  MaxSteps            \* bound: steps of the app

ASSUME RelatedAssumption ==
  /\ Linked \subseteq Relations /\ Nodes \subseteq Nat /\ None \notin Entities
  /\ Sizes \subseteq Nat \ {0} /\ HeaderSize \in Nat \ {0} /\ MaxSize \in Nat \ {0}
  /\ \A b \in {Track, MayBeMutual, WhileDisabled} : b \in BOOLEAN
  /\ MaxSteps \in Nat

VARIABLES
  running,            \* ServerState::Running
  entities,           \* "Unborn", "Alive", "Disabled" or "Dead"
  replicated,         \* entities with Replicated
  target,             \* of each relation of each entity, or None
  graph,              \* RelatedEntities: edges, and nodes that stand for entities
  rebuildNeeded,
  groups,             \* entity_graphs and graphs_count
  sent,               \* what the last send was given and the messages it made
  steps               \* steps of the app so far

world == <<entities, replicated, target>>
vars == <<running, world, graph, rebuildNeeded, groups, sent, steps>>

NoGraph == [edges |-> {}, nodes |-> [n \in {} |-> None]]
NoGroups == [of |-> [e \in {} |-> 0], count |-> 0]
Nothing == [pending |-> [e \in {} |-> 0], messages |-> <<>>]

Init ==
  /\ running = FALSE
  /\ entities = [e \in Entities |-> "Unborn"] /\ replicated = {}
  /\ target = [e \in Entities |-> [r \in Relations |-> None]]
  /\ graph = NoGraph /\ rebuildNeeded = FALSE /\ groups = NoGroups
  /\ sent = Nothing /\ steps = 0

Living == {e \in Entities : entities[e] \in {"Alive", "Disabled"}}

\* A query without Allow<Disabled> does not see a disabled entity.
Observed(e) == running /\ entities[e] = "Alive" /\ e \in replicated

-----------------------------------------------------------------------------
(* RelatedEntities.                                                        *)

NodeOf(g, e) == CHOOSE n \in DOMAIN g.nodes : g.nodes[n] = e
HasNode(g, e) == \E n \in DOMAIN g.nodes : g.nodes[n] = e

\* register_entity: the entity's node or a free one.
Register(g, e) ==
  IF HasNode(g, e) THEN g
  ELSE LET n == CHOOSE n \in Nodes \ DOMAIN g.nodes : \A k \in Nodes \ DOMAIN g.nodes : n <= k
       IN  [g EXCEPT !.nodes = [k \in DOMAIN @ \cup {n} |-> IF k = n THEN e ELSE @[k]]]

\* add_relation.  Edges have no direction and may be parallel.
AddRelation(g, r, e, t) ==
  LET h == Register(Register(g, e), t)
      ends == {NodeOf(h, e), NodeOf(h, t)}
      copies == {edge \in h.edges : edge.relation = r /\ edge.ends = ends}
  IN  [h EXCEPT !.edges = @ \cup {[relation |-> r, ends |-> ends, copy |-> Cardinality(copies)]}]

\* is_orphan, remove_entity.
Orphans(g) == {n \in DOMAIN g.nodes : \A edge \in g.edges : n \notin edge.ends}
WithoutNodes(g, ends) == [g EXCEPT !.nodes = [n \in DOMAIN @ \ ends |-> @[n]]]
WithoutOrphans(g, ends) ==
  [g EXCEPT !.nodes = [n \in DOMAIN @ \ (Orphans(g) \cap ends) |-> @[n]]]

\* remove_relation: every edge of the relation between the two entities.
FirstMatching(g, r, ends) ==
  {edge \in g.edges : edge.relation = r /\ edge.ends = ends /\ edge.copy = 0}
Matching(g, r, ends) == {edge \in g.edges : edge.relation = r /\ edge.ends = ends}
RemoveRelation(g, r, e, t) ==
  IF ~HasNode(g, e) \/ ~HasNode(g, t) THEN g
  ELSE LET ends == {NodeOf(g, e), NodeOf(g, t)}
       IN  WithoutOrphans([g EXCEPT !.edges = @ \ Matching(g, r, ends)], ends)

\* Observers run one after another.
AddAll(g, links) == FoldLeft(LAMBDA h, l : AddRelation(h, l[2], l[1], l[3]), g, SetToSeq(links))
RemoveAll(g, links) ==
  FoldLeft(LAMBDA h, l : RemoveRelation(h, l[2], l[1], l[3]), g, SetToSeq(links))

\* rebuild_graphs: the strongly connected components of an undirected graph.
Component(g, n) ==
  {k \in DOMAIN g.nodes :
     \A S \in SUBSET DOMAIN g.nodes :
       (n \in S /\ \A edge \in g.edges : edge.ends \subseteq S \/ edge.ends \cap S = {}) => k \in S}
Numbered(g) ==
  LET components == {Component(g, n) : n \in DOMAIN g.nodes}
      first(S) == CHOOSE n \in S : \A k \in S : n <= k
      number(S) == Cardinality({C \in components : first(C) < first(S)})
      grouped == {g.nodes[n] : n \in DOMAIN g.nodes}
  IN  [of |-> [e \in grouped |-> number(Component(g, NodeOf(g, e)))],
       count |-> Cardinality(components)]
RebuiltOnce == IF groups.count = 0 THEN Numbered(graph) ELSE groups
Rebuilt == IF rebuildNeeded THEN Numbered(graph) ELSE groups

-----------------------------------------------------------------------------
(* The world and the observers.                                            *)

Step == steps < MaxSteps /\ steps' = steps + 1 /\ sent' = Nothing

LinksOf(e) == {<<e, r, target[e][r]>> : r \in {r \in Relations : target[e][r] # None}}
Changed(links) == rebuildNeeded \/ links # {}

\* Spawn with a set of components: Insert is observed once everything is there,
\* by the relation and by Replicated.
Spawn(e, isReplicated, r, t) ==
  /\ Step /\ entities[e] = "Unborn"
  /\ t = None \/ t \in Living \ {e}
  /\ entities' = [entities EXCEPT ![e] = "Alive"]
  /\ replicated' = IF isReplicated THEN replicated \cup {e} ELSE replicated
  /\ target' = [target EXCEPT ![e][r] = t]
  /\ LET link == IF running /\ isReplicated /\ t # None THEN {<<e, r, t>>} ELSE {}
     IN  graph' = AddAll(AddAll(graph, link), link) /\ rebuildNeeded' = Changed(link)
  /\ UNCHANGED <<running, groups>>

\* add_relation and remove_relation: a new target discards the old one.
Mutual(e, r, t) == t # None /\ target[t][r] = e
Relate(e, r, t) ==
  /\ Step /\ e \in Living /\ t \in (Living \ {e}) \cup {None} /\ ~(t = None /\ target[e][r] = None)
  /\ WhileDisabled \/ entities[e] = "Alive"
  /\ (MayBeMutual /\ r \notin Linked) \/ ~Mutual(e, r, t)
  /\ target' = [target EXCEPT ![e][r] = t]
  /\ LET old == {l \in LinksOf(e) : l[2] = r /\ Observed(e)}
         new == IF t # None /\ Observed(e) THEN {<<e, r, t>>} ELSE {}
     IN  graph' = AddAll(RemoveAll(graph, old), new) /\ rebuildNeeded' = Changed(old \cup new)
  /\ UNCHANGED <<running, entities, replicated, groups>>

\* start_replication.  Inserting Replicated again discards the old one first.
StartReplication(e) ==
  /\ Step /\ e \in Living
  /\ WhileDisabled \/ entities[e] = "Alive"
  /\ replicated' = replicated \cup {e}
  /\ LET old == IF Observed(e) THEN LinksOf(e) ELSE {}
         new == IF running /\ entities[e] = "Alive" THEN LinksOf(e) ELSE {}
     IN  graph' = AddAll(RemoveAll(graph, old), new) /\ rebuildNeeded' = Changed(new)
  /\ UNCHANGED <<running, entities, target, groups>>

\* stop_replication.
StopReplication(e) ==
  /\ Step /\ e \in Living \cap replicated
  /\ WhileDisabled \/ entities[e] = "Alive"
  /\ replicated' = replicated \ {e}
  /\ LET old == IF Observed(e) THEN LinksOf(e) ELSE {}
     IN  graph' = RemoveAll(graph, old) /\ rebuildNeeded' = Changed(old)
  /\ UNCHANGED <<running, entities, target, groups>>

\* A despawn takes the sources of its linked relations along and removes the
\* other relations to it.
Gone(e) ==
  {x \in Living : \A S \in SUBSET Living :
     (e \in S /\ \A y \in Living, r \in Linked : target[y][r] \in S => y \in S) => x \in S}
Despawn(e) ==
  /\ Step /\ e \in Living
  /\ LET gone == Gone(e)
         cut == UNION {{l \in LinksOf(x) : x \in gone \/ l[3] \in gone} : x \in Living}
         old == {l \in cut : Observed(l[1])}
     IN  /\ WhileDisabled \/ \A l \in cut : entities[l[1]] = "Alive"
         /\ entities' = [x \in Entities |-> IF x \in gone THEN "Dead" ELSE entities[x]]
         /\ replicated' = replicated \ gone
         /\ target' = [x \in Entities |-> [r \in Relations |->
                         IF <<x, r, target[x][r]>> \in cut THEN None ELSE target[x][r]]]
         /\ graph' = RemoveAll(graph, old) /\ rebuildNeeded' = Changed(old)
  /\ UNCHANGED <<running, groups>>

SetDisabled(e) ==
  /\ Step /\ e \in Living
  /\ entities' = [entities EXCEPT ![e] = IF @ = "Alive" THEN "Disabled" ELSE "Alive"]
  /\ UNCHANGED <<running, replicated, target, graph, rebuildNeeded, groups>>

\* read_relations, for what was spawned before the server started.
Read == UNION {LinksOf(e) : e \in {e \in replicated : entities[e] = "Alive"}}
StartServer ==
  /\ Step /\ ~running /\ running' = TRUE
  /\ WhileDisabled \/ \A e \in replicated : entities[e] = "Disabled" => LinksOf(e) = {}
  /\ graph' = AddAll(graph, Read) /\ rebuildNeeded' = Changed(Read)
  /\ UNCHANGED <<world, groups>>

\* reset: the graph is cleared and the clients leave.
StopServer ==
  /\ Step /\ running /\ running' = FALSE
  /\ graph' = NoGraph /\ rebuildNeeded' = FALSE /\ groups' = NoGroups
  /\ UNCHANGED world

-----------------------------------------------------------------------------
(* Mutations.                                                              *)

Sum(chunk) == FoldFunction(+, 0, chunk)
Packets(size) == (size + MaxSize - 1) \div MaxSize

\* Something fits into the last packet of a message that does not end with it.
CanPack(size, add) == size % MaxSize > 0 /\ (size % MaxSize) + add <= MaxSize

\* reset, add_entity: one chunk for each group, with or without mutations, and
\* then one for each standalone entity.
Chunks(g, pending) ==
  LET chunk(es) == [e \in es |-> pending[e]]
      grouped(i) == {e \in DOMAIN pending : e \in DOMAIN g.of /\ g.of[e] = i - 1}
      standalone == SetToSeq(DOMAIN pending \ DOMAIN g.of)
  IN  [i \in 1..g.count |-> chunk(grouped(i))]
        \o [i \in DOMAIN standalone |-> chunk({standalone[i]})]

Message(chunks) ==
  [chunks |-> chunks, acks |-> UNION {DOMAIN chunks[i] : i \in DOMAIN chunks}]

\* The message being filled takes a chunk, or is closed and the next one does.
Body(chunks) == FoldLeft(LAMBDA n, chunk : n + Sum(chunk), 0, chunks)
Fits(body, add) ==
  body = 0 \/ CanPack(HeaderSize + body, add) \/ CanPack(HeaderSize + add, body)
PackedLate(acc, chunk) ==
  IF Fits(Body(acc.open), Sum(chunk))
  THEN [acc EXCEPT !.open = Append(@, chunk)]
  ELSE [closed |-> Append(acc.closed, Message(Append(acc.open, chunk))), open |-> <<chunk>>]
Packed(acc, chunk) ==
  IF Fits(Body(acc.open), Sum(chunk))
  THEN [acc EXCEPT !.open = Append(@, chunk)]
  ELSE [closed |-> Append(acc.closed, Message(acc.open)), open |-> <<chunk>>]

\* Mutations::send, and the check in send_messages.
Split(chunks) ==
  LET packed == FoldLeft(Packed, [closed |-> <<>>, open |-> <<>>], chunks)
  IN  IF packed.open # <<>> \/ Track
      THEN Append(packed.closed, Message(packed.open)) ELSE packed.closed

\* prepare_messages, collect_changes and send_messages for one client: pending
\* are the sizes of the mutations that it has not acknowledged.
Send(pending) ==
  /\ running
  /\ rebuildNeeded' = FALSE /\ groups' = Rebuilt
  /\ sent' = [pending |-> pending, messages |-> Split(Chunks(groups', pending))]
  /\ UNCHANGED <<running, world, graph, steps>>

Mutated == replicated \cap Living

Next ==
  \/ \E e \in Entities, isReplicated \in BOOLEAN, r \in Relations, t \in Entities \cup {None} :
       Spawn(e, isReplicated, r, t)
  \/ \E e \in Entities, r \in Relations, t \in Entities \cup {None} : Relate(e, r, t)
  \/ \E e \in Entities :
       StartReplication(e) \/ StopReplication(e) \/ Despawn(e) \/ SetDisabled(e)
  \/ StartServer \/ StopServer
  \/ \E es \in SUBSET Mutated : \E pending \in [es -> Sizes] : Send(pending)

Spec == Init /\ [][Next]_vars

-----------------------------------------------------------------------------

\* The world, the graph and the groups have their types, and every edge of the graph
\* keeps its nodes (add_relation, remove_relation, remove_entity).
TypeOK ==
  /\ running \in BOOLEAN /\ rebuildNeeded \in BOOLEAN /\ steps \in 0..MaxSteps
  /\ entities \in [Entities -> {"Unborn", "Alive", "Disabled", "Dead"}]
  /\ replicated \subseteq Living
  /\ target \in [Entities -> [Relations -> Entities \cup {None}]]
  /\ DOMAIN graph.nodes \subseteq Nodes
  /\ \A n \in DOMAIN graph.nodes : graph.nodes[n] \in Entities
  /\ \A edge \in graph.edges : edge.relation \in Relations /\ edge.ends \subseteq DOMAIN graph.nodes
  /\ \A e \in DOMAIN groups.of : groups.of[e] \in 0..groups.count - 1

\* The relations of replicated entities.
Links == UNION {LinksOf(e) : e \in replicated}

\* The graph has an edge between two entities for a relation exactly while one of
\* them is replicated and has that relation to the other, an entity has one node
\* at most, and no node is left without an edge.
GraphIsExact ==
  running =>
    /\ {<<edge.relation, {graph.nodes[n] : n \in edge.ends}>> : edge \in graph.edges}
         = {<<l[2], {l[1], l[3]}>> : l \in Links}
    /\ \A n, k \in DOMAIN graph.nodes : graph.nodes[n] = graph.nodes[k] => n = k
    /\ Orphans(graph) = {}

\* Connected, over the relations themselves.
Connected(e, f) ==
  \A S \in SUBSET Entities :
    (e \in S /\ \A l \in Links : l[1] \in S <=> l[3] \in S) => f \in S

SentChunks == UNION {Range(sent.messages[i].chunks) : i \in DOMAIN sent.messages}

\* Mutations of two entities are kept together by the split exactly if the
\* entities are related, whatever was related, despawned or disabled before.
RelatedTogether ==
  \A e, f \in DOMAIN sent.pending :
    (\E chunk \in SentChunks : {e, f} \subseteq DOMAIN chunk) <=> Connected(e, f)

\* Every mutation is in one message, and so is what it acknowledges.
SentOnce ==
  /\ \A e \in DOMAIN sent.pending :
       Cardinality({i \in DOMAIN sent.messages : e \in sent.messages[i].acks}) = 1
  /\ \A i \in DOMAIN sent.messages :
       sent.messages[i].acks = UNION {DOMAIN chunk : chunk \in Range(sent.messages[i].chunks)}

\* Packing chunks into one message never costs a packet: the message takes as
\* many as its largest chunk would alone (mutations.rs, can_pack: "without
\* causing an additional packet to be created").
NoAdditionalPacket ==
  \A i \in DOMAIN sent.messages :
    LET m == sent.messages[i]
    IN  m.chunks # <<>> =>
          \E k \in DOMAIN m.chunks :
            Packets(HeaderSize + Body(m.chunks)) = Packets(HeaderSize + Sum(m.chunks[k]))

\* The split loses and repeats nothing, an acknowledgement confirms what its
\* message contains, and the chunks of a message are not a packet too many.
SplitIsSound == SentOnce /\ NoAdditionalPacket

\* mutations.rs, send: "Or create an empty message if tracking mutate messages is
\* enabled."
EmptyOnlyIfTracked ==
  ~Track => \A i \in DOMAIN sent.messages : sent.messages[i].acks # {}
=============================================================================
