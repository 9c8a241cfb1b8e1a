------------------------------ MODULE Selection ------------------------------
(***************************************************************************)
(* Which functions replicate a component.  The app registers rules and     *)
(* markers in any order; the server picks for every archetype the rule of  *)
(* each component (ReplicatedArchetypes), buffers removals by the rule of  *)
(* the archetype they leave (RemovalBuffer), and sends both with FnsIds;   *)
(* the client picks the functions of the best marker on its entity         *)
(* (EntityMarkers, ComponentFns).                                          *)
(*                                                                         *)
(* There is one entity and one client; update messages arrive in order.    *)
(* Server and client run the same registration (module Registration).   *)
(***************************************************************************)
EXTENDS Integers, Sequences, FiniteSets, SequencesExt, FiniteSetsExt, Functions, TLC

CONSTANTS
  Components,         \* components, markers among them
  Markers,
  Replicated,         \* the component that starts replication
  MarkerPriority,     \* MarkerConfig::priority of each marker
  Overridden,         \* components that may get functions for a marker
  Candidates,         \* rules the app may add: [components, filters, priority]
  Default,            \* the functions used without a marker
  None,
  MaxRules,           \* bounds: rules,
  MaxFns,             \*   calls of set_marker_fns,
  MaxEdits,           \*   changes of the server's entity,
  MaxLocal,           \*   markers put on the client's entity by its app,
  MaxInFlight         \*   update messages not yet applied

ASSUME SelectionAssumption ==
  /\ Markers \cup Overridden \subseteq Components /\ Replicated \notin Components
  /\ \A m \in Markers : MarkerPriority[m] \in Nat
  /\ \A c \in Candidates : /\ c.components \in Seq(Components) /\ c.components # <<>>
                           /\ IsInjective(c.components)
                           /\ c.priority \in Nat \cup {None}
  /\ Default \notin Components /\ None \notin Components \cup {Default} \cup Nat

VARIABLES
  \* the app, on both sides
  rules,              \* ReplicationRules: sorted by priority
  fns,                \* ReplicationRegistry::rules: the component of each FnsId
  slots,              \* ComponentFns::markers of the registered components
  markers,            \* ReceiveMarkers: sorted by priority
  assigned,           \* history: <<marker, component>> given to set_marker_fns
  running,            \* registration is over
  \* server
  entity,             \* components of the entity
  archetypes,         \* Archetypes: component sets, in order of creation
  cache,              \* ReplicatedArchetypes: [processed, list]
  removals,           \* RemovalBuffer: FnsIds
  known,              \* EntityTicks::components: what the client was sent
  kept,               \* history: components that stopped being replicated otherwise
                      \*   than by being removed themselves
  edits, locals,      \* changes made so far
  \* client
  link,               \* update messages on their way
  copy,               \* components of the entity, with who wrote them
  calls               \* functions called for the last update message

appVars == <<rules, fns, slots, markers, assigned, running>>
serverVars == <<entity, archetypes, cache, removals, known, kept, edits>>
clientVars == <<copy, calls, locals>>
vars == <<appVars, serverVars, link, clientVars>>

Init ==
  /\ rules = <<>> /\ fns = <<>> /\ slots = <<>> /\ markers = <<>>
  /\ assigned = {} /\ running = FALSE
  /\ entity = {Replicated} /\ archetypes = <<{Replicated}>>
  /\ cache = [processed |-> 0, list |-> <<>>]
  /\ removals = <<>> /\ known = {} /\ kept = {} /\ edits = 0
  /\ link = <<>>
  /\ copy = <<>> /\ calls = {} /\ locals = 0

-----------------------------------------------------------------------------
(* Rules and their filters.                                                *)

\* FilterRule.  An Or is its alternatives, nested ones flattened.
With(c) == [kind |-> "With", of |-> {c}]
Without(c) == [kind |-> "Without", of |-> {c}]
AnyOf(filters) == [kind |-> "Or", of |-> filters]

Holds(f, archetype) == IF f.kind = "With" THEN f.of \subseteq archetype
                       ELSE f.of \cap archetype = {}
MatchesFilter(f, archetype) ==
  IF f.kind = "Or" THEN \E alternative \in f.of : Holds(alternative, archetype)
  ELSE Holds(f, archetype)

\* FilterRules::DEFAULT_PRIORITY: the number of filters, an Or counts as what it
\* contains.
FilterPriority(filters) ==
  MapThenSumSet(LAMBDA f : Cardinality(f.of), filters)

\* IntoComponentRules::DEFAULT_PRIORITY: the number of components.
DefaultPriority(rule) == Len(rule.components) + FilterPriority(rule.filters)

-----------------------------------------------------------------------------
(* Registration.                                                           *)

\* slice::binary_search_by_key on a slice in descending order: the last of the
\* equal elements, or where to insert.
BinarySearch(keys, key) ==
  LET equal == {i \in DOMAIN keys : keys[i] = key}
  IN  IF equal # {} THEN [found |-> TRUE, at |-> Max(equal)]
      ELSE [found |-> FALSE, at |-> 1 + Cardinality({i \in DOMAIN keys : keys[i] > key})]

PriorityOf(s) == [i \in DOMAIN s |-> s[i].priority]

\* ReplicationRules::insert: after the rules of the same priority.
InsertRuleFirst(s, rule) ==
  InsertAt(s, BinarySearch(PriorityOf(s), rule.priority).at, rule)
InsertRule(s, rule) ==
  LET hit == BinarySearch(PriorityOf(s), rule.priority)
      lower == {i \in (hit.at + 1)..Len(s) : s[i].priority # rule.priority}
      skip == IF lower = {} THEN 0 ELSE Min(lower) - hit.at - 1
  IN  InsertAt(s, IF hit.found THEN hit.at + skip + 1 ELSE hit.at, rule)

\* init_component_fns: ComponentFns::new has an empty slot for every marker.
WithFns(s, components) ==
  [c \in DOMAIN s \cup components |-> IF c \in DOMAIN s THEN s[c]
                                       ELSE [i \in DOMAIN markers |-> FALSE]]

\* replicate_with_priority_filtered and replicate_bundle_with_filtered, without
\* a priority replicate_with_filtered and replicate_bundle_filtered.
AddRule(rule) ==
  LET registered == Len(fns)
      components == [i \in DOMAIN rule.components |-> [id |-> rule.components[i], fns |-> registered + i]]
  IN  /\ ~running /\ Len(rules) < MaxRules
      /\ fns' = fns \o rule.components
      /\ slots' = WithFns(slots, Range(rule.components))
      /\ rules' = InsertRule(rules, [components |-> components, filters |-> rule.filters,
           priority |-> IF rule.priority = None THEN DefaultPriority(rule) ELSE rule.priority])
      /\ UNCHANGED <<markers, assigned, running, serverVars, link, clientVars>>

\* ReceiveMarkers::insert: at the position the search returns.
MarkerAtTheEnd(m) == Len(markers) + 1
MarkerPosition(m) ==
  BinarySearch([i \in DOMAIN markers |-> MarkerPriority[markers[i]]], MarkerPriority[m]).at

\* register_marker_with: every component gets an empty slot at the same position.
AddSlotLast(s, at) == Append(s, FALSE)
AddSlot(s, at) == InsertAt(s, at, FALSE)
RegisterMarker(m) ==
  /\ ~running /\ m \notin Range(markers)
  /\ markers' = InsertAt(markers, MarkerPosition(m), m)
  /\ slots' = [c \in DOMAIN slots |-> AddSlot(slots[c], MarkerPosition(m))]
  /\ UNCHANGED <<rules, fns, assigned, running, serverVars, link, clientVars>>

MarkerIndex(m) == CHOOSE i \in DOMAIN markers : markers[i] = m

\* set_marker_fns; a second call for the same pair is a bug of the app.
SetMarkerFns(m, c) ==
  /\ ~running /\ m \in Range(markers)
  /\ <<m, c>> \notin assigned /\ Cardinality(assigned) < MaxFns
  /\ slots' = [WithFns(slots, {c}) EXCEPT ![c][MarkerIndex(m)] = TRUE]
  /\ assigned' = assigned \cup {<<m, c>>}
  /\ UNCHANGED <<rules, fns, markers, running, serverVars, link, clientVars>>

Start ==
  /\ ~running /\ rules # <<>> /\ running' = TRUE
  /\ UNCHANGED <<rules, fns, slots, markers, assigned, serverVars, link, clientVars>>

-----------------------------------------------------------------------------
(* Server.                                                                 *)

\* ReplicationRule::matches
Matches(rule, archetype) ==
  /\ \A f \in rule.filters : MatchesFilter(f, archetype)
  /\ \A i \in DOMAIN rule.components : rule.components[i].id \in archetype

\* The components of the matching rules; the first rule of a component counts.
AddNew(components, component) ==
  IF \E i \in DOMAIN components : components[i].id = component.id THEN components
  ELSE Append(components, component)
Selected(archetype) ==
  FoldLeft(LAMBDA components, rule :
             IF Matches(rule, archetype) THEN FoldLeft(AddNew, components, rule.components)
             ELSE components,
           <<>>, rules)

\* Markers first, in the order of ReceiveMarkers; the sort is stable.
MarkersFirst(components) ==
  FlattenSeq([i \in DOMAIN markers |->
                SelectSeq(components, LAMBDA c : c.id = markers[i])])
    \o SelectSeq(components, LAMBDA c : c.id \notin Range(markers))

\* ReplicatedArchetypes::update: the archetypes created since the last update.
Updated(list) ==
  LET new == {i \in (cache.processed + 1)..Len(list) : Replicated \in list[i]}
  IN  [processed |-> Len(list),
       list |-> [a \in {list[i] : i \in new} |-> MarkersFirst(Selected(a))] @@ cache.list]

ComponentsOf(list, archetype) ==
  IF archetype \in DOMAIN list THEN {list[archetype][i].id : i \in DOMAIN list[archetype]}
  ELSE {}

\* The entity moves to another archetype, which may be new.
MoveTo(components) ==
  /\ entity' = components
  /\ archetypes' = IF components \in Range(archetypes) THEN archetypes
                   ELSE Append(archetypes, components)

Keeps(removed) ==
  kept' = (kept \cup (ComponentsOf(Updated(archetypes).list, entity) \ removed))
            \ ComponentsOf(Updated(archetypes').list, entity')

\* The app inserts a bundle.
InsertBundle(components) ==
  /\ running /\ edits < MaxEdits /\ edits' = edits + 1
  /\ components # {} /\ components \cap entity = {}
  /\ MoveTo(entity \cup components)
  /\ Keeps({})
  /\ UNCHANGED <<appVars, cache, removals, known, link, clientVars>>

\* RemovalBuffer::insert: the FnsIds of the removed components that were replicated.
RemovedFns(components, archetype) ==
  LET found == SelectSeq(archetype, LAMBDA c : c.id \in components)
  IN  [i \in DOMAIN found |-> found[i].fns]

\* The app removes a bundle; buffer_removals runs while the entity still has it.
ArchetypeEntered == entity'
ArchetypeLeft == entity
RemoveBundle(components) ==
  /\ running /\ edits < MaxEdits /\ edits' = edits + 1
  /\ components # {} /\ components \subseteq entity
  /\ MoveTo(entity \ components)
  /\ IF Replicated \in components
     THEN UNCHANGED <<cache, removals>>
     ELSE /\ cache' = Updated(archetypes)
          /\ removals' = IF ArchetypeLeft \in DOMAIN cache'.list
                         THEN removals \o RemovedFns(components, cache'.list[ArchetypeLeft])
                         ELSE removals
  /\ Keeps(IF Replicated \in components THEN {} ELSE components)
  /\ UNCHANGED <<appVars, known, link, clientVars>>

\* collect_removals: what the client knows, once.
SentRemovals ==
  FoldLeft(LAMBDA sent, f : IF fns[f] \in known \ {fns[sent[i]] : i \in DOMAIN sent}
                            THEN Append(sent, f) ELSE sent,
           <<>>, removals)

\* collect_changes: the selected components the client does not have yet.
Insertions(list, removed) ==
  IF entity \notin DOMAIN list THEN <<>>
  ELSE SelectSeq(list[entity], LAMBDA c : c.id \notin known \ removed)

\* send_replication
Send ==
  LET new == Updated(archetypes)
      removed == {fns[SentRemovals[i]] : i \in DOMAIN SentRemovals}
      inserted == Insertions(new.list, removed)
  IN  /\ running /\ Len(link) < MaxInFlight
      /\ cache' = new
      /\ removals' = <<>>
      /\ known' = (known \ removed) \cup {inserted[i].id : i \in DOMAIN inserted}
      /\ link' = IF SentRemovals = <<>> /\ inserted = <<>> THEN link
                 ELSE Append(link, [removals |-> SentRemovals,
                                    changes |-> [i \in DOMAIN inserted |-> inserted[i].fns]])
      /\ UNCHANGED <<appVars, entity, archetypes, kept, edits, clientVars>>

-----------------------------------------------------------------------------
(* Client.                                                                 *)

\* EntityMarkers::read
MarkersOn(components) == {m \in Range(markers) : m \in DOMAIN components}

\* ComponentFns::write and remove: the first marker that is present and has
\* functions for the component.
FnsFor(c, present) ==
  LET usable == {i \in DOMAIN markers : slots[c][i] /\ markers[i] \in present}
  IN  IF usable = {} THEN Default ELSE markers[Min(usable)]

\* apply_removals
Removed(fnsIds) == {[component |-> fns[fnsIds[i]], markers |-> MarkersOn(copy),
                     by |-> FnsFor(fns[fnsIds[i]], MarkersOn(copy))] : i \in DOMAIN fnsIds}

\* apply_changes: the first component counts as present if it is a marker.
Included(fnsIds, before) ==
  MarkersOn(before) \cup ({fns[fnsIds[1]]} \cap Range(markers))
Written(fnsIds, before) ==
  LET present == Included(fnsIds, before)
      changed == {fns[fnsIds[i]] : i \in DOMAIN fnsIds}
  IN  {[component |-> c, by |-> FnsFor(c, present),
        markers |-> MarkersOn(before) \cup (changed \cap Range(markers))] : c \in changed}

\* apply_update_message: removals, then changes.
Apply ==
  /\ link # <<>>
  /\ LET update == Head(link)
         before == RestrictDomain(copy, LAMBDA c : \A k \in Removed(update.removals) : k.component # c)
         written == IF update.changes = <<>> THEN {} ELSE Written(update.changes, before)
     IN  /\ copy' = [c \in {k.component : k \in written} |->
                       (CHOOSE k \in written : k.component = c).by] @@ before
         /\ calls' = Removed(update.removals) \cup written
  /\ link' = Tail(link)
  /\ UNCHANGED <<appVars, serverVars, locals>>

\* The client's app marks its entity, or takes its own mark off.
Mark(m) ==
  /\ running /\ locals < MaxLocal /\ locals' = locals + 1
  /\ m \notin DOMAIN copy
  /\ copy' = m :> None @@ copy
  /\ UNCHANGED <<appVars, serverVars, link, calls>>
Unmark(m) ==
  /\ m \in DOMAIN copy /\ copy[m] = None
  /\ copy' = RestrictDomain(copy, LAMBDA c : c # m)
  /\ UNCHANGED <<appVars, serverVars, link, calls, locals>>

Next ==
  \/ \E rule \in Candidates : AddRule(rule)
  \/ \E m \in Markers : RegisterMarker(m) \/ \E c \in Overridden : SetMarkerFns(m, c)
  \/ Start
  \/ \E components \in SUBSET (Components \cup {Replicated}) 
       : InsertBundle(components) \/ RemoveBundle(components)
  \/ Send
  \/ Apply
  \/ \E m \in Markers : Mark(m) \/ Unmark(m)

Spec == Init /\ [][Next]_vars

-----------------------------------------------------------------------------
(* Properties.                                                             *)

\* Every variable keeps its shape: the rules are sorted by priority, and so are
\* the markers (the contract of both insert functions).
TypeOK ==
  /\ \A i, j \in DOMAIN rules : i < j => rules[i].priority >= rules[j].priority
  /\ \A i, j \in DOMAIN markers : i < j => MarkerPriority[markers[i]] >= MarkerPriority[markers[j]]
  /\ fns \in Seq(Components)
  /\ \A c \in DOMAIN slots : DOMAIN slots[c] = DOMAIN markers
  /\ assigned \subseteq Markers \X Overridden
  /\ entity \subseteq Components \cup {Replicated}
  /\ cache.processed \in 0..Len(archetypes)
  /\ known \subseteq Components /\ kept \subseteq Components
  /\ \A c \in DOMAIN copy : copy[c] \in Markers \cup {Default, None}

\* However rules were added, an archetype has exactly the components of the rules
\* that match it, each with the functions of the rule of the highest priority
\* and, among those, of the rule that was added first (ReplicationRules::insert
\* and ReplicatedArchetypes::update).
BestRuleWins ==
  \A a \in DOMAIN cache.list :
    LET matching == {<<rule, i>> \in Range(rules) \X (1..Len(fns)) :
                       /\ \A f \in rule.filters : MatchesFilter(f, a)
                       /\ {rule.components[j].id : j \in DOMAIN rule.components} \subseteq a
                       /\ i \in DOMAIN rule.components}
        best(c) == CHOOSE m \in matching :
          /\ m[1].components[m[2]].id = c
          /\ \A o \in matching :
               o[1].components[o[2]].id = c =>
                 \/ o[1].priority < m[1].priority
                 \/ /\ o[1].priority = m[1].priority
                    /\ o[1].components[o[2]].fns >= m[1].components[m[2]].fns
        offered == {m[1].components[m[2]].id : m \in matching}
    IN  /\ Len(cache.list[a]) = Cardinality(offered)
        /\ Range(cache.list[a]) = {[id |-> c, fns |-> best(c)[1].components[best(c)[2]].fns] : c \in offered}

\* After a send and with nothing under way the client has every replicated
\* component, and of the others only those that stopped being replicated without
\* being removed, which the documentation of replicate_with leaves on the client
\* (RemovalBuffer, collect_removals, collect_changes, apply_update_message).
ClientHasWhatMatches ==
  LET selected == ComponentsOf(cache.list, entity)
      remote == {c \in DOMAIN copy : copy[c] # None}
  IN  (link = <<>> /\ removals = <<>> /\ cache.processed = Len(archetypes) /\ selected \subseteq known)
        => selected \subseteq DOMAIN copy /\ remote \ selected \subseteq kept

\* If the marker of the highest priority on an entity, or in the update it gets,
\* has functions for a component, they are the ones called; and functions are
\* never called for a marker that the entity does not have (set_marker_fns;
\* ReplicatedArchetypes::update sends markers first, EntityMarkers::include).
HighestMarkerDecides ==
  \A k \in calls :
    LET highest == {m \in k.markers : \A n \in k.markers : MarkerPriority[n] <= MarkerPriority[m]}
    IN  /\ k.by \in k.markers \cup {Default}
        /\ \A m \in highest : (highest = {m} /\ <<m, k.component>> \in assigned) => k.by = m

\* set_receive_fns: "If there are no markers present on an entity, then these
\* functions will be called", and only then where a present marker has others.
DefaultOnlyWithoutMarkers ==
  \A k \in calls : k.by = Default => \A m \in k.markers : <<m, k.component>> \notin assigned

=============================================================================
