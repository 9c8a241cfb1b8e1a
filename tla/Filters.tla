------------------------------- MODULE Filters -------------------------------
(***************************************************************************)
(* How visibility filters set the masks of a client.  A filter is a        *)
(* component of an entity that is compared with a component of the client; *)
(* observers re-evaluate it when either changes, when the client is        *)
(* authorized, and the app sets bits of its own with ClientVisibility::set.*)
(* Every filter hides the whole entity while it is not visible: the other  *)
(* scopes and lifetimes are in Replication, which starts from the masks.   *)
(***************************************************************************)
EXTENDS Naturals, FiniteSets, Functions

CONSTANTS
  Clients, Entities,
  Filters,            \* components that are visibility filters
  Scopes,             \* scopes registered without a filter
  Values,             \* values of filters and of client components
  None,               \* no component
  Sees,               \* is_visible: triples <<filter, value, client value or None>>
  Bits,               \* u32::BITS
  EarlyComponents,    \* clients may get components before they are authorized
  MaxSteps            \* bound: steps of the app

ASSUME FiltersAssumption ==
  /\ None \notin Values /\ Filters \cap Scopes = {}
  /\ Sees \subseteq Filters \X Values \X (Values \cup {None})
  /\ Bits \in Nat
  /\ IsFiniteSet(Filters \cup Scopes) /\ Cardinality(Filters \cup Scopes) <= Bits
  /\ EarlyComponents \in BOOLEAN

VARIABLES
  bits,               \* FilterRegistry: the bit of each registered filter or scope
  running,            \* registration is over
  entities,           \* "Unborn", "Alive", "Disabled" or "Dead"
  filters,            \* values of the filters of each entity
  despawns,           \* DespawnBuffer
  clients,            \* "Gone", "Connected" or "Authorized"
  values,             \* client components of each client
  hidden, lost,       \* ClientVisibility: masks of the entities that have one
  tracked,            \* ClientTicks::entities
  manual,             \* history: <<client, entity, scope>> hidden by the app
  unevaluated,        \* history: <<client, entity, filter>> never evaluated: the bit is clear
  stale,              \* history: those evaluated for an earlier component of the client
  steps               \* steps of the app so far

entityVars == <<entities, filters, despawns>>
clientVars == <<clients, values>>
maskVars == <<hidden, lost>>
missed == <<unevaluated, stale>>
vars == <<bits, running, entityVars, clientVars, maskVars, tracked, manual, missed, steps>>

Alive == {e \in Entities : entities[e] \in {"Alive", "Disabled"}}
Authorized == {c \in Clients : clients[c] = "Authorized"}

Init ==
  /\ bits = <<>> /\ running = FALSE
  /\ entities = [e \in Entities |-> "Unborn"]
  /\ filters = [e \in Entities |-> [f \in Filters |-> None]]
  /\ despawns = {}
  /\ clients = [c \in Clients |-> "Gone"]
  /\ values = [c \in Clients |-> [f \in Filters |-> None]]
  /\ hidden = [c \in Clients |-> <<>>] /\ lost = [c \in Clients |-> <<>>]
  /\ tracked = [c \in Clients |-> {}]
  /\ manual = {} /\ unevaluated = {} /\ stale = {}
  /\ steps = 0

Step == running /\ steps < MaxSteps /\ steps' = steps + 1

-----------------------------------------------------------------------------
(* FilterRegistry.                                                         *)

\* register_filter and register_scope: the next bit.
Register(f) ==
  /\ ~running /\ f \notin DOMAIN bits
  /\ bits' = [g \in DOMAIN bits \cup {f} |-> IF g = f THEN Cardinality(DOMAIN bits) ELSE bits[g]]
  /\ UNCHANGED <<running, entityVars, clientVars, maskVars, tracked, manual, missed, steps>>

Start ==
  /\ ~running /\ DOMAIN bits = Filters \cup Scopes /\ running' = TRUE
  /\ UNCHANGED <<bits, entityVars, clientVars, maskVars, tracked, manual, missed, steps>>

-----------------------------------------------------------------------------
(* ClientVisibility.                                                       *)

MaskOf(masks, e) == IF e \in DOMAIN masks THEN masks[e] ELSE {}

\* An entity without hidden data has no mask.
NonEmpty(masks) == Restrict(masks, {e \in DOMAIN masks : masks[e] # {}})

\* What becomes visible again before the send is not lost.
LostAfter(mask, new, shown) == (mask \cup new) \ shown

\* set: decisions is the set of [entity, bit, visible] of one observer, all of
\* different entities or different bits.
Set(c, decisions) ==
  LET bitsOf(e, shown) == {d.bit : d \in {d \in decisions : d.entity = e /\ d.visible = shown}}
      after(e) == (MaskOf(hidden[c], e) \cup bitsOf(e, FALSE)) \ bitsOf(e, TRUE)
      newlyLost(e) == bitsOf(e, FALSE) \ MaskOf(hidden[c], e)
      lostAfter(e) == LostAfter(MaskOf(lost[c], e), newlyLost(e), bitsOf(e, TRUE))
  IN  [hidden |-> NonEmpty([e \in Entities |-> after(e)]),
       lost |-> NonEmpty([e \in Entities |-> lostAfter(e)])]

\* An observer runs with what it decides for each client it visits.
Observe(decisions) ==
  LET visited == DOMAIN decisions
  IN  /\ hidden' = [c \in Clients |-> IF c \in visited THEN Set(c, decisions[c]).hidden ELSE hidden[c]]
      /\ lost' = [c \in Clients |-> IF c \in visited THEN Set(c, decisions[c]).lost ELSE lost[c]]

IsVisible(f, value, clientValue) == <<f, value, clientValue>> \in Sees

\* The observers for a client evaluate a filter on the entities with it; a query
\* without Allow<Disabled> leaves out the disabled ones.
Evaluated(f) == {e \in Entities : entities[e] = "Alive" /\ filters[e][f] # None}
Passed(f) == {e \in Entities : entities[e] = "Disabled" /\ filters[e][f] # None}
Decide(f, clientValue) ==
  {[entity |-> e, bit |-> bits[f], visible |-> IsVisible(f, filters[e][f], clientValue)] : e \in Evaluated(f)}

\* What an evaluation of f for c leaves of the triples, and what a filter that
\* is inserted, replaced or removed leaves of them.
Unreached(triples, c, f) == {t \in triples : ~(t[1] = c /\ t[3] = f /\ entities[t[2]] = "Alive")}
WithoutFilter(triples, e, f) == {t \in triples : ~(t[2] = e /\ t[3] = f)}

-----------------------------------------------------------------------------
(* Entities.                                                               *)

Spawn(e) ==
  /\ Step /\ entities[e] = "Unborn"
  /\ entities' = [entities EXCEPT ![e] = "Alive"]
  /\ UNCHANGED <<bits, running, filters, despawns, clientVars, maskVars, tracked, manual, missed>>

SetDisabled(e) ==
  /\ Step /\ e \in Alive
  /\ entities' = [entities EXCEPT ![e] = IF @ = "Alive" THEN "Disabled" ELSE "Alive"]
  /\ UNCHANGED <<bits, running, filters, despawns, clientVars, maskVars, tracked, manual, missed>>

\* on_insert: also when the filter is replaced.
InsertFilter(e, f, v) ==
  /\ Step /\ e \in Alive
  /\ filters' = [filters EXCEPT ![e][f] = v]
  /\ Observe([c \in Authorized |-> {[entity |-> e, bit |-> bits[f],
                                      visible |-> IsVisible(f, v, values[c][f])]}])
  /\ unevaluated' = WithoutFilter(unevaluated, e, f) /\ stale' = WithoutFilter(stale, e, f)
  /\ UNCHANGED <<bits, running, entities, despawns, clientVars, tracked, manual>>

\* on_remove: an entity without the filter is not hidden by it.
ShownWithout(e, f) == {[entity |-> e, bit |-> bits[f], visible |-> TRUE]}
RemoveFilter(e, f) ==
  /\ Step /\ e \in Alive /\ filters[e][f] # None
  /\ filters' = [filters EXCEPT ![e][f] = None]
  /\ Observe([c \in Authorized |-> ShownWithout(e, f)])
  /\ unevaluated' = WithoutFilter(unevaluated, e, f) /\ stale' = WithoutFilter(stale, e, f)
  /\ UNCHANGED <<bits, running, entities, despawns, clientVars, tracked, manual>>

\* on_remove leaves the masks of an entity that is despawned; buffer_despawn.
DespawnEntity(e) ==
  /\ Step /\ e \in Alive
  /\ entities' = [entities EXCEPT ![e] = "Dead"]
  /\ filters' = [filters EXCEPT ![e] = [f \in Filters |-> None]]
  /\ despawns' = despawns \cup {e}
  /\ unevaluated' = {t \in unevaluated : t[2] # e} /\ stale' = {t \in stale : t[2] # e}
  /\ UNCHANGED <<bits, running, clientVars, maskVars, tracked, manual>>

\* The app hides or shows an entity with a scope of its own.
SetManually(c, e, s) ==
  /\ Step /\ c \in Authorized /\ e \in Alive
  /\ LET visible == <<c, e, s>> \in manual
     IN  /\ Observe([visited \in {c} |-> {[entity |-> e, bit |-> bits[s], visible |-> visible]}])
         /\ manual' = IF visible THEN manual \ {<<c, e, s>>} ELSE manual \cup {<<c, e, s>>}
  /\ UNCHANGED <<bits, running, entityVars, clientVars, tracked, missed>>

-----------------------------------------------------------------------------
(* Clients.                                                                *)

Connect(c) ==
  /\ Step /\ clients[c] = "Gone"
  /\ clients' = [clients EXCEPT ![c] = "Connected"]
  /\ UNCHANGED <<bits, running, entityVars, values, maskVars, tracked, manual, missed>>

\* AuthorizedClient requires ClientVisibility; update_for_new_clients evaluates
\* the filters whose client component is missing, on the enabled entities.
ForNewClientNothing(c) == {}
ForNewClient(c) ==
  UNION {Decide(f, None) : f \in {f \in Filters : values[c][f] = None}}
LeftForLater(c) ==
  {t \in {c} \X Entities \X Filters :
     t[2] \in Passed(t[3]) \/ (values[c][t[3]] # None /\ t[2] \in Evaluated(t[3]))}
Authorize(c) ==
  /\ Step /\ clients[c] = "Connected"
  /\ clients' = [clients EXCEPT ![c] = "Authorized"]
  /\ Observe([visited \in {c} |-> ForNewClient(c)])
  /\ unevaluated' = unevaluated \cup LeftForLater(c)
  /\ UNCHANGED <<bits, running, entityVars, values, tracked, manual, stale>>

\* on_client_insert, on_client_remove: nothing without ClientVisibility.
SetClientComponent(c, f, v) ==
  /\ Step /\ clients[c] \in {"Authorized"} \cup (IF EarlyComponents THEN {"Connected"} ELSE {})
  /\ v # None \/ values[c][f] # None
  /\ values' = [values EXCEPT ![c][f] = v]
  /\ IF c \in Authorized
     THEN /\ Observe([visited \in {c} |-> Decide(f, v)])
          /\ unevaluated' = Unreached(unevaluated, c, f)
          /\ stale' = Unreached(stale, c, f) \cup ({<<c, e, f>> : e \in Passed(f)} \ unevaluated)
     ELSE UNCHANGED <<maskVars, missed>>
  /\ UNCHANGED <<bits, running, entityVars, clients, tracked, manual>>

\* The client entity is despawned with all its components.
Disconnect(c) ==
  /\ Step /\ clients[c] # "Gone"
  /\ clients' = [clients EXCEPT ![c] = "Gone"]
  /\ values' = [values EXCEPT ![c] = [f \in Filters |-> None]]
  /\ hidden' = [hidden EXCEPT ![c] = <<>>] /\ lost' = [lost EXCEPT ![c] = <<>>]
  /\ tracked' = [tracked EXCEPT ![c] = {}]
  /\ manual' = {t \in manual : t[1] # c}
  /\ unevaluated' = {t \in unevaluated : t[1] # c} /\ stale' = {t \in stale : t[1] # c}
  /\ UNCHANGED <<bits, running, entityVars>>

-----------------------------------------------------------------------------
(* send_replication.                                                       *)

\* remove_despawned, for every client.
WithDespawned(masks) == masks
WithoutDespawned(masks) == Restrict(masks, DOMAIN masks \ despawns)

\* collect_despawns and collect_changes: lost entities and despawned ones are
\* forgotten, then every entity that no mask hides is known to the client.
LeftAfterBufferOnly(c) == tracked[c] \ despawns
LeftAfterDespawns(c) == tracked[c] \ (despawns \cup DOMAIN lost[c])
Send ==
  /\ running
  /\ hidden' = [c \in Clients |-> WithoutDespawned(hidden[c])]
  /\ lost' = [c \in Clients |-> <<>>]
  /\ despawns' = {}
  /\ tracked' = [c \in Clients |->
                   IF c \in Authorized
                   THEN LeftAfterDespawns(c) \cup {e \in Alive : e \notin DOMAIN hidden'[c]}
                   ELSE {}]
  /\ UNCHANGED <<bits, running, entities, filters, clientVars, manual, missed, steps>>

Next ==
  \/ \E f \in Filters \cup Scopes : Register(f)
  \/ Start
  \/ \E e \in Entities : Spawn(e) \/ SetDisabled(e) \/ DespawnEntity(e)
  \/ \E e \in Entities, f \in Filters : RemoveFilter(e, f) \/ \E v \in Values : InsertFilter(e, f, v)
  \/ \E c \in Clients, e \in Entities, s \in Scopes : SetManually(c, e, s)
  \/ \E c \in Clients : Connect(c) \/ Authorize(c) \/ Disconnect(c)
  \/ \E c \in Clients, f \in Filters, v \in Values \cup {None} : SetClientComponent(c, f, v)
  \/ Send

Spec == Init /\ [][Next]_vars

-----------------------------------------------------------------------------
(* Properties.                                                             *)

\* Masks exist for clients with ClientVisibility only, and none of them is empty.
TypeOK ==
  /\ IsInjective(bits) /\ Range(bits) \subseteq 0..(Bits - 1)
  /\ \A c \in Clients : /\ \A m \in {hidden[c], lost[c]} :
                              /\ DOMAIN m \subseteq Entities /\ {} \notin Range(m)
                              /\ \A e \in DOMAIN m : m[e] \subseteq Range(bits)
                        /\ c \notin Authorized => hidden[c] = <<>> /\ lost[c] = <<>>
  /\ manual \subseteq Clients \X Entities \X Scopes
  /\ unevaluated \cup stale \subseteq Clients \X Alive \X Filters
  \* A despawned entity leaves no mask once its despawn is sent (remove_despawned).
  /\ \A c \in Clients : DOMAIN hidden[c] \cup DOMAIN lost[c] \subseteq Alive \cup despawns

\* What is_visible answers for the components the two entities have now.
Denied(c, e, f) == filters[e][f] # None /\ ~IsVisible(f, filters[e][f], values[c][f])

\* What the code hides: a filter that was never evaluated for the client hides
\* nothing, whatever is_visible would answer.
Hides(c, e, f) == Denied(c, e, f) /\ <<c, e, f>> \notin unevaluated

\* Whatever order filters, client components and authorization come in, the bit
\* of a filter is set exactly when the entity has the filter, is_visible denies
\* it for the components of now, and some observer evaluated it: nothing does for
\* a client component that came before authorization (FiltersAreEvaluated), nor
\* for an entity that is disabled at authorization, and the bit is then clear.
\* Nothing is claimed of an entity that was disabled when the client's component
\* changed: its bit answers for an earlier component (on_insert, on_remove,
\* on_client_insert, on_client_remove, update_for_new_clients).
BitsFollowFilters ==
  \A c \in Authorized, e \in Alive, f \in Filters :
    <<c, e, f>> \in stale \/ (bits[f] \in MaskOf(hidden[c], e) <=> Hides(c, e, f))

\* A client is sent an entity exactly if it exists and neither a filter that was
\* evaluated for the client nor the app hides it: an entity that is_visible
\* denies is sent if the filter never was evaluated.  Nothing is claimed of an
\* entity with a bit for an earlier client component (collect_despawns,
\* collect_changes with the masks).
SentIsAllowed ==
  [][Send => \A c \in Authorized, e \in Entities :
       (\A f \in Filters : <<c, e, f>> \notin stale) =>
         (e \in tracked'[c] <=> /\ e \in Alive
                                /\ \A f \in Filters : ~Hides(c, e, f)
                                /\ \A s \in Scopes : <<c, e, s>> \notin manual)]_vars

\* The doc of add_visibility_filter: a filter "will be evaluated against
\* VisibilityFilter::ClientComponent on authorized client entities", so that the
\* entities a client may not see are hidden from it, and no others.
FiltersAreEvaluated ==
  \A c \in Authorized, e \in {e \in Entities : entities[e] = "Alive"}, f \in Filters :
    bits[f] \in MaskOf(hidden[c], e) <=> Denied(c, e, f)

\* The doc of add_visibility_filter: "If the component is missing on a replicated
\* entity, it is treated as if VisibilityFilter::is_visible would return false",
\* so that after a send a client has no entity without the filter (on_remove shows
\* such an entity, and no observer visits one that never had the filter).
MissingFilterHides ==
  [][Send => \A c \in Authorized, e \in Alive : \A f \in Filters :
       filters[e][f] = None => e \notin tracked'[c]]_vars

=============================================================================
