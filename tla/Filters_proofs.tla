--------------------------- MODULE Filters_proofs ---------------------------
(***************************************************************************)
(* Proofs about Filters: a bit of a mask says what the filter, or the app, *)
(* says now, so that a send reaches exactly the clients that may see an    *)
(* entity, for any number of clients, entities, filters and values.        *)
(***************************************************************************)
EXTENDS Filters, FiniteSetTheorems, TLAPS

Typed ==
  /\ bits \in [DOMAIN bits -> Nat] /\ DOMAIN bits \subseteq Filters \cup Scopes
  /\ running \in BOOLEAN
  /\ running => DOMAIN bits = Filters \cup Scopes
  /\ entities \in [Entities -> {"Unborn", "Alive", "Disabled", "Dead"}]
  /\ filters \in [Entities -> [Filters -> Values \cup {None}]]
  /\ clients \in [Clients -> {"Gone", "Connected", "Authorized"}]
  /\ values \in [Clients -> [Filters -> Values \cup {None}]]
  /\ hidden = [c \in Clients |-> hidden[c]] /\ lost = [c \in Clients |-> lost[c]]
  /\ tracked \in [Clients -> SUBSET Entities]

\* The registry hands out the first numbers, one to each filter.
BitsUnique ==
  /\ IsInjective(bits)
  /\ \A f \in DOMAIN bits : bits[f] < Cardinality(DOMAIN bits)

\* What a client's masks are made of.
IsMask(m) ==
  /\ m \in [DOMAIN m -> (SUBSET Range(bits)) \ {{}}]
  /\ DOMAIN m \subseteq Alive \cup despawns

MasksFit ==
  \A c \in Clients :
    /\ IsMask(hidden[c]) /\ IsMask(lost[c])
    /\ c \notin Authorized => DOMAIN hidden[c] = {} /\ DOMAIN lost[c] = {}

\* Nothing is kept about what does not exist: entities before their spawn and
\* after their despawn, clients that are not authorized.
Absent ==
  /\ despawns \subseteq {e \in Entities : entities[e] = "Dead"}
  /\ \A e \in Entities \ Alive, f \in Filters : filters[e][f] = None
  /\ manual \subseteq Authorized \X {e \in Entities : entities[e] # "Unborn"} \X Scopes
  /\ unevaluated \subseteq Authorized \X Alive \X Filters
  /\ stale \subseteq Clients \X Alive \X Filters
  /\ running \/ Authorized = {}

\* The app's own bits, and the filters that an entity does not have.
ManualBits ==
  \A c \in Authorized, e \in Alive, s \in Scopes :
    bits[s] \in MaskOf(hidden[c], e) <=> <<c, e, s>> \in manual

Unfiltered ==
  \A c \in Authorized, e \in Alive, f \in Filters :
    filters[e][f] = None => bits[f] \notin MaskOf(hidden[c], e)

\* What hides an entity that the client knows was not there at the last send,
\* so the next one forgets the entity.
LostIsKnown ==
  \A c \in Clients : \A e \in tracked[c] :
    e \in Alive \cup despawns /\ MaskOf(hidden[c], e) \subseteq MaskOf(lost[c], e)

FiltersInv ==
  /\ Typed /\ BitsUnique /\ MasksFit /\ Absent
  /\ BitsFollowFilters /\ ManualBits /\ Unfiltered /\ LostIsKnown

-----------------------------------------------------------------------------
(* Masks.                                                                  *)

Decision == [entity : Alive, bit : Range(bits), visible : BOOLEAN]

\* The bits that decisions show or hide of one entity, and what `set` makes of
\* its mask.
BitsOf(decisions, e, shown) == {d.bit : d \in {d \in decisions : d.entity = e /\ d.visible = shown}}
SetBits(mask, decisions, e) ==
  (mask \cup BitsOf(decisions, e, FALSE)) \ BitsOf(decisions, e, TRUE)

\* A mask without empty members is the same mask.
LEMMA NonEmptyKeeps ==
  ASSUME NEW S, NEW m \in [Entities -> SUBSET S]
  PROVE  /\ DOMAIN NonEmpty(m) = {e \in Entities : m[e] # {}}
         /\ NonEmpty(m) \in [DOMAIN NonEmpty(m) -> (SUBSET S) \ {{}}]
         /\ \A e \in Entities : MaskOf(NonEmpty(m), e) = m[e]
  BY DEF NonEmpty, Restrict, MaskOf

\* `set` decides the bits it is given, and leaves the others.
LEMMA SetMasks ==
  ASSUME Typed, MasksFit, Absent, NEW c \in Clients, NEW D \in SUBSET Decision
  PROVE  /\ IsMask(Set(c, D).hidden) /\ IsMask(Set(c, D).lost)
         /\ \A e \in Entities : MaskOf(Set(c, D).hidden, e) = SetBits(MaskOf(hidden[c], e), D, e)
         /\ \A e \in Entities : MaskOf(hidden[c], e) \subseteq MaskOf(lost[c], e)
                               => MaskOf(Set(c, D).hidden, e) \subseteq MaskOf(Set(c, D).lost, e)
<1> DEFINE bitsOf(e, shown) == {d.bit : d \in {d \in D : d.entity = e /\ d.visible = shown}}
           after(e) == (MaskOf(hidden[c], e) \cup bitsOf(e, FALSE)) \ bitsOf(e, TRUE)
           newlyLost(e) == bitsOf(e, FALSE) \ MaskOf(hidden[c], e)
           lostAfter(e) == LostAfter(MaskOf(lost[c], e), newlyLost(e), bitsOf(e, TRUE))
           H == [e \in Entities |-> after(e)]
           L == [e \in Entities |-> lostAfter(e)]
<1>1. Set(c, D).hidden = NonEmpty(H) /\ Set(c, D).lost = NonEmpty(L)
  BY DEF Set
<1>2. ASSUME NEW e \in Entities, NEW shown \in BOOLEAN
      PROVE  bitsOf(e, shown) \subseteq Range(bits) /\ (e \notin Alive => bitsOf(e, shown) = {})
  BY DEF Decision
<1>3. ASSUME NEW e \in Entities
      PROVE  /\ MaskOf(hidden[c], e) \subseteq Range(bits) /\ MaskOf(lost[c], e) \subseteq Range(bits)
             /\ e \notin Alive \cup despawns => MaskOf(hidden[c], e) = {} /\ MaskOf(lost[c], e) = {}
  BY DEF MasksFit, IsMask, MaskOf
<1>4. ASSUME NEW e \in Entities
      PROVE  /\ after(e) \in SUBSET Range(bits) /\ lostAfter(e) \in SUBSET Range(bits)
             /\ e \notin Alive \cup despawns => after(e) = {} /\ lostAfter(e) = {}
  <2> HIDE DEF bitsOf
  <2> QED
    BY <1>2, <1>3 DEF LostAfter
<1>5. H \in [Entities -> SUBSET Range(bits)] /\ L \in [Entities -> SUBSET Range(bits)]
  BY <1>4
<1>6. \A e \in Entities : after(e) = SetBits(MaskOf(hidden[c], e), D, e)
  BY DEF SetBits, BitsOf
<1>7. IsMask(NonEmpty(H)) /\ IsMask(NonEmpty(L))
  <2>1. \A e \in Entities : e \notin Alive \cup despawns => H[e] = {} /\ L[e] = {}
    BY <1>4
  <2> HIDE DEF H, L
  <2>2. /\ DOMAIN NonEmpty(H) = {e \in Entities : H[e] # {}}
        /\ NonEmpty(H) \in [DOMAIN NonEmpty(H) -> (SUBSET Range(bits)) \ {{}}]
        /\ DOMAIN NonEmpty(L) = {e \in Entities : L[e] # {}}
        /\ NonEmpty(L) \in [DOMAIN NonEmpty(L) -> (SUBSET Range(bits)) \ {{}}]
    <3> DEFINE all == Range(bits)
    <3>1. H \in [Entities -> SUBSET all] /\ L \in [Entities -> SUBSET all]
      BY <1>5
    <3> HIDE DEF all
    <3>2. ASSUME NEW m \in [Entities -> SUBSET all]
          PROVE  /\ DOMAIN NonEmpty(m) = {e \in Entities : m[e] # {}}
                 /\ NonEmpty(m) \in [DOMAIN NonEmpty(m) -> (SUBSET all) \ {{}}]
      BY NonEmptyKeeps
    <3>3. /\ DOMAIN NonEmpty(H) = {e \in Entities : H[e] # {}}
          /\ NonEmpty(H) \in [DOMAIN NonEmpty(H) -> (SUBSET all) \ {{}}]
      BY <3>1, <3>2
    <3>4. /\ DOMAIN NonEmpty(L) = {e \in Entities : L[e] # {}}
          /\ NonEmpty(L) \in [DOMAIN NonEmpty(L) -> (SUBSET all) \ {{}}]
      BY <3>1, <3>2
    <3> QED
      BY <3>3, <3>4 DEF all
  <2>3. DOMAIN NonEmpty(H) \subseteq Alive \cup despawns /\ DOMAIN NonEmpty(L) \subseteq Alive \cup despawns
    BY <2>1, <2>2
  <2> QED
    BY <2>2, <2>3 DEF IsMask
<1>8. \A e \in Entities : MaskOf(NonEmpty(H), e) = after(e) /\ MaskOf(NonEmpty(L), e) = lostAfter(e)
  <2>1. \A e \in Entities : H[e] = after(e) /\ L[e] = lostAfter(e)
    OBVIOUS
  <2> HIDE DEF H, L, after, lostAfter
  <2>2. \A e \in Entities : MaskOf(NonEmpty(H), e) = H[e]
    BY <1>5, NonEmptyKeeps
  <2>3. \A e \in Entities : MaskOf(NonEmpty(L), e) = L[e]
    BY <1>5, NonEmptyKeeps
  <2> QED
    BY <2>1, <2>2, <2>3
<1>9. ASSUME NEW e \in Entities, MaskOf(hidden[c], e) \subseteq MaskOf(lost[c], e)
      PROVE  after(e) \subseteq lostAfter(e)
  <2> HIDE DEF bitsOf, MaskOf
  <2> QED
    BY <1>9 DEF LostAfter
<1> HIDE DEF after, lostAfter, H, L
<1> QED
  BY <1>1, <1>6, <1>7, <1>8, <1>9


\* An observer changes the masks of the clients it visits, each with its own
\* decisions.
LEMMA Observed ==
  ASSUME Typed, MasksFit, Absent, NEW D, DOMAIN D \subseteq Clients,
         \A c \in DOMAIN D : D[c] \in SUBSET Decision, Observe(D)
  PROVE  /\ hidden' = [c \in Clients |-> hidden'[c]] /\ lost' = [c \in Clients |-> lost'[c]]
         /\ \A c \in Clients : IsMask(hidden'[c]) /\ IsMask(lost'[c])
         /\ \A c \in Clients \ DOMAIN D : hidden'[c] = hidden[c] /\ lost'[c] = lost[c]
         /\ \A c \in DOMAIN D, e \in Entities :
              MaskOf(hidden'[c], e) = SetBits(MaskOf(hidden[c], e), D[c], e)
         /\ \A c \in Clients, e \in Entities :
              MaskOf(hidden[c], e) \subseteq MaskOf(lost[c], e)
                => MaskOf(hidden'[c], e) \subseteq MaskOf(lost'[c], e)
<1>1. DOMAIN hidden = Clients /\ DOMAIN lost = Clients
  BY DEF Typed
<1>2. /\ DOMAIN hidden' = Clients /\ DOMAIN lost' = Clients
      /\ hidden' = [c \in Clients |-> hidden'[c]] /\ lost' = [c \in Clients |-> lost'[c]]
  BY DEF Observe, Typed
<1>3. ASSUME NEW c \in DOMAIN D
      PROVE  hidden'[c] = Set(c, D[c]).hidden /\ lost'[c] = Set(c, D[c]).lost
  BY DEF Observe, Typed
<1>4. ASSUME NEW c \in Clients \ DOMAIN D
      PROVE  hidden'[c] = hidden[c] /\ lost'[c] = lost[c]
  BY DEF Observe, Typed
<1>5. ASSUME NEW c \in DOMAIN D
      PROVE  /\ IsMask(hidden'[c]) /\ IsMask(lost'[c])
             /\ \A e \in Entities : MaskOf(hidden'[c], e) = SetBits(MaskOf(hidden[c], e), D[c], e)
             /\ \A e \in Entities : MaskOf(hidden[c], e) \subseteq MaskOf(lost[c], e)
                                   => MaskOf(hidden'[c], e) \subseteq MaskOf(lost'[c], e)
  <2>1. c \in Clients /\ D[c] \in SUBSET Decision
    OBVIOUS
  <2> QED
    BY <1>3, <2>1, SetMasks
<1>6. ASSUME NEW c \in Clients \ DOMAIN D
      PROVE  IsMask(hidden'[c]) /\ IsMask(lost'[c])
  BY <1>4 DEF MasksFit
<1> QED
  BY <1>2, <1>4, <1>5, <1>6

\* One decision sets or clears one bit of one entity.
LEMMA OneBit ==
  ASSUME NEW D, NEW d \in D, \A y \in D : y = d, d.visible \in BOOLEAN, NEW x, NEW mask, NEW k
  PROVE  /\ x = d.entity /\ k = d.bit => (k \in SetBits(mask, D, x) <=> d.visible = FALSE)
         /\ ~(x = d.entity /\ k = d.bit) => (k \in SetBits(mask, D, x) <=> k \in mask)
<1>1. ASSUME NEW y \in BOOLEAN
      PROVE  BitsOf(D, x, y) = IF x = d.entity /\ d.visible = y THEN {d.bit} ELSE {}
  BY DEF BitsOf
<1>2. /\ BitsOf(D, x, TRUE) = IF x = d.entity /\ d.visible = TRUE THEN {d.bit} ELSE {}
      /\ BitsOf(D, x, FALSE) = IF x = d.entity /\ d.visible = FALSE THEN {d.bit} ELSE {}
  BY <1>1
<1> QED
  BY <1>2 DEF SetBits

\* The bits that a filter's decisions give an entity, and the bits they leave.
LEMMA DecidedBitsOf ==
  ASSUME NEW f, NEW v, NEW e \in Entities, NEW b, NEW y \in BOOLEAN
  PROVE  b \in BitsOf(Decide(f, v), e, y) <=>
           b = bits[f] /\ e \in Evaluated(f) /\ IsVisible(f, filters[e][f], v) = y
<1>1. ASSUME NEW d \in Decide(f, v), d.entity = e, d.visible = y
      PROVE  d.bit = bits[f] /\ e \in Evaluated(f) /\ IsVisible(f, filters[e][f], v) = y
  BY <1>1 DEF Decide
<1>2. ASSUME e \in Evaluated(f), IsVisible(f, filters[e][f], v) = y
      PROVE  \E d \in Decide(f, v) : d.entity = e /\ d.visible = y /\ d.bit = bits[f]
  <2> DEFINE d == [entity |-> e, bit |-> bits[f], visible |-> y]
  <2>1. d \in Decide(f, v)
    BY <1>2 DEF Decide
  <2> QED
    BY <2>1
<1> QED
  BY <1>1, <1>2 DEF BitsOf

LEMMA DecidedBits ==
  ASSUME NEW f, NEW v, NEW e \in Entities, NEW mask, NEW b
  PROVE  b \in SetBits(mask, Decide(f, v), e) <=>
           IF b = bits[f] /\ e \in Evaluated(f) THEN ~IsVisible(f, filters[e][f], v) ELSE b \in mask
<1>1. \A y \in BOOLEAN : b \in BitsOf(Decide(f, v), e, y) <=>
        b = bits[f] /\ e \in Evaluated(f) /\ IsVisible(f, filters[e][f], v) = y
  BY DecidedBitsOf
<1>2. IsVisible(f, filters[e][f], v) \in BOOLEAN
  BY DEF IsVisible
<1> QED
  BY <1>1, <1>2 DEF SetBits

LEMMA DecideType ==
  ASSUME Typed, running, NEW f \in Filters, NEW v
  PROVE  Decide(f, v) \in SUBSET Decision
<1>1. bits[f] \in Range(bits)
  BY DEF Typed, Range
<1>2. Evaluated(f) \subseteq Alive
  BY DEF Evaluated, Alive
<1>3. \A e \in Evaluated(f) : IsVisible(f, filters[e][f], v) \in BOOLEAN
  BY DEF IsVisible
<1> QED
  BY <1>1, <1>2, <1>3 DEF Decide, Decision

\* Different filters and scopes have different bits.
LEMMA DifferentBits ==
  ASSUME Typed, BitsUnique, running, NEW f \in Filters \cup Scopes, NEW g \in Filters \cup Scopes,
         bits[f] = bits[g]
  PROVE  f = g
  BY DEF Typed, BitsUnique, IsInjective

-----------------------------------------------------------------------------
(* Observers keep what the masks are made of.                              *)

LEMMA ObserveKeepsMasks ==
  ASSUME Typed, MasksFit, Absent, NEW D, DOMAIN D \subseteq Clients,
         \A c \in DOMAIN D : D[c] \in SUBSET Decision, Observe(D),
         UNCHANGED <<bits, entities, despawns>>, DOMAIN D \subseteq Authorized',
         Authorized \subseteq Authorized'
  PROVE  /\ MasksFit'
         /\ (hidden = [c \in Clients |-> hidden[c]] /\ lost = [c \in Clients |-> lost[c]])'
<1>1. Alive' = Alive
  BY DEF Alive
<1>2. ASSUME NEW c \in Clients
      PROVE  IsMask(hidden[c])' /\ IsMask(lost[c])'
  BY <1>1, Observed DEF IsMask
<1>3. ASSUME NEW c \in Clients, c \notin Authorized'
      PROVE  DOMAIN hidden'[c] = {} /\ DOMAIN lost'[c] = {}
  <2>1. hidden'[c] = hidden[c] /\ lost'[c] = lost[c] /\ c \notin Authorized
    BY <1>3, Observed
  <2> QED
    BY <2>1 DEF MasksFit
<1>4. MasksFit'
  BY <1>2, <1>3 DEF MasksFit
<1> QED
  BY <1>4, Observed

-----------------------------------------------------------------------------
(* Registration.                                                           *)

LEMMA NoMask ==
  ASSUME MasksFit, NEW c \in Clients, NEW e, c \notin Authorized \/ e \notin Alive \cup despawns
  PROVE  MaskOf(hidden[c], e) = {} /\ MaskOf(lost[c], e) = {}
  BY DEF MasksFit, IsMask, MaskOf

LEMMA InitHasInv ==
  ASSUME Init
  PROVE  FiltersInv
<1>1. Alive = {} /\ Authorized = {}
  BY DEF Init, Alive, Authorized
<1>2. Typed
  <2>1. bits \in [DOMAIN bits -> Nat] /\ DOMAIN bits = {}
    BY DEF Init
  <2>2. /\ filters \in [Entities -> [Filters -> Values \cup {None}]]
        /\ values \in [Clients -> [Filters -> Values \cup {None}]]
        /\ entities \in [Entities -> {"Unborn", "Alive", "Disabled", "Dead"}]
        /\ clients \in [Clients -> {"Gone", "Connected", "Authorized"}]
    BY DEF Init
  <2>3. /\ hidden = [c \in Clients |-> hidden[c]] /\ lost = [c \in Clients |-> lost[c]]
        /\ tracked \in [Clients -> SUBSET Entities] /\ running = FALSE
    BY DEF Init
  <2> QED
    BY <2>1, <2>2, <2>3 DEF Typed
<1>3. BitsUnique
  BY DEF Init, BitsUnique, IsInjective
<1>4. MasksFit
  BY DEF Init, MasksFit, IsMask
<1>5. Absent
  BY <1>1 DEF Init, Absent
<1>6. LostIsKnown
  BY DEF Init, LostIsKnown
<1> QED
  BY <1>1, <1>2, <1>3, <1>4, <1>5, <1>6 DEF FiltersInv, BitsFollowFilters, ManualBits, Unfiltered

\* Bits are handed out before any client is authorized.
LEMMA RegisterKeepsInv ==
  ASSUME FiltersInv, NEW f \in Filters \cup Scopes, Register(f)
  PROVE  FiltersInv'
<1> DEFINE n == Cardinality(DOMAIN bits)
<1>1. Authorized = {} /\ Authorized' = {} /\ Alive' = Alive
  BY DEF FiltersInv, Absent, Register, Authorized, Alive, entityVars, clientVars
<1>2. DOMAIN bits' = DOMAIN bits \cup {f} /\ f \notin DOMAIN bits
  BY DEF Register
<1>3. n \in Nat /\ Cardinality(DOMAIN bits') = n + 1
  <2>1. IsFiniteSet(DOMAIN bits)
    BY FiltersAssumption, FS_Subset DEF FiltersInv, Typed
  <2> QED
    BY <1>2, <2>1, FS_AddElement, FS_CardinalityType
<1>4. bits'[f] = n /\ \A g \in DOMAIN bits : bits'[g] = bits[g]
  BY <1>2 DEF Register
<1>5. Typed'
  <2>1. bits' \in [DOMAIN bits' -> Nat]
    BY <1>3 DEF Register, FiltersInv, Typed
  <2> QED
    BY <1>2, <2>1 DEF FiltersInv, Typed, Register, entityVars, clientVars, maskVars
<1>6. BitsUnique'
  <2>1. \A g \in DOMAIN bits : bits[g] < n /\ bits[g] \in Nat
    BY DEF FiltersInv, BitsUnique, Typed
  <2> HIDE DEF n
  <2>2. \A g \in DOMAIN bits' : bits'[g] < n + 1
    BY <1>2, <1>3, <1>4, <2>1
  <2>3. IsInjective(bits')
    BY <1>2, <1>3, <1>4, <2>1 DEF FiltersInv, BitsUnique, IsInjective
  <2> QED
    BY <1>3, <2>2, <2>3 DEF BitsUnique
<1>7. MasksFit'
  <2>1. Range(bits) \subseteq Range(bits')
    BY <1>2, <1>4 DEF Range
  <2> QED
    BY <1>1, <2>1 DEF FiltersInv, MasksFit, IsMask, Register, entityVars, maskVars
<1>8. Absent'
  BY <1>1 DEF FiltersInv, Absent, Register, entityVars, missed
<1>9. LostIsKnown'
  BY <1>1 DEF FiltersInv, LostIsKnown, Register, entityVars, maskVars
<1> QED
  BY <1>1, <1>5, <1>6, <1>7, <1>8, <1>9 DEF FiltersInv, BitsFollowFilters, ManualBits, Unfiltered

LEMMA StartKeepsInv ==
  ASSUME FiltersInv, Start
  PROVE  FiltersInv'
<1> USE DEF FiltersInv
<1>1. Alive' = Alive /\ Authorized' = Authorized
  BY DEF Start, Alive, Authorized, entityVars, clientVars
<1>2. /\ DOMAIN bits = Filters \cup Scopes /\ running' = TRUE
      /\ UNCHANGED <<bits, entityVars, clientVars, maskVars, tracked, manual, missed>>
  BY DEF Start
<1>3. Typed'
  BY <1>2 DEF Typed, entityVars, clientVars, maskVars
<1>4. BitsUnique'
  BY <1>2 DEF BitsUnique
<1>5. MasksFit'
  BY <1>1, <1>2 DEF MasksFit, IsMask, entityVars, maskVars
<1>6. Absent'
  BY <1>1, <1>2 DEF Absent, entityVars, clientVars, maskVars, missed
<1>7. BitsFollowFilters'
  BY <1>1, <1>2 DEF BitsFollowFilters, Hides, Denied, entityVars, clientVars, maskVars, missed
<1>8. ManualBits' /\ Unfiltered'
  BY <1>1, <1>2 DEF ManualBits, Unfiltered, entityVars, clientVars, maskVars
<1>9. LostIsKnown'
  BY <1>1, <1>2 DEF LostIsKnown, entityVars, maskVars
<1> QED
  BY <1>3, <1>4, <1>5, <1>6, <1>7, <1>8, <1>9

-----------------------------------------------------------------------------
(* Entities.                                                               *)

LEMMA SpawnKeepsInv ==
  ASSUME FiltersInv, NEW e \in Entities, Spawn(e)
  PROVE  FiltersInv'
<1> USE DEF FiltersInv
<1>1. /\ entities[e] = "Unborn" /\ e \notin Alive \cup despawns /\ Alive' = Alive \cup {e}
      /\ Authorized' = Authorized
  BY DEF Typed, Absent, Spawn, Alive, Authorized, clientVars
<1>2. UNCHANGED <<bits, running, filters, despawns, clientVars, maskVars, tracked, manual, missed>>
  BY DEF Spawn
<1>3. Typed'
  BY <1>2 DEF Typed, Spawn, clientVars, maskVars
<1>4. BitsUnique'
  BY <1>2 DEF BitsUnique
<1>5. MasksFit'
  BY <1>1, <1>2 DEF MasksFit, IsMask, maskVars
<1>6. Absent'
  <2>1. \A x \in Entities : x # e => entities'[x] = entities[x]
    BY DEF Spawn, Typed
  <2>2. entities'[e] = "Alive"
    BY DEF Spawn, Typed
  <2> QED
    BY <1>1, <1>2, <2>1, <2>2 DEF Absent, missed
<1>7. \A c \in Authorized : MaskOf(hidden[c], e) = {}
  BY <1>1, NoMask DEF Authorized
<1>8. \A f \in Filters : filters[e][f] = None
  BY <1>1 DEF Absent
<1>9. BitsFollowFilters'
  <2> SUFFICES ASSUME NEW c \in Authorized, NEW x \in Alive \cup {e}, NEW f \in Filters
               PROVE  <<c, x, f>> \in stale' \/ (bits'[f] \in MaskOf(hidden'[c], x) <=> Hides(c, x, f)')
    BY <1>1 DEF BitsFollowFilters
  <2>1. /\ bits' = bits /\ hidden' = hidden /\ missed' = missed
        /\ filters' = filters /\ values' = values
    BY <1>2 DEF clientVars, maskVars
  <2>2. (Hides(c, x, f)' <=> Hides(c, x, f)) /\ stale' = stale
    BY <2>1 DEF Hides, Denied, missed
  <2>3. CASE x \in Alive
    BY <2>1, <2>2, <2>3 DEF BitsFollowFilters
  <2>4. CASE x = e
    <3>1. ~Hides(c, x, f) /\ MaskOf(hidden[c], x) = {}
      BY <1>7, <1>8, <2>4 DEF Hides, Denied
    <3> QED
      BY <2>1, <2>2, <3>1
  <2> QED
    BY <2>3, <2>4
<1>10. ManualBits'
  BY <1>1, <1>2, <1>7 DEF ManualBits, Absent, maskVars
<1>11. Unfiltered'
  BY <1>1, <1>2, <1>7 DEF Unfiltered, maskVars
<1>12. LostIsKnown'
  BY <1>1, <1>2 DEF LostIsKnown, maskVars
<1> QED
  BY <1>3, <1>4, <1>5, <1>6, <1>9, <1>10, <1>11, <1>12

LEMMA SetDisabledKeepsInv ==
  ASSUME FiltersInv, NEW e \in Entities, SetDisabled(e)
  PROVE  FiltersInv'
<1> USE DEF FiltersInv
<1>1. Alive' = Alive /\ Authorized' = Authorized
  BY DEF Typed, SetDisabled, Alive, Authorized, clientVars
<1>2. UNCHANGED <<bits, running, filters, despawns, clientVars, maskVars, tracked, manual, missed>>
  BY DEF SetDisabled
<1>3. Typed'
  BY <1>2 DEF Typed, SetDisabled, clientVars, maskVars
<1>4. BitsUnique' /\ MasksFit'
  BY <1>1, <1>2 DEF BitsUnique, MasksFit, IsMask, maskVars
<1>5. Absent'
  <2>1. \A x \in Entities : \/ entities'[x] = entities[x]
                           \/ {entities[x], entities'[x]} \subseteq {"Alive", "Disabled"}
    BY DEF SetDisabled, Typed, Alive
  <2> QED
    BY <1>1, <1>2, <2>1 DEF Absent, missed
<1>6. BitsFollowFilters' /\ ManualBits' /\ Unfiltered'
  BY <1>1, <1>2 DEF BitsFollowFilters, Hides, Denied, ManualBits, Unfiltered, clientVars, maskVars, missed
<1>7. LostIsKnown'
  BY <1>1, <1>2 DEF LostIsKnown, maskVars
<1> QED
  BY <1>3, <1>4, <1>5, <1>6, <1>7

\* The masks of a despawned entity wait for the send.
LEMMA DespawnKeepsInv ==
  ASSUME FiltersInv, NEW e \in Entities, DespawnEntity(e)
  PROVE  FiltersInv'
<1> USE DEF FiltersInv
<1>1. /\ Alive' = Alive \ {e} /\ Authorized' = Authorized /\ e \in Alive
      /\ Alive' \cup despawns' = Alive \cup despawns
  BY DEF Typed, DespawnEntity, Alive, Authorized, clientVars
<1>2. UNCHANGED <<bits, running, clientVars, maskVars, tracked, manual>>
  BY DEF DespawnEntity
<1>3. Typed'
  BY <1>2 DEF Typed, DespawnEntity, clientVars, maskVars
<1>4. BitsUnique' /\ MasksFit'
  BY <1>1, <1>2 DEF BitsUnique, MasksFit, IsMask, maskVars
<1>5. \A x \in Entities : x # e => entities'[x] = entities[x] /\ filters'[x] = filters[x]
  BY DEF DespawnEntity, Typed
<1>6. entities'[e] = "Dead" /\ \A f \in Filters : filters'[e][f] = None
  BY DEF DespawnEntity, Typed
<1>7. Absent'
  <2>1. despawns' \subseteq {x \in Entities : entities'[x] = "Dead"}
    BY <1>5, <1>6 DEF Absent, DespawnEntity
  <2>2. \A x \in Entities \ Alive', f \in Filters : filters'[x][f] = None
    BY <1>1, <1>5, <1>6 DEF Absent
  <2>3. manual \subseteq Authorized \X {x \in Entities : entities'[x] # "Unborn"} \X Scopes
    BY <1>5, <1>6 DEF Absent
  <2>4. unevaluated' \subseteq Authorized' \X Alive' \X Filters /\ stale' \subseteq Clients \X Alive' \X Filters
    BY <1>1 DEF Absent, DespawnEntity
  <2> QED
    BY <1>1, <1>2, <2>1, <2>2, <2>3, <2>4 DEF Absent
<1>8. BitsFollowFilters' /\ ManualBits' /\ Unfiltered'
  <2>1. BitsFollowFilters'
    <3>1. \A c \in Clients, x \in Entities, f \in Filters :
            x # e => /\ <<c, x, f>> \in unevaluated' <=> <<c, x, f>> \in unevaluated
                     /\ <<c, x, f>> \in stale' <=> <<c, x, f>> \in stale
      BY DEF DespawnEntity
    <3>2. ASSUME NEW c \in Authorized', NEW x \in Alive', NEW f \in Filters
          PROVE  <<c, x, f>> \in stale' \/ (bits'[f] \in MaskOf(hidden'[c], x) <=> Hides(c, x, f)')
      <4>1. c \in Authorized /\ c \in Clients /\ x \in Alive /\ x \in Entities /\ x # e
        BY <1>1 DEF Alive, Authorized
      <4>2. Hides(c, x, f)' <=> Hides(c, x, f)
        BY <1>2, <1>5, <3>1, <4>1 DEF Hides, Denied, IsVisible, clientVars
      <4>3. MaskOf(hidden'[c], x) = MaskOf(hidden[c], x) /\ bits' = bits
        BY <1>2 DEF maskVars
      <4> QED
        BY <3>1, <4>1, <4>2, <4>3 DEF BitsFollowFilters
    <3> QED
      BY <3>2 DEF BitsFollowFilters
  <2>2. ManualBits' /\ Unfiltered'
    BY <1>1, <1>2, <1>5 DEF ManualBits, Unfiltered, clientVars, maskVars, Alive
  <2> QED
    BY <2>1, <2>2
<1>9. LostIsKnown'
  BY <1>1, <1>2 DEF LostIsKnown, maskVars
<1> QED
  BY <1>3, <1>4, <1>7, <1>8, <1>9

\* An observer with one decision per client changes that bit alone.
IsSingle(D, one, e, b) ==
  \A c \in DOMAIN D : /\ one[c] \in D[c] /\ (\A d \in D[c] : d = one[c])
                      /\ one[c] \in Decision /\ one[c].entity = e /\ one[c].bit = b
IsDecided(D, one, e, f) ==
  \A c \in DOMAIN D, x \in Entities, g \in Filters \cup Scopes :
    /\ x = e /\ g = f => (bits[g] \in MaskOf(hidden'[c], x) <=> one[c].visible = FALSE)
    /\ ~(x = e /\ g = f) => (bits[g] \in MaskOf(hidden'[c], x) <=> bits[g] \in MaskOf(hidden[c], x))

LEMMA OneDecided ==
  ASSUME FiltersInv, running, NEW e \in Alive, NEW f \in Filters \cup Scopes, NEW one,
         NEW D, DOMAIN D \subseteq Authorized, Observe(D), IsSingle(D, one, e, bits[f])
  PROVE  (\A c \in DOMAIN D : D[c] \in SUBSET Decision) /\ IsDecided(D, one, e, f)
<1> USE DEF IsSingle
<1>1. Authorized \subseteq Clients /\ e \in Entities
  BY DEF Authorized, Alive
<1>2. \A c \in DOMAIN D : D[c] \in SUBSET Decision
  OBVIOUS
<1> SUFFICES ASSUME NEW c \in DOMAIN D, NEW x \in Entities, NEW g \in Filters \cup Scopes
             PROVE  /\ x = e /\ g = f => (bits[g] \in MaskOf(hidden'[c], x) <=> one[c].visible = FALSE)
                    /\ ~(x = e /\ g = f) => (bits[g] \in MaskOf(hidden'[c], x) <=> bits[g] \in MaskOf(hidden[c], x))
  BY <1>2 DEF IsDecided
<1> DEFINE d == one[c]
           mine == D[c]
           mask == MaskOf(hidden[c], x)
           b == bits[g]
<1>3. d.visible \in BOOLEAN /\ d \in mine /\ (\A y \in mine : y = d) /\ d.entity = e /\ d.bit = bits[f]
  BY DEF Decision
<1>4. MaskOf(hidden'[c], x) = SetBits(mask, mine, x)
  BY <1>1, <1>2, Observed DEF FiltersInv
<1> HIDE DEF d, mine, mask, b
<1>5. /\ x = e /\ b = bits[f] => (b \in SetBits(mask, mine, x) <=> d.visible = FALSE)
      /\ ~(x = e /\ b = bits[f]) => (b \in SetBits(mask, mine, x) <=> b \in mask)
  <2>1. d \in mine /\ (\A y \in mine : y = d) /\ d.visible \in BOOLEAN
    BY <1>3
  <2>2. /\ x = d.entity /\ b = d.bit => (b \in SetBits(mask, mine, x) <=> d.visible = FALSE)
        /\ ~(x = d.entity /\ b = d.bit) => (b \in SetBits(mask, mine, x) <=> b \in mask)
    BY <2>1, OneBit
  <2>3. d.entity = e /\ d.bit = bits[f]
    BY <1>3
  <2> QED
    BY <2>2, <2>3
<1>6. bits[g] = bits[f] => g = f
  BY DifferentBits DEF FiltersInv
<1> QED
  BY <1>4, <1>5, <1>6 DEF d, mask, b

\* What an action with an observer leaves to be shown: who is authorized and
\* which entities exist does not change.
LEMMA ObserverKeepsRest ==
  ASSUME FiltersInv, NEW D, DOMAIN D \subseteq Authorized, \A c \in DOMAIN D : D[c] \in SUBSET Decision,
         Observe(D), UNCHANGED <<bits, running, entities, despawns, clients, tracked>>,
         filters' \in [Entities -> [Filters -> Values \cup {None}]],
         values' \in [Clients -> [Filters -> Values \cup {None}]]
  PROVE  Typed' /\ BitsUnique' /\ MasksFit' /\ LostIsKnown' /\ Alive' = Alive /\ Authorized' = Authorized
<1>1. Alive' = Alive /\ Authorized' = Authorized /\ Authorized \subseteq Clients
  BY DEF Alive, Authorized
<1>2. MasksFit' /\ (hidden = [c \in Clients |-> hidden[c]] /\ lost = [c \in Clients |-> lost[c]])'
  BY <1>1, ObserveKeepsMasks DEF FiltersInv
<1>3. Typed' /\ BitsUnique'
  BY <1>2 DEF FiltersInv, Typed, BitsUnique
<1>4. LostIsKnown'
  <2>1. \A c \in Clients, e \in Entities :
          MaskOf(hidden[c], e) \subseteq MaskOf(lost[c], e)
            => MaskOf(hidden'[c], e) \subseteq MaskOf(lost'[c], e)
    BY <1>1, Observed DEF FiltersInv
  <2>2. \A c \in Clients : tracked[c] \subseteq Entities
    BY DEF FiltersInv, Typed
  <2> QED
    BY <1>1, <2>1, <2>2 DEF FiltersInv, LostIsKnown
<1> QED
  BY <1>1, <1>2, <1>3, <1>4

LEMMA InsertFilterKeepsInv ==
  ASSUME FiltersInv, NEW e \in Entities, NEW f \in Filters, NEW v \in Values, InsertFilter(e, f, v)
  PROVE  FiltersInv'
<1> DEFINE one == [c \in Authorized |-> [entity |-> e, bit |-> bits[f], visible |-> IsVisible(f, v, values[c][f])]]
           D == [c \in Authorized |-> {[entity |-> e, bit |-> bits[f], visible |-> IsVisible(f, v, values[c][f])]}]
<1>1. running /\ e \in Alive /\ Observe(D) /\ DOMAIN D = Authorized
  BY DEF InsertFilter, Step
<1>2. UNCHANGED <<bits, running, entities, despawns, clients, values, tracked, manual>>
  BY DEF InsertFilter, clientVars
<1>3. /\ \A x \in Entities, g \in Filters : filters'[x][g] = IF x = e /\ g = f THEN v ELSE filters[x][g]
      /\ filters' \in [Entities -> [Filters -> Values \cup {None}]]
  BY DEF InsertFilter, FiltersInv, Typed
<1>4. unevaluated' = WithoutFilter(unevaluated, e, f) /\ stale' = WithoutFilter(stale, e, f)
  BY DEF InsertFilter
<1>5. /\ \A c \in Authorized : D[c] \in SUBSET Decision
      /\ \A c \in Authorized, x \in Entities, g \in Filters \cup Scopes :
           bits[g] \in MaskOf(hidden'[c], x) <=>
             IF x = e /\ g = f THEN ~IsVisible(f, v, values[c][f]) ELSE bits[g] \in MaskOf(hidden[c], x)
  <2>1. bits[f] \in Range(bits)
    BY <1>1 DEF FiltersInv, Typed, Range
  <2>2. \A c \in Authorized : /\ one[c] \in D[c] /\ (\A d \in D[c] : d = one[c]) /\ one[c] \in Decision
                              /\ one[c].entity = e /\ one[c].bit = bits[f]
    BY <1>1, <2>1 DEF Decision, IsVisible
  <2>3. ASSUME NEW c \in Authorized PROVE one[c].visible = FALSE <=> ~IsVisible(f, v, values[c][f])
    <3>1. one[c].visible = IsVisible(f, v, values[c][f])
      OBVIOUS
    <3>2. IsVisible(f, v, values[c][f]) \in BOOLEAN
      BY DEF IsVisible
    <3> HIDE DEF one
    <3> QED
      BY <3>1, <3>2, Zenon
  <2> HIDE DEF D, one
  <2>4. IsSingle(D, one, e, bits[f])
    BY <1>1, <2>2 DEF IsSingle
  <2>5. DOMAIN D \subseteq Authorized /\ f \in Filters \cup Scopes
    BY <1>1
  <2>6. (\A c \in DOMAIN D : D[c] \in SUBSET Decision) /\ IsDecided(D, one, e, f)
    BY <1>1, <2>4, <2>5, OneDecided
  <2> QED
    BY <1>1, <2>3, <2>6 DEF IsDecided
<1> HIDE DEF D
<1>6. Typed' /\ BitsUnique' /\ MasksFit' /\ LostIsKnown' /\ Alive' = Alive /\ Authorized' = Authorized
  BY <1>1, <1>2, <1>3, <1>5, ObserverKeepsRest DEF FiltersInv, Typed
<1>7. Absent'
  <2>1. \A x \in Entities \ Alive, g \in Filters : filters'[x][g] = None
    BY <1>1, <1>3 DEF FiltersInv, Absent
  <2>2. unevaluated' \subseteq unevaluated /\ stale' \subseteq stale
    BY <1>4 DEF WithoutFilter
  <2> QED
    BY <1>2, <1>6, <2>1, <2>2 DEF FiltersInv, Absent
<1>8. Alive \subseteq Entities
  BY DEF Alive
<1>9. BitsFollowFilters'
  <2>1. ASSUME NEW c \in Authorized, NEW x \in Alive, NEW g \in Filters
        PROVE  <<c, x, g>> \in stale' \/ (bits[g] \in MaskOf(hidden'[c], x) <=> Hides(c, x, g)')
    <3>1. CASE x = e /\ g = f
      <4>1. Denied(c, x, g)' <=> v # None /\ ~IsVisible(f, v, values[c][f])
        BY <1>2, <1>3, <1>8, <3>1 DEF Denied, IsVisible
      <4>2. v # None
        BY FiltersAssumption
      <4>3. <<c, x, g>> \notin unevaluated'
        BY <1>4, <3>1 DEF WithoutFilter
      <4> QED
        BY <1>5, <1>8, <3>1, <4>1, <4>2, <4>3 DEF Hides
    <3>2. CASE ~(x = e /\ g = f)
      <4>1. Denied(c, x, g)' <=> Denied(c, x, g)
        BY <1>2, <1>3, <1>8, <3>2 DEF Denied, IsVisible
      <4>2. /\ <<c, x, g>> \in unevaluated' <=> <<c, x, g>> \in unevaluated
            /\ <<c, x, g>> \in stale' <=> <<c, x, g>> \in stale
        BY <1>4, <3>2 DEF WithoutFilter
      <4>3. Hides(c, x, g)' <=> Hides(c, x, g)
        BY <4>1, <4>2 DEF Hides
      <4> QED
        BY <1>5, <1>8, <3>2, <4>2, <4>3 DEF FiltersInv, BitsFollowFilters
    <3> QED
      BY <3>1, <3>2
  <2> QED
    BY <1>2, <1>6, <2>1 DEF BitsFollowFilters
<1>10. ManualBits'
  <2>1. \A s \in Scopes : s # f
    BY FiltersAssumption
  <2> QED
    BY <1>2, <1>5, <1>6, <1>8, <2>1 DEF FiltersInv, ManualBits
<1>11. Unfiltered'
  <2>1. v # None
    BY FiltersAssumption
  <2> QED
    BY <1>2, <1>3, <1>5, <1>6, <1>8, <2>1 DEF FiltersInv, Unfiltered
<1> QED
  BY <1>6, <1>7, <1>9, <1>10, <1>11 DEF FiltersInv

LEMMA RemoveFilterKeepsInv ==
  ASSUME FiltersInv, NEW e \in Entities, NEW f \in Filters, RemoveFilter(e, f)
  PROVE  FiltersInv'
<1> DEFINE one == [c \in Authorized |-> [entity |-> e, bit |-> bits[f], visible |-> TRUE]]
           D == [c \in Authorized |-> ShownWithout(e, f)]
<1>1. running /\ e \in Alive /\ Observe(D) /\ DOMAIN D = Authorized
  BY DEF RemoveFilter, Step
<1>2. UNCHANGED <<bits, running, entities, despawns, clients, values, tracked, manual>>
  BY DEF RemoveFilter, clientVars
<1>3. /\ \A x \in Entities, g \in Filters : filters'[x][g] = IF x = e /\ g = f THEN None ELSE filters[x][g]
      /\ filters' \in [Entities -> [Filters -> Values \cup {None}]]
  BY DEF RemoveFilter, FiltersInv, Typed
<1>4. unevaluated' = WithoutFilter(unevaluated, e, f) /\ stale' = WithoutFilter(stale, e, f)
  BY DEF RemoveFilter
<1>5. /\ \A c \in Authorized : D[c] \in SUBSET Decision
      /\ \A c \in Authorized, x \in Entities, g \in Filters \cup Scopes :
           bits[g] \in MaskOf(hidden'[c], x) <=> ~(x = e /\ g = f) /\ bits[g] \in MaskOf(hidden[c], x)
  <2>1. bits[f] \in Range(bits)
    BY <1>1 DEF FiltersInv, Typed, Range
  <2>2. \A c \in Authorized : /\ one[c] \in D[c] /\ (\A d \in D[c] : d = one[c]) /\ one[c] \in Decision
                              /\ one[c].entity = e /\ one[c].bit = bits[f] /\ one[c].visible = TRUE
    BY <1>1, <2>1 DEF Decision, ShownWithout
  <2> HIDE DEF D, one
  <2>3. IsSingle(D, one, e, bits[f])
    BY <1>1, <2>2 DEF IsSingle
  <2>4. DOMAIN D \subseteq Authorized /\ f \in Filters \cup Scopes
    BY <1>1
  <2>5. (\A c \in DOMAIN D : D[c] \in SUBSET Decision) /\ IsDecided(D, one, e, f)
    BY <1>1, <2>3, <2>4, OneDecided
  <2> QED
    BY <1>1, <2>2, <2>5 DEF IsDecided
<1> HIDE DEF D
<1>6. Typed' /\ BitsUnique' /\ MasksFit' /\ LostIsKnown' /\ Alive' = Alive /\ Authorized' = Authorized
  BY <1>1, <1>2, <1>3, <1>5, ObserverKeepsRest DEF FiltersInv, Typed
<1>7. Absent'
  <2>1. \A x \in Entities \ Alive, g \in Filters : filters'[x][g] = None
    BY <1>1, <1>3 DEF FiltersInv, Absent
  <2>2. unevaluated' \subseteq unevaluated /\ stale' \subseteq stale
    BY <1>4 DEF WithoutFilter
  <2> QED
    BY <1>2, <1>6, <2>1, <2>2 DEF FiltersInv, Absent
<1>8. Alive \subseteq Entities
  BY DEF Alive
<1>9. BitsFollowFilters'
  <2>1. ASSUME NEW c \in Authorized, NEW x \in Alive, NEW g \in Filters
        PROVE  <<c, x, g>> \in stale' \/ (bits[g] \in MaskOf(hidden'[c], x) <=> Hides(c, x, g)')
    <3>1. CASE x = e /\ g = f
      <4>1. ~Hides(c, x, g)'
        BY <1>3, <1>8, <3>1 DEF Hides, Denied
      <4> QED
        BY <1>5, <1>8, <3>1, <4>1
    <3>2. CASE ~(x = e /\ g = f)
      <4>1. Denied(c, x, g)' <=> Denied(c, x, g)
        BY <1>2, <1>3, <1>8, <3>2 DEF Denied, IsVisible
      <4>2. /\ <<c, x, g>> \in unevaluated' <=> <<c, x, g>> \in unevaluated
            /\ <<c, x, g>> \in stale' <=> <<c, x, g>> \in stale
        BY <1>4, <3>2 DEF WithoutFilter
      <4>3. Hides(c, x, g)' <=> Hides(c, x, g)
        BY <4>1, <4>2 DEF Hides
      <4> QED
        BY <1>5, <1>8, <3>2, <4>2, <4>3 DEF FiltersInv, BitsFollowFilters
    <3> QED
      BY <3>1, <3>2
  <2> QED
    BY <1>2, <1>6, <2>1 DEF BitsFollowFilters
<1>10. ManualBits'
  <2>1. \A s \in Scopes : s # f
    BY FiltersAssumption
  <2> QED
    BY <1>2, <1>5, <1>6, <1>8, <2>1 DEF FiltersInv, ManualBits
<1>11. Unfiltered'
  BY <1>2, <1>3, <1>5, <1>6, <1>8 DEF FiltersInv, Unfiltered
<1> QED
  BY <1>6, <1>7, <1>9, <1>10, <1>11 DEF FiltersInv

\* The app's scopes have bits of their own.
LEMMA SetManuallyKeepsInv ==
  ASSUME FiltersInv, NEW c \in Clients, NEW e \in Entities, NEW s \in Scopes, SetManually(c, e, s)
  PROVE  FiltersInv'
<1> DEFINE visible == <<c, e, s>> \in manual
           one == [visited \in {c} |-> [entity |-> e, bit |-> bits[s], visible |-> visible]]
           D == [visited \in {c} |-> {[entity |-> e, bit |-> bits[s], visible |-> visible]}]
<1>1. running /\ c \in Authorized /\ e \in Alive /\ Observe(D) /\ DOMAIN D = {c}
  BY DEF SetManually, Step
<1>2. UNCHANGED <<bits, running, entities, filters, despawns, clients, values, tracked, missed>>
  BY DEF SetManually, clientVars, entityVars
<1>3. manual' = IF visible THEN manual \ {<<c, e, s>>} ELSE manual \cup {<<c, e, s>>}
  BY DEF SetManually
<1>4. /\ \A a \in DOMAIN D : D[a] \in SUBSET Decision
      /\ \A x \in Entities, g \in Filters \cup Scopes :
           /\ x = e /\ g = s => (bits[g] \in MaskOf(hidden'[c], x) <=> ~visible)
           /\ ~(x = e /\ g = s) => (bits[g] \in MaskOf(hidden'[c], x) <=> bits[g] \in MaskOf(hidden[c], x))
  <2>1. bits[s] \in Range(bits)
    BY <1>1 DEF FiltersInv, Typed, Range
  <2>2. \A a \in {c} : /\ one[a] \in D[a] /\ (\A d \in D[a] : d = one[a]) /\ one[a] \in Decision
                       /\ one[a].entity = e /\ one[a].bit = bits[s]
    BY <1>1, <2>1 DEF Decision
  <2>3. one[c].visible = FALSE <=> ~visible
    <3>1. one[c].visible = visible /\ visible \in BOOLEAN
      OBVIOUS
    <3> HIDE DEF one, visible
    <3> QED
      BY <3>1, Zenon
  <2> HIDE DEF D, one, visible
  <2>4. IsSingle(D, one, e, bits[s])
    BY <1>1, <2>2 DEF IsSingle
  <2>5. DOMAIN D \subseteq Authorized /\ s \in Filters \cup Scopes
    BY <1>1
  <2>6. (\A a \in DOMAIN D : D[a] \in SUBSET Decision) /\ IsDecided(D, one, e, s)
    BY <1>1, <2>4, <2>5, OneDecided
  <2> QED
    BY <1>1, <2>3, <2>6 DEF IsDecided
<1> HIDE DEF D
<1>5. Typed' /\ BitsUnique' /\ MasksFit' /\ LostIsKnown' /\ Alive' = Alive /\ Authorized' = Authorized
  BY <1>1, <1>2, <1>4, ObserverKeepsRest DEF FiltersInv, Typed
<1>6. \A a \in Authorized \ {c} : hidden'[a] = hidden[a]
  BY <1>1, <1>4, Observed DEF FiltersInv, Authorized
<1>7. Alive \subseteq Entities
  BY DEF Alive
<1>8. Absent'
  <2>1. manual' \subseteq Authorized \X {x \in Entities : entities[x] # "Unborn"} \X Scopes
    BY <1>1, <1>3 DEF FiltersInv, Absent, Alive
  <2> QED
    BY <1>2, <1>5, <2>1 DEF FiltersInv, Absent, missed
<1>9. \A f \in Filters : f # s
  BY FiltersAssumption
<1>10. ASSUME NEW a \in Authorized, NEW x \in Alive, NEW f \in Filters
       PROVE  bits[f] \in MaskOf(hidden'[a], x) <=> bits[f] \in MaskOf(hidden[a], x)
  BY <1>4, <1>6, <1>7, <1>9
<1>11. BitsFollowFilters' /\ Unfiltered'
  <2>1. ASSUME NEW a \in Authorized, NEW x \in Alive, NEW f \in Filters
        PROVE  (Hides(a, x, f)' <=> Hides(a, x, f)) /\ stale' = stale
    BY <1>2 DEF Hides, Denied, IsVisible, missed
  <2> QED
    BY <1>2, <1>5, <1>10, <2>1 DEF FiltersInv, BitsFollowFilters, Unfiltered
<1>12. ManualBits'
  <2>1. ASSUME NEW a \in Authorized, NEW x \in Alive, NEW t \in Scopes
        PROVE  bits[t] \in MaskOf(hidden'[a], x) <=> <<a, x, t>> \in manual'
    <3>1. CASE a = c /\ x = e /\ t = s
      BY <1>3, <1>4, <1>7, <3>1
    <3>2. CASE ~(a = c /\ x = e /\ t = s)
      <4>1. <<a, x, t>> \in manual' <=> <<a, x, t>> \in manual
        BY <1>3, <3>2
      <4>2. bits[t] \in MaskOf(hidden'[a], x) <=> bits[t] \in MaskOf(hidden[a], x)
        BY <1>4, <1>6, <1>7, <3>2
      <4> QED
        BY <4>1, <4>2 DEF FiltersInv, ManualBits
    <3> QED
      BY <3>1, <3>2
  <2> QED
    BY <1>2, <1>5, <2>1 DEF ManualBits
<1> QED
  BY <1>5, <1>8, <1>11, <1>12 DEF FiltersInv

-----------------------------------------------------------------------------
(* Clients.                                                                *)

LEMMA ConnectKeepsInv ==
  ASSUME FiltersInv, NEW c \in Clients, Connect(c)
  PROVE  FiltersInv'
<1>1. Alive' = Alive /\ Authorized' = Authorized
  BY DEF FiltersInv, Typed, Connect, Alive, Authorized, entityVars
<1>2. UNCHANGED <<bits, running, entityVars, values, maskVars, tracked, manual, missed>>
  BY DEF Connect
<1>3. Typed'
  BY <1>2 DEF FiltersInv, Typed, Connect, entityVars, maskVars
<1>4. BitsUnique' /\ MasksFit' /\ Absent'
  BY <1>1, <1>2 DEF FiltersInv, BitsUnique, MasksFit, IsMask, Absent, entityVars, maskVars, missed
<1>5. BitsFollowFilters' /\ ManualBits' /\ Unfiltered' /\ LostIsKnown'
  BY <1>1, <1>2 DEF FiltersInv, BitsFollowFilters, Hides, Denied, ManualBits, Unfiltered, LostIsKnown,
                        entityVars, maskVars, missed
<1> QED
  BY <1>3, <1>4, <1>5 DEF FiltersInv

\* A client takes everything kept about it along.
LEMMA DisconnectKeepsInv ==
  ASSUME FiltersInv, NEW c \in Clients, Disconnect(c)
  PROVE  FiltersInv'
<1>1. Alive' = Alive /\ Authorized' = Authorized \ {c}
  BY DEF FiltersInv, Typed, Disconnect, Alive, Authorized, entityVars
<1>2. /\ UNCHANGED <<bits, running, entities, filters, despawns>>
      /\ \A a \in Clients \ {c} : hidden'[a] = hidden[a] /\ lost'[a] = lost[a] /\ values'[a] = values[a]
      /\ hidden'[c] = <<>> /\ lost'[c] = <<>>
  BY DEF FiltersInv, Typed, Disconnect, entityVars
<1>3. Typed'
  <2>1. values' \in [Clients -> [Filters -> Values \cup {None}]]
    BY DEF FiltersInv, Typed, Disconnect
  <2>2. hidden' = [a \in Clients |-> hidden'[a]] /\ lost' = [a \in Clients |-> lost'[a]]
    BY DEF FiltersInv, Typed, Disconnect
  <2>3. clients' \in [Clients -> {"Gone", "Connected", "Authorized"}] /\ tracked' \in [Clients -> SUBSET Entities]
    BY DEF FiltersInv, Typed, Disconnect
  <2> QED
    BY <1>2, <2>1, <2>2, <2>3 DEF FiltersInv, Typed
<1>4. BitsUnique'
  BY <1>2 DEF FiltersInv, BitsUnique
<1>5. MasksFit'
  <2>1. ASSUME NEW a \in Clients \ {c}
        PROVE  /\ IsMask(hidden[a])' /\ IsMask(lost[a])'
               /\ a \notin Authorized' => DOMAIN hidden'[a] = {} /\ DOMAIN lost'[a] = {}
    BY <1>1, <1>2 DEF FiltersInv, MasksFit, IsMask
  <2>2. /\ IsMask(hidden[c])' /\ IsMask(lost[c])'
        /\ DOMAIN hidden'[c] = {} /\ DOMAIN lost'[c] = {}
    BY <1>2 DEF IsMask
  <2> QED
    BY <2>1, <2>2 DEF MasksFit
<1>6. Absent'
  <2>1. /\ manual' = {t \in manual : t[1] # c}
        /\ unevaluated' = {t \in unevaluated : t[1] # c} /\ stale' \subseteq stale
    BY DEF Disconnect
  <2>2. manual' \subseteq Authorized' \X {e \in Entities : entities[e] # "Unborn"} \X Scopes
    BY <1>1, <2>1 DEF FiltersInv, Absent
  <2>3. unevaluated' \subseteq Authorized' \X Alive \X Filters
    BY <1>1, <2>1 DEF FiltersInv, Absent
  <2> QED
    BY <1>1, <1>2, <2>1, <2>2, <2>3 DEF FiltersInv, Absent
<1>7. ASSUME NEW a \in Authorized \ {c}, NEW e, NEW f
      PROVE  <<a, e, f>> \in manual' <=> <<a, e, f>> \in manual
  BY DEF Disconnect
<1>8. ASSUME NEW a \in Authorized \ {c}, NEW e, NEW f
      PROVE  /\ <<a, e, f>> \in unevaluated' <=> <<a, e, f>> \in unevaluated
             /\ <<a, e, f>> \in stale' <=> <<a, e, f>> \in stale
  BY DEF Disconnect
<1>9. Authorized \subseteq Clients
  BY DEF Authorized
<1>10. BitsFollowFilters'
  <2> SUFFICES ASSUME NEW a \in Authorized \ {c}, NEW e \in Alive, NEW f \in Filters
               PROVE  <<a, e, f>> \in stale' \/ (bits'[f] \in MaskOf(hidden'[a], e) <=> Hides(a, e, f)')
    BY <1>1 DEF BitsFollowFilters
  <2>1. /\ bits' = bits /\ filters' = filters
        /\ hidden'[a] = hidden[a] /\ values'[a] = values[a]
    BY <1>2, <1>9
  <2>2. Hides(a, e, f)' <=> Hides(a, e, f)
    BY <1>8, <2>1 DEF Hides, Denied
  <2>3. <<a, e, f>> \in stale \/ (bits[f] \in MaskOf(hidden[a], e) <=> Hides(a, e, f))
    BY DEF FiltersInv, BitsFollowFilters
  <2> QED
    BY <1>8, <2>1, <2>2, <2>3
<1>11. ManualBits' /\ Unfiltered'
  BY <1>1, <1>2, <1>7, <1>9 DEF FiltersInv, ManualBits, Unfiltered
<1>12. LostIsKnown'
  <2>1. tracked'[c] = {} /\ \A a \in Clients \ {c} : tracked'[a] = tracked[a]
    BY DEF FiltersInv, Typed, Disconnect
  <2> QED
    BY <1>1, <1>2, <2>1 DEF FiltersInv, LostIsKnown
<1> QED
  BY <1>3, <1>4, <1>5, <1>6, <1>10, <1>11, <1>12 DEF FiltersInv

\* The client's component decides the filters of the enabled entities; the
\* bits of the disabled ones, unless they never were evaluated, are now stale.
LEMMA SetClientComponentKeepsInv ==
  ASSUME FiltersInv, NEW c \in Clients, NEW f \in Filters, NEW v \in Values \cup {None},
         SetClientComponent(c, f, v)
  PROVE  FiltersInv'
<1>1. UNCHANGED <<bits, running, entities, filters, despawns, clients, tracked, manual>>
  BY DEF SetClientComponent, entityVars
<1>2. /\ values' \in [Clients -> [Filters -> Values \cup {None}]]
      /\ \A a \in Clients, g \in Filters : values'[a][g] = IF a = c /\ g = f THEN v ELSE values[a][g]
  BY DEF SetClientComponent, FiltersInv, Typed
<1>3. Authorized \subseteq Clients /\ Alive \subseteq Entities
  BY DEF Authorized, Alive
<1>4. CASE c \notin Authorized
  <2>1. UNCHANGED <<maskVars, missed>>
    BY <1>4 DEF SetClientComponent
  <2>2. Alive' = Alive /\ Authorized' = Authorized
    BY <1>1 DEF Alive, Authorized
  <2>3. Typed' /\ BitsUnique' /\ MasksFit' /\ Absent' /\ LostIsKnown'
    BY <1>1, <1>2, <2>1, <2>2 DEF FiltersInv, Typed, BitsUnique, MasksFit, IsMask, Absent, LostIsKnown, maskVars, missed
  <2>4. \A a \in Authorized, x \in Alive, g \in Filters : Hides(a, x, g)' <=> Hides(a, x, g)
    BY <1>1, <1>2, <1>3, <1>4, <2>1 DEF Hides, Denied, IsVisible, missed
  <2>5. BitsFollowFilters' /\ ManualBits' /\ Unfiltered'
    BY <1>1, <2>1, <2>2, <2>4 DEF FiltersInv, BitsFollowFilters, ManualBits, Unfiltered, maskVars, missed
  <2> QED
    BY <2>3, <2>5 DEF FiltersInv
<1>5. CASE c \in Authorized
  <2> DEFINE D == [visited \in {c} |-> Decide(f, v)]
  <2>1. running /\ Observe(D) /\ DOMAIN D = {c} /\ D[c] = Decide(f, v)
    BY <1>5 DEF SetClientComponent, Step
  <2>2. /\ unevaluated' = Unreached(unevaluated, c, f)
        /\ stale' = Unreached(stale, c, f) \cup ({<<c, e, f>> : e \in Passed(f)} \ unevaluated)
    BY <1>5 DEF SetClientComponent
  <2> HIDE DEF D
  <2>3. \A a \in DOMAIN D : D[a] \in SUBSET Decision
    BY <2>1, DecideType DEF FiltersInv
  <2>4. Typed' /\ BitsUnique' /\ MasksFit' /\ LostIsKnown' /\ Alive' = Alive /\ Authorized' = Authorized
    BY <1>1, <1>2, <1>5, <2>1, <2>3, ObserverKeepsRest DEF FiltersInv, Typed
  <2>5. \A a \in Authorized \ {c} : hidden'[a] = hidden[a]
    BY <1>3, <2>1, <2>3, Observed DEF FiltersInv
  <2>6. ASSUME NEW x \in Entities, NEW g \in Filters \cup Scopes
        PROVE  bits[g] \in MaskOf(hidden'[c], x) <=>
                 IF g = f /\ x \in Evaluated(f) THEN ~IsVisible(f, filters[x][f], v)
                 ELSE bits[g] \in MaskOf(hidden[c], x)
    <3>1. MaskOf(hidden'[c], x) = SetBits(MaskOf(hidden[c], x), Decide(f, v), x)
      BY <1>3, <2>1, <2>3, Observed DEF FiltersInv
    <3>2. bits[g] = bits[f] => g = f
      BY <2>1, DifferentBits DEF FiltersInv
    <3> DEFINE mask == MaskOf(hidden[c], x)
               b == bits[g]
    <3> HIDE DEF mask, b
    <3>3. b \in SetBits(mask, Decide(f, v), x) <=>
            IF b = bits[f] /\ x \in Evaluated(f) THEN ~IsVisible(f, filters[x][f], v) ELSE b \in mask
      BY DecidedBits
    <3> QED
      BY <3>1, <3>2, <3>3 DEF mask, b
  <2>7. Absent'
    <3>1. unevaluated' \subseteq unevaluated /\ stale' \subseteq Clients \X Alive \X Filters
      BY <2>2 DEF FiltersInv, Absent, Unreached, Passed, Alive
    <3> QED
      BY <1>1, <2>4, <3>1 DEF FiltersInv, Absent
  <2>8. BitsFollowFilters'
    <3>1. ASSUME NEW a \in Authorized, NEW x \in Alive, NEW g \in Filters
          PROVE  <<a, x, g>> \in stale' \/ (bits[g] \in MaskOf(hidden'[a], x) <=> Hides(a, x, g)')
      <4>1. CASE a = c /\ g = f /\ x \in Evaluated(f)
        <5>1. Denied(a, x, g)' <=> ~IsVisible(f, filters[x][f], v)
          BY <1>1, <1>2, <1>3, <4>1 DEF Denied, IsVisible, Evaluated
        <5>2. <<a, x, g>> \notin unevaluated'
          BY <2>2, <4>1 DEF Unreached, Evaluated
        <5> QED
          BY <1>3, <2>6, <4>1, <5>1, <5>2 DEF Hides
      <4>2. CASE a = c /\ g = f /\ x \in Passed(f)
        <5>1. <<a, x, g>> \in unevaluated => <<a, x, g>> \in unevaluated'
          BY <2>2, <4>2 DEF Unreached, Passed
        <5>2. <<a, x, g>> \in stale => <<a, x, g>> \in stale'
          BY <2>2, <4>2 DEF Unreached, Passed
        <5>3. CASE <<a, x, g>> \notin unevaluated
          BY <2>2, <4>2, <5>3
        <5>4. CASE <<a, x, g>> \in unevaluated
          <6>1. ~Hides(a, x, g) /\ ~Hides(a, x, g)'
            BY <5>1, <5>4 DEF Hides
          <6>2. bits[g] \in MaskOf(hidden'[a], x) <=> bits[g] \in MaskOf(hidden[a], x)
            BY <1>3, <2>6, <4>2 DEF Evaluated, Passed
          <6> QED
            BY <5>2, <6>1, <6>2 DEF FiltersInv, BitsFollowFilters
        <5> QED
          BY <5>3, <5>4
      <4>3. CASE a = c /\ g = f /\ x \notin Evaluated(f) /\ x \notin Passed(f)
        <5>1. filters[x][g] = None
          BY <4>3 DEF Evaluated, Passed, Alive
        <5>2. ~Hides(a, x, g)'
          BY <1>1, <5>1 DEF Hides, Denied
        <5>3. bits[g] \notin MaskOf(hidden'[a], x)
          BY <1>3, <2>6, <4>3, <5>1 DEF FiltersInv, Unfiltered
        <5> QED
          BY <5>2, <5>3
      <4>4. CASE ~(a = c /\ g = f)
        <5>1. Denied(a, x, g)' <=> Denied(a, x, g)
          BY <1>1, <1>2, <1>3, <4>4 DEF Denied, IsVisible
        <5>2. /\ <<a, x, g>> \in unevaluated' <=> <<a, x, g>> \in unevaluated
              /\ <<a, x, g>> \in stale' <=> <<a, x, g>> \in stale
          BY <2>2, <4>4 DEF Unreached
        <5>3. bits[g] \in MaskOf(hidden'[a], x) <=> bits[g] \in MaskOf(hidden[a], x)
          BY <1>3, <2>5, <2>6, <4>4
        <5>4. Hides(a, x, g)' <=> Hides(a, x, g)
          BY <5>1, <5>2 DEF Hides
        <5> QED
          BY <5>2, <5>3, <5>4 DEF FiltersInv, BitsFollowFilters
      <4> QED
        BY <4>1, <4>2, <4>3, <4>4
    <3> QED
      BY <1>1, <2>4, <3>1 DEF BitsFollowFilters
  <2>9. ManualBits'
    <3>1. \A s \in Scopes : s # f
      BY FiltersAssumption
    <3> QED
      BY <1>1, <1>3, <2>4, <2>5, <2>6, <3>1 DEF FiltersInv, ManualBits
  <2>10. Unfiltered'
    <3>1. \A x \in Evaluated(f) : filters[x][f] # None
      BY DEF Evaluated
    <3> QED
      BY <1>1, <1>3, <2>4, <2>5, <2>6, <3>1 DEF FiltersInv, Unfiltered
  <2> QED
    BY <2>4, <2>7, <2>8, <2>9, <2>10 DEF FiltersInv
<1> QED
  BY <1>4, <1>5

\* The decisions for a new client: one per filter that compares with nothing.
LEMMA NewClientBits ==
  ASSUME FiltersInv, running, NEW c \in Clients, NEW e \in Entities, NEW g \in Filters \cup Scopes
  PROVE  bits[g] \in SetBits({}, ForNewClient(c), e) <=>
           /\ g \in Filters /\ values[c][g] = None
           /\ e \in Evaluated(g) /\ ~IsVisible(g, filters[e][g], None)
<1> DEFINE missing == {f \in Filters : values[c][f] = None}
<1>1. ASSUME NEW b, NEW y \in BOOLEAN
      PROVE  b \in BitsOf(ForNewClient(c), e, y) <=> \E f \in missing : b \in BitsOf(Decide(f, None), e, y)
  BY DEF BitsOf, ForNewClient
<1>2. ASSUME NEW y \in BOOLEAN
      PROVE  bits[g] \in BitsOf(ForNewClient(c), e, y) <=>
               g \in missing /\ e \in Evaluated(g) /\ IsVisible(g, filters[e][g], None) = y
  <2>1. \A f \in missing : bits[g] \in BitsOf(Decide(f, None), e, y) <=>
          bits[g] = bits[f] /\ e \in Evaluated(f) /\ IsVisible(f, filters[e][f], None) = y
    BY DecidedBitsOf
  <2>2. \A f \in missing : bits[g] = bits[f] => g = f
    BY DifferentBits DEF FiltersInv
  <2>3. bits[g] \in BitsOf(ForNewClient(c), e, y) <=> \E f \in missing : bits[g] \in BitsOf(Decide(f, None), e, y)
    BY <1>1
  <2> HIDE DEF missing
  <2> QED
    BY <2>1, <2>2, <2>3
<1>3. IsVisible(g, filters[e][g], None) \in BOOLEAN
  BY DEF IsVisible
<1>4. /\ bits[g] \in BitsOf(ForNewClient(c), e, TRUE) <=>
           g \in missing /\ e \in Evaluated(g) /\ IsVisible(g, filters[e][g], None) = TRUE
      /\ bits[g] \in BitsOf(ForNewClient(c), e, FALSE) <=>
           g \in missing /\ e \in Evaluated(g) /\ IsVisible(g, filters[e][g], None) = FALSE
  BY <1>2
<1> QED
  BY <1>3, <1>4 DEF SetBits

\* A new client starts without masks; filters whose component it has already,
\* and those of disabled entities, are not evaluated.
LEMMA AuthorizeKeepsInv ==
  ASSUME FiltersInv, NEW c \in Clients, Authorize(c)
  PROVE  FiltersInv'
<1> DEFINE D == [visited \in {c} |-> ForNewClient(c)]
<1>1. running /\ Observe(D) /\ DOMAIN D = {c} /\ D[c] = ForNewClient(c)
  BY DEF Authorize, Step
<1> HIDE DEF D
<1>2. UNCHANGED <<bits, running, entities, filters, despawns, values, tracked, manual>>
  BY DEF Authorize, entityVars
<1>3. /\ Alive' = Alive /\ Authorized' = Authorized \cup {c} /\ c \notin Authorized
      /\ Authorized' \subseteq Clients /\ Alive \subseteq Entities
  BY <1>2 DEF Authorize, FiltersInv, Typed, Authorized, Alive
<1>4. \A a \in DOMAIN D : D[a] \in SUBSET Decision
  <2>1. \A f \in Filters : Decide(f, None) \in SUBSET Decision
    BY <1>1, DecideType DEF FiltersInv
  <2> QED
    BY <1>1, <2>1 DEF ForNewClient
<1>5. MasksFit' /\ (hidden = [a \in Clients |-> hidden[a]] /\ lost = [a \in Clients |-> lost[a]])'
  BY <1>1, <1>2, <1>3, <1>4, ObserveKeepsMasks DEF FiltersInv
<1>6. Typed' /\ BitsUnique'
  <2>1. clients' \in [Clients -> {"Gone", "Connected", "Authorized"}]
    BY DEF Authorize, FiltersInv, Typed
  <2> QED
    BY <1>2, <1>5, <2>1 DEF FiltersInv, Typed, BitsUnique
<1>7. LostIsKnown'
  <2>1. \A a \in Clients, e \in Entities :
          MaskOf(hidden[a], e) \subseteq MaskOf(lost[a], e)
            => MaskOf(hidden'[a], e) \subseteq MaskOf(lost'[a], e)
    BY <1>1, <1>4, Observed DEF FiltersInv
  <2>2. \A a \in Clients : tracked[a] \subseteq Entities
    BY DEF FiltersInv, Typed
  <2> QED
    BY <1>2, <1>3, <2>1, <2>2 DEF FiltersInv, LostIsKnown
<1>8. \A a \in Authorized : hidden'[a] = hidden[a]
  BY <1>1, <1>3, <1>4, Observed DEF FiltersInv
<1>9. ASSUME NEW e \in Entities, NEW g \in Filters \cup Scopes
      PROVE  bits[g] \in MaskOf(hidden'[c], e) <=>
               /\ g \in Filters /\ values[c][g] = None
               /\ e \in Evaluated(g) /\ ~IsVisible(g, filters[e][g], None)
  <2>1. MaskOf(hidden[c], e) = {}
    BY <1>3, NoMask DEF FiltersInv
  <2>2. MaskOf(hidden'[c], e) = SetBits(MaskOf(hidden[c], e), D[c], e)
    BY <1>1, <1>4, Observed DEF FiltersInv
  <2>3. MaskOf(hidden'[c], e) = SetBits({}, ForNewClient(c), e)
    BY <1>1, <2>1, <2>2
  <2> QED
    BY <1>1, <2>3, NewClientBits
<1>10. /\ unevaluated' \subseteq Authorized' \X Alive \X Filters /\ stale' = stale
       /\ \A a \in Authorized, e \in Alive, f \in Filters :
            <<a, e, f>> \in unevaluated' <=> <<a, e, f>> \in unevaluated
       /\ \A e \in Alive, f \in Filters :
            <<c, e, f>> \in unevaluated' <=>
              e \in Passed(f) \/ (values[c][f] # None /\ e \in Evaluated(f))
  <2>1. unevaluated' = unevaluated \cup LeftForLater(c)
    BY DEF Authorize
  <2>2. \A f \in Filters : Passed(f) \subseteq Alive /\ Evaluated(f) \subseteq Alive
    BY DEF Passed, Evaluated, Alive
  <2>3. unevaluated \subseteq Authorized \X Alive \X Filters /\ stale' = stale
    BY DEF FiltersInv, Absent, Authorize
  <2>4. ASSUME NEW e \in Alive, NEW f \in Filters
        PROVE  <<c, e, f>> \in LeftForLater(c) <=>
                 e \in Passed(f) \/ (values[c][f] # None /\ e \in Evaluated(f))
    BY <1>3 DEF LeftForLater
  <2>5. LeftForLater(c) \subseteq {c} \X Alive \X Filters
    BY <2>2 DEF LeftForLater
  <2>6. \A e, f : <<c, e, f>> \notin unevaluated
    BY <1>3, <2>3
  <2>7. unevaluated' \subseteq Authorized' \X Alive \X Filters
    BY <1>3, <2>1, <2>3, <2>5
  <2>8. \A a \in Authorized : \A e, f : <<a, e, f>> \notin LeftForLater(c)
    BY <1>3, <2>5
  <2> QED
    BY <2>1, <2>3, <2>4, <2>6, <2>7, <2>8
<1>11. Absent'
  <2>1. manual \subseteq Authorized' \X {e \in Entities : entities[e] # "Unborn"} \X Scopes
    BY <1>3 DEF FiltersInv, Absent
  <2> QED
    BY <1>1, <1>2, <1>3, <1>10, <2>1 DEF FiltersInv, Absent
<1>12. BitsFollowFilters'
  <2>1. ASSUME NEW a \in Authorized', NEW e \in Alive, NEW g \in Filters
        PROVE  <<a, e, g>> \in stale' \/ (bits[g] \in MaskOf(hidden'[a], e) <=> Hides(a, e, g)')
    <3>1. Denied(a, e, g)' <=> Denied(a, e, g)
      BY <1>2 DEF Denied, IsVisible
    <3>2. CASE a \in Authorized
      <4>1. Hides(a, e, g)' <=> Hides(a, e, g)
        BY <1>10, <3>1, <3>2 DEF Hides
      <4> QED
        BY <1>8, <1>10, <3>2, <4>1 DEF FiltersInv, BitsFollowFilters
    <3>3. CASE a = c
      <4>1. /\ e \in Evaluated(g) \/ e \in Passed(g) <=> filters[e][g] # None
            /\ ~(e \in Evaluated(g) /\ e \in Passed(g))
        BY DEF Evaluated, Passed, Alive
      <4>2. Hides(c, e, g)' <=>
              /\ filters[e][g] # None /\ ~IsVisible(g, filters[e][g], values[c][g])
              /\ ~(e \in Passed(g) \/ (values[c][g] # None /\ e \in Evaluated(g)))
        BY <1>10, <3>1, <3>3 DEF Hides, Denied
      <4>3. bits[g] \in MaskOf(hidden'[c], e) <=>
              values[c][g] = None /\ e \in Evaluated(g) /\ ~IsVisible(g, filters[e][g], None)
        BY <1>3, <1>9
      <4>4. bits[g] \in MaskOf(hidden'[c], e) <=>
              /\ filters[e][g] # None /\ ~IsVisible(g, filters[e][g], values[c][g])
              /\ ~(e \in Passed(g) \/ (values[c][g] # None /\ e \in Evaluated(g)))
        <5>1. CASE values[c][g] # None
          BY <4>1, <4>3, <5>1
        <5>2. CASE values[c][g] = None
          <6>1. bits[g] \in MaskOf(hidden'[c], e) <=>
                  e \in Evaluated(g) /\ <<g, filters[e][g], values[c][g]>> \notin Sees
            BY <4>3, <5>2 DEF IsVisible
          <6> QED
            BY <4>1, <5>2, <6>1 DEF IsVisible
        <5> QED
          BY <5>1, <5>2
      <4> QED
        BY <3>3, <4>2, <4>4
    <3> QED
      BY <1>3, <3>2, <3>3
  <2> QED
    BY <1>2, <1>3, <2>1 DEF BitsFollowFilters
<1>13. ManualBits'
  <2>1. \A s \in Scopes : s \notin Filters
    BY FiltersAssumption
  <2>2. \A e \in Alive, s \in Scopes : <<c, e, s>> \notin manual
    BY <1>3 DEF FiltersInv, Absent
  <2>3. \A e \in Alive, s \in Scopes : bits[s] \notin MaskOf(hidden'[c], e)
    BY <1>3, <1>9, <2>1
  <2> QED
    BY <1>2, <1>3, <1>8, <2>2, <2>3 DEF FiltersInv, ManualBits
<1>14. Unfiltered'
  <2>1. \A e \in Alive, f \in Filters : filters[e][f] = None => bits[f] \notin MaskOf(hidden'[c], e)
    BY <1>3, <1>9 DEF Evaluated
  <2> QED
    BY <1>2, <1>3, <1>8, <2>1 DEF FiltersInv, Unfiltered
<1> QED
  BY <1>5, <1>6, <1>7, <1>11, <1>12, <1>13, <1>14 DEF FiltersInv

-----------------------------------------------------------------------------
(* send_replication.                                                       *)

\* The masks of despawned entities are dropped, and nothing is lost any more.
LEMMA SentMasks ==
  ASSUME FiltersInv, Send, NEW c \in Clients
  PROVE  /\ IsMask(hidden[c])' /\ IsMask(lost[c])'
         /\ DOMAIN hidden'[c] = DOMAIN hidden[c] \ despawns /\ DOMAIN lost'[c] = {}
         /\ \A e \in Alive : MaskOf(hidden'[c], e) = MaskOf(hidden[c], e)
<1>1. hidden'[c] = Restrict(hidden[c], DOMAIN hidden[c] \ despawns) /\ lost'[c] = <<>>
  BY DEF Send, WithoutDespawned
<1>2. Alive' = Alive /\ bits' = bits /\ Alive \cap despawns = {}
  BY DEF FiltersInv, Absent, Send, Alive
<1>3. IsMask(hidden[c])
  BY DEF FiltersInv, MasksFit
<1> QED
  BY <1>1, <1>2, <1>3 DEF IsMask, Restrict, MaskOf

\* What a client knows after a send is what no mask hides from it.
LEMMA SentEntities ==
  ASSUME FiltersInv, Send, NEW c \in Clients, NEW e
  PROVE  e \in tracked'[c] <=> c \in Authorized /\ e \in Alive /\ e \notin DOMAIN hidden[c]
<1>1. tracked'[c] = IF c \in Authorized
                    THEN LeftAfterDespawns(c) \cup {x \in Alive : x \notin DOMAIN hidden'[c]}
                    ELSE {}
  BY DEF Send
<1>2. Alive \cap despawns = {}
  BY DEF FiltersInv, Absent, Alive
<1>3. ASSUME e \in LeftAfterDespawns(c)
      PROVE  e \in Alive /\ e \notin DOMAIN hidden[c]
  <2>1. e \in tracked[c] /\ e \notin despawns /\ e \notin DOMAIN lost[c]
    BY <1>3 DEF LeftAfterDespawns
  <2>2. e \in Alive /\ MaskOf(hidden[c], e) \subseteq MaskOf(lost[c], e)
    BY <2>1 DEF FiltersInv, LostIsKnown
  <2>3. MaskOf(hidden[c], e) = {}
    BY <2>1, <2>2 DEF MaskOf
  <2> QED
    BY <2>2, <2>3 DEF FiltersInv, MasksFit, IsMask, MaskOf
<1> QED
  BY <1>1, <1>2, <1>3, SentMasks

LEMMA SendKeepsInv ==
  ASSUME FiltersInv, Send
  PROVE  FiltersInv'
<1>1. UNCHANGED <<bits, running, entities, filters, clients, values, manual, missed>> /\ despawns' = {}
  BY DEF Send, clientVars
<1>2. Alive' = Alive /\ Authorized' = Authorized /\ Authorized \subseteq Clients
  BY <1>1 DEF Alive, Authorized
<1>3. Typed'
  <2>1. hidden' = [c \in Clients |-> hidden'[c]] /\ lost' = [c \in Clients |-> lost'[c]]
    BY DEF Send
  <2>2. \A c \in Clients : tracked'[c] \subseteq Entities
    BY SentEntities DEF Alive
  <2>3. tracked' \in [Clients -> SUBSET Entities]
    BY <2>2 DEF Send
  <2> QED
    BY <1>1, <2>1, <2>3 DEF FiltersInv, Typed
<1>4. BitsUnique' /\ Absent'
  BY <1>1, <1>2 DEF FiltersInv, BitsUnique, Absent, missed
<1>5. MasksFit'
  <2>1. \A c \in Clients \ Authorized : DOMAIN hidden[c] = {}
    BY DEF FiltersInv, MasksFit
  <2> QED
    BY <1>2, <2>1, SentMasks DEF MasksFit
<1>6. \A c \in Authorized, e \in Alive : MaskOf(hidden'[c], e) = MaskOf(hidden[c], e)
  BY <1>2, SentMasks
<1>7. BitsFollowFilters'
  <2>1. \A c \in Authorized, e \in Alive, f \in Filters : Hides(c, e, f)' <=> Hides(c, e, f)
    BY <1>1 DEF Hides, Denied, IsVisible, missed
  <2> QED
    BY <1>1, <1>2, <1>6, <2>1 DEF FiltersInv, BitsFollowFilters, missed
<1>8. ManualBits' /\ Unfiltered'
  BY <1>1, <1>2, <1>6 DEF FiltersInv, ManualBits, Unfiltered
<1>9. LostIsKnown'
  <2>1. ASSUME NEW c \in Clients, NEW e \in tracked'[c]
        PROVE  e \in Alive /\ MaskOf(hidden'[c], e) = {}
    <3>1. e \in Alive /\ e \notin DOMAIN hidden[c]
      BY <2>1, SentEntities
    <3> QED
      BY <3>1, SentMasks DEF MaskOf
  <2> QED
    BY <1>2, <2>1 DEF LostIsKnown
<1> QED
  BY <1>3, <1>4, <1>5, <1>7, <1>8, <1>9 DEF FiltersInv

-----------------------------------------------------------------------------
(* Theorems.                                                               *)

LEMMA NextKeepsInv ==
  ASSUME FiltersInv, [Next]_vars
  PROVE  FiltersInv'
<1>1. ASSUME NEW f \in Filters \cup Scopes, Register(f)
      PROVE  FiltersInv'
  BY <1>1, RegisterKeepsInv
<1>2. CASE Start
  BY <1>2, StartKeepsInv
<1>3. ASSUME NEW e \in Entities, Spawn(e) \/ SetDisabled(e) \/ DespawnEntity(e)
      PROVE  FiltersInv'
  BY <1>3, SpawnKeepsInv, SetDisabledKeepsInv, DespawnKeepsInv
<1>4. ASSUME NEW e \in Entities, NEW f \in Filters,
             RemoveFilter(e, f) \/ \E v \in Values : InsertFilter(e, f, v)
      PROVE  FiltersInv'
  BY <1>4, RemoveFilterKeepsInv, InsertFilterKeepsInv
<1>5. ASSUME NEW c \in Clients, NEW e \in Entities, NEW s \in Scopes, SetManually(c, e, s)
      PROVE  FiltersInv'
  BY <1>5, SetManuallyKeepsInv
<1>6. ASSUME NEW c \in Clients, Connect(c) \/ Authorize(c) \/ Disconnect(c)
      PROVE  FiltersInv'
  BY <1>6, ConnectKeepsInv, AuthorizeKeepsInv, DisconnectKeepsInv
<1>7. ASSUME NEW c \in Clients, NEW f \in Filters, NEW v \in Values \cup {None}, SetClientComponent(c, f, v)
      PROVE  FiltersInv'
  BY <1>7, SetClientComponentKeepsInv
<1>8. CASE Send
  BY <1>8, SendKeepsInv
<1>9. CASE UNCHANGED vars
  BY <1>9 DEF FiltersInv, Typed, BitsUnique, MasksFit, IsMask, Absent, BitsFollowFilters, Hides, Denied, ManualBits,
              Unfiltered, LostIsKnown, Alive, Authorized, vars, entityVars, clientVars, maskVars, missed
<1> QED
  BY <1>1, <1>2, <1>3, <1>4, <1>5, <1>6, <1>7, <1>8, <1>9 DEF Next

\* The inductive invariant: besides what filters say, the app's own bits, the
\* bits that no filter claims, and what was lost since the last send.
THEOREM FiltersHold == Spec => []FiltersInv
<1>1. Init => FiltersInv
  BY InitHasInv
<1>2. FiltersInv /\ [Next]_vars => FiltersInv'
  BY NextKeepsInv
<1> QED
  BY <1>1, <1>2, PTL DEF Spec

\* Masks are made of registered bits, are never empty and never outlive the
\* entity or the client (FilterRegistry, ClientVisibility, remove_despawned).
THEOREM FilterTypes == Spec => []TypeOK
<1>1. FiltersInv => TypeOK
  <2> SUFFICES ASSUME FiltersInv PROVE TypeOK
    OBVIOUS
  <2> USE DEF FiltersInv
  <2>1. IsInjective(bits)
    BY DEF BitsUnique
  <2>2. Range(bits) \subseteq 0 .. (Bits - 1)
    <3>1. IsFiniteSet(Filters \cup Scopes) /\ DOMAIN bits \subseteq Filters \cup Scopes
      BY FiltersAssumption DEF Typed
    <3>2. Cardinality(DOMAIN bits) <= Cardinality(Filters \cup Scopes)
      BY <3>1, FS_Subset
    <3>3. Cardinality(DOMAIN bits) \in Nat /\ Cardinality(Filters \cup Scopes) \in Nat
      BY <3>1, FS_Subset, FS_CardinalityType
    <3>4. \A f \in DOMAIN bits : bits[f] \in Nat /\ bits[f] < Cardinality(DOMAIN bits)
      BY DEF Typed, BitsUnique
    <3>5. \A f \in DOMAIN bits : bits[f] \in 0 .. (Bits - 1)
      BY <3>2, <3>3, <3>4, FiltersAssumption
    <3> QED
      BY <3>5 DEF Range
  <2>3. despawns \subseteq Entities /\ Alive \subseteq Entities
    BY DEF Absent, Alive
  <2>4. ASSUME NEW c \in Clients
        PROVE  /\ \A m \in {hidden[c], lost[c]} :
                    /\ DOMAIN m \subseteq Entities /\ {} \notin {m[e] : e \in DOMAIN m}
                    /\ \A e \in DOMAIN m : m[e] \subseteq Range(bits)
               /\ DOMAIN hidden[c] \cup DOMAIN lost[c] \subseteq Alive \cup despawns
    BY <2>3 DEF MasksFit, IsMask
  <2>5. ASSUME NEW c \in Clients, c \notin Authorized
        PROVE  hidden[c] = <<>> /\ lost[c] = <<>>
    <3>1. DOMAIN hidden[c] = {} /\ DOMAIN lost[c] = {} /\ IsMask(hidden[c]) /\ IsMask(lost[c])
      BY <2>5 DEF MasksFit
    <3> QED
      BY <3>1 DEF IsMask
  <2>6. manual \subseteq Clients \X Entities \X Scopes /\ unevaluated \cup stale \subseteq Clients \X Alive \X Filters
    BY DEF Absent, Authorized
  <2>7. \A m : Range(m) = {m[e] : e \in DOMAIN m}
    BY DEF Range
  <2> QED
    BY <2>1, <2>2, <2>4, <2>5, <2>6, <2>7 DEF TypeOK
<1> QED
  BY <1>1, FiltersHold, PTL

\* The bit of a filter is set exactly when is_visible denies the filter and some
\* observer evaluated it, whatever the order; a filter that no observer evaluates
\* (the client component, or Disabled, comes before authorization) has a clear
\* bit.  Only the bits left stale by a disabled entity are excluded (the observers
\* of add_visibility_filter).
THEOREM FiltersAreFollowed == Spec => []BitsFollowFilters
<1>1. FiltersInv => BitsFollowFilters
  BY DEF FiltersInv
<1> QED
  BY <1>1, FiltersHold, PTL

\* A send reaches exactly the clients from which neither an evaluated filter nor
\* the app hides the entity, so also a client that an unevaluated filter denies
\* it; entities with a stale bit are excluded (collect_despawns and
\* collect_changes with the masks).
THEOREM SendsAreAllowed == Spec => SentIsAllowed
<1>1. ASSUME FiltersInv, Send, NEW c \in Authorized, NEW e \in Entities,
             \A f \in Filters : <<c, e, f>> \notin stale
      PROVE  e \in tracked'[c] <=> /\ e \in Alive
                                   /\ \A f \in Filters : ~Hides(c, e, f)
                                   /\ \A s \in Scopes : <<c, e, s>> \notin manual
  <2>1. c \in Clients
    BY DEF Authorized
  <2>2. e \in tracked'[c] <=> e \in Alive /\ e \notin DOMAIN hidden[c]
    BY <1>1, <2>1, SentEntities
  <2>3. ASSUME e \in Alive
        PROVE  e \notin DOMAIN hidden[c] <=> /\ \A f \in Filters : ~Hides(c, e, f)
                                            /\ \A s \in Scopes : <<c, e, s>> \notin manual
    <3>1. e \in DOMAIN hidden[c] <=> \E b \in Range(bits) : b \in MaskOf(hidden[c], e)
      BY <1>1, <2>1 DEF FiltersInv, MasksFit, IsMask, MaskOf
    <3>2. Range(bits) = {bits[g] : g \in Filters \cup Scopes}
      BY <1>1 DEF FiltersInv, Typed, Range, Send
    <3>3. \A f \in Filters : bits[f] \in MaskOf(hidden[c], e) <=> Hides(c, e, f)
      BY <1>1, <2>3 DEF FiltersInv, BitsFollowFilters
    <3>4. \A s \in Scopes : bits[s] \in MaskOf(hidden[c], e) <=> <<c, e, s>> \in manual
      BY <1>1, <2>3 DEF FiltersInv, ManualBits
    <3> QED
      BY <3>1, <3>2, <3>3, <3>4
  <2> QED
    BY <2>2, <2>3
<1>2. FiltersInv /\ [Next]_vars => 
        [Send => \A c \in Authorized, e \in Entities :
           (\A f \in Filters : <<c, e, f>> \notin stale) =>
             (e \in tracked'[c] <=> /\ e \in Alive
                                    /\ \A f \in Filters : ~Hides(c, e, f)
                                    /\ \A s \in Scopes : <<c, e, s>> \notin manual)]_vars
  BY <1>1
<1> QED
  BY <1>2, FiltersHold, PTL DEF Spec, SentIsAllowed
=============================================================================
