----------------------- MODULE MutationHistory_proofs -----------------------
(***************************************************************************)
(* Proofs about MutationHistory: what a client says about the ticks of an  *)
(* entity and about the messages of a tick is exact, its component is the  *)
(* one of its diff index, and a tick that is confirmed is a frontier, for  *)
(* every width of the masks, every length of the history and every modulus *)
(* of the ticks and of the indices, wherever they wrap.                    *)
(***************************************************************************)
EXTENDS MutationHistory, FiniteSetTheorems, SequenceTheorems, TLAPS

\* n is the newest of S.
IsNewest(n, S) == n \in S /\ \A o \in S : o <= n

\* Every message is one of its tick, and is counted once.
MessagesFit ==
  /\ ticks \in 0..MaxTicks /\ counts \in Seq(Nat) /\ Len(counts) = ticks
  /\ flight \cap arrived = {}
  /\ \A m \in flight \cup arrived :
       /\ m.n \in 1..ticks /\ m.tick = TickOf(m.n)
       /\ m.count = counts[m.n] /\ m.part \in 1..counts[m.n]
       /\ <<m.n, m.part>> \notin counted
  /\ \A m, o \in flight \cup arrived : m.n = o.n /\ m.part = o.part => m = o
  /\ \A c \in counted : \E n \in 1..ticks : \E part \in 1..counts[n] : c = <<n, part>>

\* The mask of the confirm history is the set of the last ticks applied.
MaskOf(seen, last) == {ago \in 0..(Width - 1) : last - ago \in seen}
Shifted(mask, by) == {0} \cup ({b + by : b \in mask} \cap (0..(Width - 1)))
MaskFits ==
  /\ applied \subseteq 0..ticks /\ jumped \in BOOLEAN
  /\ confirm = [mask |-> confirm.mask, last |-> confirm.last]
  /\ \E last \in 0..ticks :
       /\ IsNewest(last, applied)
       /\ confirm.last = TickOf(last)
       /\ ~jumped => confirm.mask = MaskOf(applied, last)

\* A slot counts the messages of its tick.
PartsIn(cs, seen, n) == {part \in 1..cs[n] : <<n, part>> \in seen}
SlotIn(cs, seen, n) ==
  IF n < 1 \/ PartsIn(cs, seen, n) = {} THEN NoMessages
  ELSE [count |-> cs[n], received |-> Cardinality(PartsIn(cs, seen, n))]

SlotsOf(cs, seen, last) == [ago \in 0..(Width - 1) |-> SlotIn(cs, seen, last - ago)]
CountedAt(slots, ago, count) == [slots EXCEPT ![ago] = Counted(slots[ago], count)]
CountedTicks(seen) == {0} \cup {c[1] : c \in seen}

SlotsFit ==
  \E last \in 0..ticks :
    /\ IsNewest(last, CountedTicks(counted))
    /\ mutateTicks.last = TickOf(last)
    /\ mutateTicks.slots = SlotsOf(counts, counted, last)

HistoryInv == MessagesFit /\ MaskFits /\ SlotsFit

-----------------------------------------------------------------------------
(* Ticks that wrap.                                                        *)

\* A remainder is known wherever its dividend is within a modulus of the range.
LEMMA Remainders ==
  ASSUME NEW m \in Nat, m > 0, NEW x \in Int
  PROVE  /\ x \in 0..(m - 1) => x % m = x
         /\ x \in m..(2 * m - 1) => x % m = x - m
         /\ x \in (-m)..(-1) => x % m = x + m
PROOF OBVIOUS

\* The tick range leaves less than half of it to newer ticks, and all of the
\* ticks after the spawn are among them.
LEMMA TickRange ==
  /\ TickMod \in Nat /\ TickMod > 0
  /\ MaxTicks \in Nat
  /\ FirstTick \in 0..(TickMod - 1)
  /\ MaxNewerDistance(TickMod) \in Nat
  /\ 2 * MaxNewerDistance(TickMod) < TickMod
  /\ MaxTicks <= MaxNewerDistance(TickMod)
  /\ Width \in 1..MaxNewerDistance(TickMod)
PROOF BY MutationHistoryAssumption DEF MutationHistoryAssumption, MaxNewerDistance

\* A counter of a number is that number after the first, less at most one lap.
LEMMA WrapValue ==
  ASSUME NEW mod \in Nat, NEW first \in 0..(mod - 1), NEW n \in 0..mod
  PROVE  /\ Advance(first, n, mod) \in 0..(mod - 1)
         /\ Advance(first, n, mod) = first + n \/ Advance(first, n, mod) = first + n - mod
<1> DEFINE sum == first + n
<1>1. sum \in 0..(2 * mod - 1) /\ sum \in Int /\ mod > 0
  OBVIOUS
<1>2. Advance(first, n, mod) = sum % mod
  BY DEF Advance
<1> HIDE DEF sum
<1>3. /\ sum \in 0..(mod - 1) => sum % mod = sum
      /\ sum \in mod..(2 * mod - 1) => sum % mod = sum - mod
  BY <1>1, Remainders
<1>4. sum \in 0..(mod - 1) \/ sum \in mod..(2 * mod - 1)
  BY <1>1
<1>5. sum % mod \in 0..(mod - 1) /\ (sum % mod = sum \/ sum % mod = sum - mod)
  BY <1>1, <1>3, <1>4
<1>6. /\ Advance(first, n, mod) \in 0..(mod - 1)
      /\ Advance(first, n, mod) = sum \/ Advance(first, n, mod) = sum - mod
  BY <1>2, <1>5
<1> QED
  BY <1>6 DEF sum

\* Within half a lap of the first, counters are as far apart as the numbers
\* they stand for, and one is newer exactly when its number is larger.
LEMMA WrapDistance ==
  ASSUME NEW mod \in Nat, NEW first \in 0..(mod - 1), NEW bound \in Nat, bound <= MaxNewerDistance(mod),
         NEW a \in 0..bound, NEW b \in 0..bound
  PROVE  /\ b <= a => DistanceAfter(Advance(first, a, mod), Advance(first, b, mod), mod) = a - b
         /\ IsNewer(Advance(first, a, mod), Advance(first, b, mod), mod) <=> b < a
         /\ Advance(first, a, mod) = Advance(first, b, mod) => a = b
<1> DEFINE x == Advance(first, a, mod)
           y == Advance(first, b, mod)
           diff == x - y
           dist == DistanceAfter(x, y, mod)
           half == MaxNewerDistance(mod)
<1>1. mod > 0 /\ half \in Nat /\ 2 * half < mod /\ a \in 0..mod /\ b \in 0..mod /\ bound <= half
  BY DEF MaxNewerDistance
<1>2. /\ x \in 0..(mod - 1) /\ y \in 0..(mod - 1)
      /\ x = first + a \/ x = first + a - mod
      /\ y = first + b \/ y = first + b - mod
  BY <1>1, WrapValue
<1>3. dist = diff % mod
  BY DEF DistanceAfter
<1>4. IsNewer(x, y, mod) <=> dist \in 1..half
  BY DEF IsNewer
<1>5. diff = x - y
  OBVIOUS
<1> HIDE DEF half, x, y, diff, dist
<1>6. /\ diff \in Int /\ diff \in (-mod)..(mod - 1)
      /\ diff \in {a - b, a - b - mod, a - b + mod}
  BY <1>2, <1>5
<1>7. /\ diff \in 0..(mod - 1) => dist = diff
      /\ diff \in (-mod)..(-1) => dist = diff + mod
  BY <1>1, <1>3, <1>6, Remainders
<1>8. dist = IF b <= a THEN a - b ELSE a - b + mod
  BY <1>1, <1>6, <1>7
<1>9. dist \in 1..half <=> b < a
  BY <1>1, <1>8
<1>10. x = y => a = b
  BY <1>1, <1>2
<1> QED
  BY <1>4, <1>8, <1>9, <1>10 DEF dist, x, y

\* The ticks after the spawn.
LEMMA TickValue ==
  ASSUME NEW n \in 0..MaxTicks
  PROVE  /\ TickOf(n) \in 0..(TickMod - 1)
         /\ TickOf(n) = FirstTick + n \/ TickOf(n) = FirstTick + n - TickMod
<1>1. n \in 0..TickMod
  BY TickRange
<1> QED
  BY <1>1, TickRange, WrapValue DEF TickOf

\* Ticks are as far apart as they are in the order they were given.
LEMMA Distances ==
  ASSUME NEW a \in 0..MaxTicks, NEW b \in 0..MaxTicks
  PROVE  /\ b <= a => DistanceAfter(TickOf(a), TickOf(b), TickMod) = a - b
         /\ IsNewer(TickOf(a), TickOf(b), TickMod) <=> b < a
         /\ TickOf(a) = TickOf(b) => a = b
  BY TickRange, WrapDistance DEF TickOf

\* A tick is older than the window of a mask when it is Width or more behind
\* the last.
LEMMA WindowStart ==
  ASSUME NEW a \in 0..MaxTicks, NEW last \in 0..MaxTicks, a <= last
  PROVE  IsOlderOrEq(TickOf(a), (TickOf(last) - Width) % TickMod, TickMod)
           <=> last - a >= Width
<1> DEFINE under == TickOf(last) - Width
           start == under % TickMod
           diff == TickOf(a) - start
           dist == diff % TickMod
<1>1. /\ TickOf(a) \in 0..(TickMod - 1) /\ TickOf(last) \in 0..(TickMod - 1)
      /\ TickOf(a) = FirstTick + a \/ TickOf(a) = FirstTick + a - TickMod
      /\ TickOf(last) = FirstTick + last \/ TickOf(last) = FirstTick + last - TickMod
  BY TickValue
<1>2. /\ under \in Int /\ under \in (-TickMod)..(TickMod - 1)
      /\ \E k \in {0, TickMod} : under = FirstTick + last - k - Width
  BY <1>1, TickRange
<1>3. IsOlderOrEq(TickOf(a), start, TickMod) <=> dist \notin 1..MaxNewerDistance(TickMod)
  BY DEF IsOlderOrEq, IsNewer, DistanceAfter
<1> HIDE DEF under
<1>4. /\ under \in 0..(TickMod - 1) => start = under
      /\ under \in (-TickMod)..(-1) => start = under + TickMod
  BY <1>2, TickRange, Remainders
<1> HIDE DEF start
<1>5. start \in 0..(TickMod - 1) /\ (start = under \/ start = under + TickMod)
  BY <1>2, <1>4, TickRange
<1>6. diff \in Int /\ diff \in (-TickMod)..(TickMod - 1)
  BY <1>1, <1>5, TickRange
<1>7. \E k \in {-2, -1, 0, 1, 2} : diff = a - last + Width + k * TickMod
  <2>1. PICK i \in {0, 1} : TickOf(a) = FirstTick + a - i * TickMod
    <3>1. TickOf(a) = FirstTick + a - 0 * TickMod \/ TickOf(a) = FirstTick + a - 1 * TickMod
      BY <1>1, TickRange
    <3> QED  BY <3>1
  <2>2. PICK j \in {0, 1} : under = FirstTick + last - j * TickMod - Width
    <3>1. \/ under = FirstTick + last - 0 * TickMod - Width
          \/ under = FirstTick + last - 1 * TickMod - Width
      BY <1>2, TickRange
    <3> QED  BY <3>1
  <2>3. PICK k \in {0, 1} : start = under + k * TickMod
    <3>1. start = under + 0 * TickMod \/ start = under + 1 * TickMod
      BY <1>2, <1>5, TickRange
    <3> QED  BY <3>1
  <2>4. diff = a - last + Width + (j - i - k) * TickMod
    BY <1>1, <1>2, <1>5, <2>1, <2>2, <2>3, TickRange
  <2>5. j - i - k \in {-2, -1, 0, 1, 2}
    OBVIOUS
  <2> QED
    BY <2>4, <2>5
<1> HIDE DEF diff
<1>8. /\ diff \in 0..(TickMod - 1) => dist = diff
      /\ diff \in (-TickMod)..(-1) => dist = diff + TickMod
  BY <1>6, TickRange, Remainders
<1> HIDE DEF dist
<1>9. dist = IF last - a <= Width THEN Width - (last - a) ELSE Width - (last - a) + TickMod
  BY <1>6, <1>7, <1>8, TickRange
<1>10. dist \notin 1..MaxNewerDistance(TickMod) <=> last - a >= Width
  BY <1>9, TickRange
<1> QED
  BY <1>3, <1>10 DEF start, under

-----------------------------------------------------------------------------
(* Slots.                                                                  *)

\* A tick none of whose messages was counted has an empty slot.
LEMMA SlotIsEmpty ==
  ASSUME NEW cs, NEW seen, NEW n \in Int, \A c \in seen : c[1] # n
  PROVE  SlotIn(cs, seen, n) = NoMessages
<1>1. PartsIn(cs, seen, n) = {}
  <2> SUFFICES ASSUME NEW part \in 1..cs[n], <<n, part>> \in seen PROVE FALSE
    BY DEF PartsIn
  <2>1. <<n, part>>[1] = n
    OBVIOUS
  <2> QED
    BY <2>1
<1> QED
  BY <1>1 DEF SlotIn

\* A new tick changes no slot.
LEMMA SlotIsLasting ==
  ASSUME NEW cs \in Seq(Nat), NEW k \in Nat, NEW seen, NEW n \in Int, n <= Len(cs)
  PROVE  SlotIn(Append(cs, k), seen, n) = SlotIn(cs, seen, n)
<1>1. CASE n < 1
  BY <1>1 DEF SlotIn
<1>2. CASE n >= 1
  <2>1. Append(cs, k)[n] = cs[n]
    BY <1>2
  <2>2. PartsIn(Append(cs, k), seen, n) = PartsIn(cs, seen, n)
    BY <2>1 DEF PartsIn
  <2> QED
    BY <2>1, <2>2 DEF SlotIn
<1> QED
  BY <1>1, <1>2

\* The parts of a tick that were counted are finite in number.
LEMMA PartsAreFinite ==
  ASSUME NEW cs, NEW seen, NEW n, cs[n] \in Nat
  PROVE  /\ IsFiniteSet(PartsIn(cs, seen, n))
         /\ Cardinality(PartsIn(cs, seen, n)) \in Nat
         /\ Cardinality(PartsIn(cs, seen, n)) = cs[n]
              <=> \A part \in 1..cs[n] : <<n, part>> \in seen
<1> DEFINE parts == PartsIn(cs, seen, n)
           all == 1..cs[n]
<1>1. IsFiniteSet(all) /\ Cardinality(all) = cs[n]
  <2>1. 1 \in Int /\ cs[n] \in Int
    OBVIOUS
  <2>2. IsFiniteSet(all) /\ Cardinality(all) = IF 1 > cs[n] THEN 0 ELSE cs[n] - 1 + 1
    BY <2>1, FS_Interval
  <2>3. (IF 1 > cs[n] THEN 0 ELSE cs[n] - 1 + 1) = cs[n]
    OBVIOUS
  <2> QED
    BY <2>2, <2>3
<1>2. parts \in SUBSET all
  BY DEF PartsIn
<1>3. parts = all <=> \A part \in all : <<n, part>> \in seen
  BY DEF PartsIn
<1> HIDE DEF parts, all
<1>4. /\ IsFiniteSet(parts)
      /\ Cardinality(all) = Cardinality(parts) => all = parts
  BY <1>1, <1>2, FS_Subset
<1>5. Cardinality(parts) \in Nat
  BY <1>4, FS_CardinalityType
<1> QED
  BY <1>1, <1>3, <1>4, <1>5 DEF parts, all

\* A message is counted in the slot of its tick.
LEMMA SlotCounts ==
  ASSUME NEW cs, NEW seen, NEW n \in Int, n >= 1, cs[n] \in Nat,
         NEW p \in 1..cs[n], <<n, p>> \notin seen
  PROVE  SlotIn(cs, seen \cup {<<n, p>>}, n) = Counted(SlotIn(cs, seen, n), cs[n])
<1> DEFINE parts == PartsIn(cs, seen, n)
           more == PartsIn(cs, seen \cup {<<n, p>>}, n)
<1>1. more = parts \cup {p} /\ p \notin parts
  BY DEF PartsIn
<1>2. IsFiniteSet(parts) /\ Cardinality(parts) \in Nat
  BY PartsAreFinite
<1>3. parts = {} => Cardinality(parts) = 0
  BY FS_EmptySet
<1>4. SlotIn(cs, seen \cup {<<n, p>>}, n)
        = IF more = {} THEN NoMessages ELSE [count |-> cs[n], received |-> Cardinality(more)]
  BY DEF SlotIn
<1>5. SlotIn(cs, seen, n)
        = IF parts = {} THEN NoMessages ELSE [count |-> cs[n], received |-> Cardinality(parts)]
  BY DEF SlotIn
<1> HIDE DEF parts, more
<1>6. Cardinality(more) = Cardinality(parts) + 1 /\ more # {}
  BY <1>1, <1>2, FS_AddElement
<1>7. SlotIn(cs, seen, n).received = Cardinality(parts)
  BY <1>3, <1>5 DEF NoMessages
<1> QED
  BY <1>4, <1>6, <1>7 DEF Counted

\* The last of the ticks that were confirmed or counted is one.
LEMMA NewestIsUnique ==
  ASSUME NEW S \in SUBSET Nat, NEW a, IsNewest(a, S)
  PROVE  (CHOOSE n \in S : \A o \in S : o <= n) = a
<1>1. /\ a \in S /\ \A o \in S : o <= a
  BY DEF IsNewest
<1> DEFINE chosen == CHOOSE n \in S : \A o \in S : o <= n
<1>2. chosen \in S /\ \A o \in S : o <= chosen
  BY <1>1
<1> HIDE DEF chosen
<1>3. chosen = a
  BY <1>1, <1>2
<1> QED
  BY <1>3 DEF chosen

-----------------------------------------------------------------------------
(* The invariant.                                                          *)

\* The entity was spawned at tick 0, which nothing was counted for.
LEMMA InitHistory == Init => HistoryInv
<1> SUFFICES ASSUME Init PROVE HistoryInv
  OBVIOUS
<1> USE DEF Init
<1>1. MessagesFit
  BY TickRange DEF MessagesFit
<1>2. MaskFits
  <2>1. IsNewest(0, applied) /\ confirm.last = TickOf(0)
    BY DEF IsNewest
  <2>2. confirm.mask = MaskOf(applied, 0)
    BY TickRange DEF MaskOf
  <2>3. applied \subseteq 0..ticks /\ 0 \in 0..ticks
    OBVIOUS
  <2>4. jumped \in BOOLEAN
    OBVIOUS
  <2>5. confirm = [mask |-> confirm.mask, last |-> confirm.last]
    <3>1. confirm = [mask |-> {0}, last |-> TickOf(0)]
      OBVIOUS
    <3> HIDE DEF Init
    <3> QED
      BY <3>1
  <2> HIDE DEF Init
  <2> QED
    BY <2>1, <2>2, <2>3, <2>4, <2>5 DEF MaskFits
<1>3. SlotsFit
  <2>1. IsNewest(0, CountedTicks(counted))
    BY DEF IsNewest, CountedTicks
  <2>2. ASSUME NEW ago \in 0..(Width - 1)
        PROVE  SlotIn(counts, counted, 0 - ago) = NoMessages
    <3>1. 0 - ago \in Int /\ \A c \in counted : c[1] # 0 - ago
      BY TickRange
    <3> QED
      BY <3>1, SlotIsEmpty
  <2>3. mutateTicks.slots = SlotsOf(counts, counted, 0)
    BY <2>2 DEF SlotsOf
  <2> QED
    BY <2>1, <2>3 DEF SlotsFit
<1> QED
  BY <1>1, <1>2, <1>3 DEF HistoryInv

\* What the parts of the invariant speak of.
LEMMA HistoryIsLocal ==
  ASSUME HistoryInv,
         UNCHANGED <<ticks, counts, counted, applied, jumped, confirm, mutateTicks>>,
         flight' \subseteq flight \cup arrived, arrived' \subseteq flight \cup arrived,
         flight' \cap arrived' = {}
  PROVE  HistoryInv'
<1>1. MessagesFit'
  BY DEF HistoryInv, MessagesFit
<1>2. MaskFits'
  BY DEF HistoryInv, MaskFits
<1>3. SlotsFit'
  BY DEF HistoryInv, SlotsFit
<1> QED
  BY <1>1, <1>2, <1>3 DEF HistoryInv

\* The messages of a tick are its parts.
LEMMA PartsOfTick ==
  ASSUME NEW count \in 0..MaxCount, ServerTick(count), NEW m \in flight' \ flight
  PROVE  \E part \in 1..count : \E delta, told : m = Message(part, count, delta, told)
<1> DEFINE isChanged == edits > entityTicks.at
           answer == DiffsAfter(diffs, entityTicks.cursor, changed)
           cursor == IF entityTicks.cursor # None \/ recordsFirst THEN answer.index ELSE None
           first == Message(1, count, IF isChanged THEN Delta(answer) ELSE NoDelta,
                            IF isChanged THEN cursor ELSE None)
<1>1. count \in Nat
  BY MutationHistoryAssumption DEF MutationHistoryAssumption
<1>2. flight' = flight \cup {first : x \in 1..(IF count > 0 THEN 1 ELSE 0)}
                  \cup {Message(part, count, NoDelta, None) : part \in 2..count}
  BY DEF ServerTick
<1>3. \E delta, told : first = Message(1, count, delta, told)
  OBVIOUS
<1> HIDE DEF first
<1>4. (count > 0 /\ m = first) \/ \E part \in 2..count : m = Message(part, count, NoDelta, None)
  BY <1>1, <1>2
<1>5. CASE count > 0 /\ m = first
  <2>1. 1 \in 1..count
    BY <1>1, <1>5
  <2> QED
    BY <1>3, <1>5, <2>1
<1>6. CASE \E part \in 2..count : m = Message(part, count, NoDelta, None)
  <2>1. PICK part \in 2..count : m = Message(part, count, NoDelta, None)
    BY <1>6
  <2>2. part \in 1..count
    BY <1>1
  <2> QED
    BY <2>1, <2>2
<1> QED
  BY <1>4, <1>5, <1>6

\* The messages of a new tick are of no tick before, and no two are the same.
LEMMA TickFits ==
  ASSUME HistoryInv, NEW count \in 0..MaxCount, ServerTick(count)
  PROVE  HistoryInv'
<1>1. /\ ticks \in 0..MaxTicks /\ counts \in Seq(Nat) /\ Len(counts) = ticks
      /\ count \in Nat
  BY MutationHistoryAssumption DEF HistoryInv, MessagesFit, MutationHistoryAssumption
<1>2. /\ ticks < MaxTicks /\ ticks' = ticks + 1
      /\ counts' = Append(counts, count)
      /\ UNCHANGED <<arrived, counted, applied, jumped, confirm, mutateTicks>>
  BY DEF ServerTick, clientVars
<1>3. /\ counts' \in Seq(Nat) /\ Len(counts') = ticks'
      /\ counts'[ticks'] = count
      /\ \A n \in 1..ticks : counts'[n] = counts[n]
  BY <1>1, <1>2
<1> DEFINE new == flight' \ flight
<1>4. flight \subseteq flight'
  BY DEF ServerTick
<1>5. ASSUME NEW m \in new
      PROVE  /\ m.n = ticks' /\ m.tick = TickOf(ticks')
             /\ m.count = count /\ m.part \in 1..count
  <2>3. PICK part \in 1..count : \E delta, told : m = Message(part, count, delta, told)
    BY PartsOfTick
  <2>4. PICK delta, told : m = Message(part, count, delta, told)
    BY <2>3
  <2>5. m.n = ticks + 1 /\ m.tick = TickOf(ticks + 1) /\ m.count = count /\ m.part = part
    BY <2>4 DEF Message
  <2> QED
    BY <1>2, <2>5
<1>6. ASSUME NEW m \in new, NEW o \in new, m.part = o.part
      PROVE  m = o
  <2> DEFINE isChanged == edits > entityTicks.at
             answer == DiffsAfter(diffs, entityTicks.cursor, changed)
             cursor == IF entityTicks.cursor # None \/ recordsFirst THEN answer.index ELSE None
             first == Message(1, count, IF isChanged THEN Delta(answer) ELSE NoDelta,
                              IF isChanged THEN cursor ELSE None)
  <2>1. \A k \in new : k = first \/ \E part \in 2..count : k = Message(part, count, NoDelta, None)
    BY DEF ServerTick
  <2>2. first.part = 1
    BY DEF Message
  <2> HIDE DEF first, new
  <2>3. \A k \in new : k.part # 1 => k = Message(k.part, count, NoDelta, None)
    BY <2>1, <2>2 DEF Message
  <2>4. \A k \in new : k.part = 1 => k = first
    <3> SUFFICES ASSUME NEW k \in new, k.part = 1,
                        NEW part \in 2..count, k = Message(part, count, NoDelta, None)
                 PROVE  FALSE
      BY <2>1
    <3>1. k.part = part
      BY DEF Message
    <3> QED
      BY <3>1, <1>1
  <2> QED
    BY <1>6, <2>3, <2>4
<1>7. \A m \in flight \cup arrived : m.n \in 1..ticks
  BY DEF HistoryInv, MessagesFit
<1>8. flight' = flight \cup new
  BY <1>4
<1> HIDE DEF new
<1>9. MessagesFit'
  <2>1. flight' \cap arrived' = {}
    <3>1. flight \cap arrived = {}
      BY DEF HistoryInv, MessagesFit
    <3>2. new \cap arrived = {}
      BY <1>1, <1>2, <1>5, <1>7
    <3> QED
      BY <1>2, <1>8, <3>1, <3>2
  <2>2. ASSUME NEW m \in flight' \cup arrived'
        PROVE  /\ m.n \in 1..ticks' /\ m.tick = TickOf(m.n)
               /\ m.count = counts'[m.n] /\ m.part \in 1..counts'[m.n]
               /\ <<m.n, m.part>> \notin counted'
    <3>1. CASE m \in flight \cup arrived
      <4>1. /\ m.n \in 1..ticks /\ m.tick = TickOf(m.n)
            /\ m.count = counts[m.n] /\ m.part \in 1..counts[m.n]
            /\ <<m.n, m.part>> \notin counted
        BY <3>1 DEF HistoryInv, MessagesFit
      <4> QED
        BY <1>1, <1>2, <1>3, <4>1
    <3>2. CASE m \in new
      <4>1. <<m.n, m.part>> \notin counted
        <5>1. \A c \in counted : \E n \in 1..ticks : \E part \in 1..counts[n] : c = <<n, part>>
          BY DEF HistoryInv, MessagesFit
        <5>2. m.n = ticks + 1
          BY <1>2, <1>5, <3>2
        <5> QED
          BY <1>1, <5>1, <5>2
      <4> QED
        BY <1>1, <1>2, <1>3, <1>5, <3>2, <4>1
    <3> QED
      BY <1>2, <1>8, <3>1, <3>2
  <2>3. ASSUME NEW m \in flight' \cup arrived', NEW o \in flight' \cup arrived',
               m.n = o.n, m.part = o.part
        PROVE  m = o
    <3>1. CASE m \in flight \cup arrived /\ o \in flight \cup arrived
      BY <2>3, <3>1 DEF HistoryInv, MessagesFit
    <3>2. CASE m \in new /\ o \in new
      BY <1>6, <2>3, <3>2
    <3>3. \A k \in new : k.n = ticks + 1
      BY <1>2, <1>5
    <3> QED
      BY <1>1, <1>2, <1>7, <1>8, <2>3, <3>1, <3>2, <3>3
  <2>4. \A c \in counted' : \E n \in 1..ticks' : \E part \in 1..counts'[n] : c = <<n, part>>
    <3> SUFFICES ASSUME NEW c \in counted
                 PROVE  \E n \in 1..ticks' : \E part \in 1..counts'[n] : c = <<n, part>>
      BY <1>2
    <3>1. PICK n \in 1..ticks : \E part \in 1..counts[n] : c = <<n, part>>
      BY DEF HistoryInv, MessagesFit
    <3>2. n \in 1..ticks' /\ counts'[n] = counts[n]
      BY <1>1, <1>2, <1>3
    <3> QED
      BY <3>1, <3>2
  <2>5. ticks' \in 0..MaxTicks
    BY <1>1, <1>2, TickRange
  <2> QED
    BY <1>3, <2>1, <2>2, <2>3, <2>4, <2>5 DEF MessagesFit
<1>10. MaskFits'
  <2>1. 0..ticks \subseteq 0..ticks'
    BY <1>1, <1>2
  <2>2. applied \subseteq 0..ticks /\ jumped \in BOOLEAN
        /\ confirm = [mask |-> confirm.mask, last |-> confirm.last]
    BY DEF HistoryInv, MaskFits
  <2>3. PICK last \in 0..ticks :
          /\ IsNewest(last, applied) /\ confirm.last = TickOf(last)
          /\ ~jumped => confirm.mask = MaskOf(applied, last)
    BY DEF HistoryInv, MaskFits
  <2>4. last \in 0..ticks'
    BY <2>1, <2>3
  <2> QED
    BY <1>2, <2>1, <2>2, <2>3, <2>4 DEF MaskFits
<1>11. SlotsFit'
  <2>1. PICK last \in 0..ticks :
          /\ IsNewest(last, CountedTicks(counted)) /\ mutateTicks.last = TickOf(last)
          /\ mutateTicks.slots = SlotsOf(counts, counted, last)
    BY DEF HistoryInv, SlotsFit
  <2>2. ASSUME NEW ago \in 0..(Width - 1)
        PROVE  SlotIn(counts', counted, last - ago) = SlotIn(counts, counted, last - ago)
    <3>1. last - ago \in Int /\ last - ago <= Len(counts)
      BY <1>1, TickRange
    <3> QED
      BY <1>1, <1>2, <3>1, SlotIsLasting
  <2>3. mutateTicks'.slots = SlotsOf(counts', counted', last)
    BY <1>2, <2>1, <2>2 DEF SlotsOf
  <2>4. last \in 0..ticks'
    BY <1>1, <1>2
  <2> QED
    BY <1>2, <2>1, <2>3, <2>4 DEF SlotsFit
<1> QED
  BY <1>9, <1>10, <1>11 DEF HistoryInv

\* A message that is applied is counted, once.
LEMMA CountFits ==
  ASSUME HistoryInv, NEW m, ApplyMessage(m)
  PROVE  MessagesFit'
<1>1. /\ m \in arrived /\ arrived' = arrived \ {m}
      /\ counted' = counted \cup {<<m.n, m.part>>}
      /\ UNCHANGED <<ticks, counts, flight>>
  BY DEF ApplyMessage, serverVars, netVars
<1>2. MessagesFit
  BY DEF HistoryInv
<1>3. /\ m.n \in 1..ticks /\ m.part \in 1..counts[m.n]
  BY <1>1, <1>2 DEF MessagesFit
<1>4. \A o \in flight' \cup arrived' : o \in flight \cup arrived /\ o # m
  BY <1>1, <1>2 DEF MessagesFit
<1>5. \A o \in flight' \cup arrived' : <<o.n, o.part>> # <<m.n, m.part>>
  BY <1>1, <1>2, <1>4 DEF MessagesFit
<1>6. \A c \in counted' : \E n \in 1..ticks : \E part \in 1..counts[n] : c = <<n, part>>
  BY <1>1, <1>2, <1>3 DEF MessagesFit
<1> QED
  BY <1>1, <1>2, <1>4, <1>5, <1>6 DEF MessagesFit

\* What a message is worth to the confirm history of the entity.
LEMMA MessageIsKnown ==
  ASSUME HistoryInv, NEW m, ApplyMessage(m)
  PROVE  /\ m.n \in 1..ticks /\ m.n \in 0..MaxTicks /\ m.tick = TickOf(m.n)
         /\ ticks \in 0..MaxTicks /\ ticks' = ticks
         /\ counts \in Seq(Nat) /\ counts' = counts /\ counts[m.n] \in Nat
         /\ m.count = counts[m.n] /\ m.part \in 1..counts[m.n]
         /\ <<m.n, m.part>> \notin counted
<1>1. m \in arrived /\ UNCHANGED <<ticks, counts>>
  BY DEF ApplyMessage, serverVars
<1>2. /\ m.n \in 1..ticks /\ m.tick = TickOf(m.n)
      /\ m.count = counts[m.n] /\ m.part \in 1..counts[m.n]
      /\ <<m.n, m.part>> \notin counted
      /\ ticks \in 0..MaxTicks /\ counts \in Seq(Nat) /\ Len(counts) = ticks
  BY <1>1 DEF HistoryInv, MessagesFit
<1> QED
  BY <1>1, <1>2, TickRange

\* A newer tick moves the mask, and pushes out what is Width behind it.
LEMMA MaskMoves ==
  ASSUME NEW seen \in SUBSET Nat, NEW last \in Nat, IsNewest(last, seen),
         NEW n \in Nat, last < n, n - last < Width
  PROVE  Shifted(MaskOf(seen, last), n - last) = MaskOf(seen \cup {n}, n)
<1> DEFINE old == MaskOf(seen, last)
           mask == Shifted(old, n - last)
<1>1. ASSUME NEW ago \in 0..(Width - 1), n - ago \in seen
      PROVE  ago \in mask
  <2>1. n - ago <= last
    BY <1>1 DEF IsNewest
  <2>2. ago - (n - last) \in 0..(Width - 1) /\ last - (ago - (n - last)) = n - ago
    BY <2>1, TickRange
  <2>3. ago - (n - last) \in old
    BY <1>1, <2>2 DEF MaskOf
  <2>4. ago = (ago - (n - last)) + (n - last)
    BY TickRange
  <2> QED
    BY <2>3, <2>4 DEF Shifted
<1>2. ASSUME NEW b \in old, b + (n - last) \in 0..(Width - 1)
      PROVE  n - (b + (n - last)) \in seen
  <2>1. b \in 0..(Width - 1) /\ last - b \in seen
    BY DEF MaskOf
  <2>2. n - (b + (n - last)) = last - b
    BY <2>1, TickRange
  <2> QED
    BY <2>1, <2>2
<1>3. 0 \in 0..(Width - 1) /\ n - 0 = n
  BY TickRange
<1>4. \A ago \in 0..(Width - 1) : n - ago = n => ago = 0
  BY TickRange
<1> QED
  BY <1>1, <1>2, <1>3, <1>4 DEF MaskOf, Shifted

\* apply_mutations keeps the mask the set of the last ticks applied.
LEMMA ApplyMask ==
  ASSUME HistoryInv, NEW m, ApplyMessage(m)
  PROVE  MaskFits'
<1>1. /\ m.n \in 1..ticks /\ m.n \in 0..MaxTicks /\ m.tick = TickOf(m.n)
      /\ ticks \in 0..MaxTicks /\ ticks' = ticks
  BY MessageIsKnown
<1>2. applied \subseteq 0..ticks /\ jumped \in BOOLEAN
      /\ confirm = [mask |-> confirm.mask, last |-> confirm.last]
  BY DEF HistoryInv, MaskFits
<1>3. PICK last \in 0..ticks :
        /\ IsNewest(last, applied) /\ confirm.last = TickOf(last)
        /\ ~jumped => confirm.mask = MaskOf(applied, last)
  BY DEF HistoryInv, MaskFits
<1>4. last \in 0..MaxTicks /\ last \in Nat /\ applied \in SUBSET Nat /\ m.n \in Nat
  BY <1>1, <1>2, TickRange
<1> DEFINE ago == DistanceAfter(confirm.last, m.tick, TickMod)
           shift == DistanceAfter(m.tick, confirm.last, TickMod)
<1>5. /\ IsNewer(m.tick, confirm.last, TickMod) <=> last < m.n
      /\ last < m.n => shift = m.n - last
      /\ m.n <= last => ago = last - m.n
  <2>1. /\ last <= m.n => DistanceAfter(TickOf(m.n), TickOf(last), TickMod) = m.n - last
        /\ IsNewer(TickOf(m.n), TickOf(last), TickMod) <=> last < m.n
    BY <1>1, <1>4, Distances
  <2>2. m.n <= last => DistanceAfter(TickOf(last), TickOf(m.n), TickMod) = last - m.n
    BY <1>1, <1>4, Distances
  <2> QED
    BY <1>1, <1>3, <1>4, <2>1, <2>2
<1>6. ApplyMutations(m)
  BY DEF ApplyMessage
<1>7. CASE UNCHANGED <<confirm, applied, jumped>>
  BY <1>1, <1>2, <1>3, <1>7 DEF MaskFits
<1>8. CASE /\ last < m.n
           /\ confirm' = SetLastTick(confirm, m.tick)
           /\ applied' = applied \cup {m.n}
           /\ jumped' = (jumped \/ shift >= Width)
  <2>1. IsNewest(m.n, applied') /\ applied' \subseteq 0..ticks' /\ jumped' \in BOOLEAN
    BY <1>1, <1>2, <1>3, <1>4, <1>8 DEF IsNewest
  <2>2. confirm' = [mask |-> confirm'.mask, last |-> confirm'.last]
        /\ confirm'.last = TickOf(m.n)
    BY <1>1, <1>8 DEF SetLastTick
  <2>3. ASSUME ~jumped'
        PROVE  confirm'.mask = MaskOf(applied', m.n)
    <3>1. ~jumped /\ m.n - last < Width
      <4>1. ~jumped /\ ~(shift >= Width)
        BY <1>8, <2>3
      <4>2. shift = m.n - last
        BY <1>5, <1>8
      <4> HIDE DEF shift
      <4> QED
        BY <1>4, <4>1, <4>2, TickRange
    <3>2. shift % Width = m.n - last
      <4>1. /\ Width \in Nat /\ Width > 0 /\ m.n - last \in Int
            /\ m.n - last \in 0..(Width - 1)
        BY <1>4, <1>8, <3>1, TickRange
      <4>2. (m.n - last) % Width = m.n - last
        BY <4>1, Remainders
      <4> QED
        BY <1>5, <1>8, <4>2
    <3>3. confirm'.mask = Shifted(confirm.mask, m.n - last)
      BY <1>8, <3>2 DEF SetLastTick, Shifted
    <3>4. confirm.mask = MaskOf(applied, last)
      BY <1>3, <3>1
    <3>5. Shifted(MaskOf(applied, last), m.n - last) = MaskOf(applied \cup {m.n}, m.n)
      BY <1>3, <1>4, <1>8, <3>1, MaskMoves
    <3> QED
      BY <1>8, <3>3, <3>4, <3>5
  <2> QED
    BY <1>1, <2>1, <2>2, <2>3 DEF MaskFits
<1>9. CASE /\ m.n <= last /\ ago < Width
           /\ confirm' = SetAgo(confirm, ago)
           /\ applied' = applied \cup {m.n}
           /\ UNCHANGED jumped
  <2>1. IsNewest(last, applied') /\ applied' \subseteq 0..ticks' /\ jumped' \in BOOLEAN
        /\ last \in 0..ticks'
    BY <1>1, <1>2, <1>3, <1>4, <1>9 DEF IsNewest
  <2>2. confirm' = [mask |-> confirm.mask \cup {ago}, last |-> confirm.last]
    BY <1>2, <1>9 DEF SetAgo
  <2>3. confirm' = [mask |-> confirm'.mask, last |-> confirm'.last]
        /\ confirm'.last = TickOf(last) /\ confirm'.mask = confirm.mask \cup {ago}
    BY <1>3, <2>2
  <2>4. ASSUME ~jumped'
        PROVE  confirm'.mask = MaskOf(applied', last)
    <3>1. confirm.mask = MaskOf(applied, last)
      BY <1>3, <1>9, <2>4
    <3>2. ago \in 0..(Width - 1) /\ \A k \in 0..(Width - 1) : last - k = m.n <=> k = ago
      BY <1>4, <1>5, <1>9, TickRange
    <3> QED
      BY <1>9, <2>3, <3>1, <3>2 DEF MaskOf
  <2> QED
    BY <2>1, <2>3, <2>4 DEF MaskFits
<1>10. \/ UNCHANGED <<confirm, applied, jumped>>
       \/ /\ last < m.n
          /\ confirm' = SetLastTick(confirm, m.tick)
          /\ applied' = applied \cup {m.n}
          /\ jumped' = (jumped \/ shift >= Width)
       \/ /\ m.n <= last /\ ago < Width
          /\ confirm' = SetAgo(confirm, ago)
          /\ applied' = applied \cup {m.n}
          /\ UNCHANGED jumped
  <2>1. last < m.n \/ m.n <= last
    BY <1>4
  <2> QED
    BY <1>5, <1>6, <2>1 DEF ApplyMutations
<1> QED
  BY <1>7, <1>8, <1>9, <1>10

\* A newer tick moves the slots, and leaves empty ones for the ticks between.
LEMMA SlotsMove ==
  ASSUME NEW cs, NEW seen, NEW last \in Nat, IsNewest(last, CountedTicks(seen)),
         NEW n \in Nat, last < n
  PROVE  PushFront(SlotsOf(cs, seen, last), n - last) = SlotsOf(cs, seen, n)
<1> DEFINE slots == SlotsOf(cs, seen, last)
<1>1. DOMAIN slots = 0..(Width - 1)
  BY DEF SlotsOf
<1>2. ASSUME NEW ago \in 0..(Width - 1)
      PROVE  (IF ago < n - last THEN NoMessages ELSE slots[ago - (n - last)])
               = SlotIn(cs, seen, n - ago)
  <2>1. CASE ago < n - last
    <3>1. n - ago \in Int /\ n - ago > last
      BY <2>1, TickRange
    <3>2. \A c \in seen : c[1] <= last
      BY DEF IsNewest, CountedTicks
    <3>3. \A c \in seen : c[1] # n - ago
      BY <3>1, <3>2
    <3> QED
      BY <2>1, <3>1, <3>3, SlotIsEmpty
  <2>2. CASE ~(ago < n - last)
    <3>1. ago - (n - last) \in 0..(Width - 1) /\ last - (ago - (n - last)) = n - ago
      BY <2>2, TickRange
    <3> DEFINE k == ago - (n - last)
    <3>2. slots[k] = SlotIn(cs, seen, last - k)
      BY <3>1 DEF SlotsOf
    <3> QED
      BY <2>2, <3>1, <3>2
  <2> QED
    BY <2>1, <2>2
<1> HIDE DEF slots
<1>3. PushFront(slots, n - last) = SlotsOf(cs, seen, n)
  BY <1>1, <1>2 DEF PushFront, SlotsOf
<1> QED
  BY <1>3 DEF slots

\* A message within the window is counted in the slot of its tick.
LEMMA SlotsCount ==
  ASSUME NEW cs, NEW seen, NEW last \in Nat, NEW n \in Nat, 1 <= n, n <= last,
         last - n < Width, cs[n] \in Nat, NEW p \in 1..cs[n], <<n, p>> \notin seen
  PROVE  /\ last - n \in DOMAIN SlotsOf(cs, seen, last)
         /\ CountedAt(SlotsOf(cs, seen, last), last - n, cs[n])
              = SlotsOf(cs, seen \cup {<<n, p>>}, last)
<1> DEFINE slots == SlotsOf(cs, seen, last)
           after == SlotsOf(cs, seen \cup {<<n, p>>}, last)
           k == last - n
<1>1. k \in 0..(Width - 1) /\ last - k = n
  BY TickRange
<1>2. slots = [ago \in 0..(Width - 1) |-> SlotIn(cs, seen, last - ago)]
  BY DEF SlotsOf
<1>3. after = [ago \in 0..(Width - 1) |-> SlotIn(cs, seen \cup {<<n, p>>}, last - ago)]
  BY DEF SlotsOf
<1>4. after[k] = Counted(slots[k], cs[n])
  <2>1. SlotIn(cs, seen \cup {<<n, p>>}, n) = Counted(SlotIn(cs, seen, n), cs[n])
    BY SlotCounts
  <2> QED
    BY <1>1, <1>2, <1>3, <2>1
<1>5. ASSUME NEW ago \in 0..(Width - 1), ago # k
      PROVE  after[ago] = slots[ago]
  <2>1. last - ago \in Int /\ last - ago # n
    BY <1>1, <1>5, TickRange
  <2>2. ASSUME NEW x \in Int, x # n
        PROVE  SlotIn(cs, seen \cup {<<n, p>>}, x) = SlotIn(cs, seen, x)
    <3>1. PartsIn(cs, seen \cup {<<n, p>>}, x) = PartsIn(cs, seen, x)
      BY <2>2 DEF PartsIn
    <3> QED
      BY <3>1 DEF SlotIn
  <2>3. SlotIn(cs, seen \cup {<<n, p>>}, last - ago) = SlotIn(cs, seen, last - ago)
    BY <2>1, <2>2
  <2> QED
    BY <1>2, <1>3, <2>3
<1>6. DOMAIN slots = 0..(Width - 1) /\ DOMAIN after = 0..(Width - 1)
      /\ after = [ago \in DOMAIN after |-> after[ago]]
  BY <1>2, <1>3
<1> HIDE DEF slots, after, k
<1>7. CountedAt(slots, k, cs[n]) = after
  BY <1>1, <1>4, <1>5, <1>6 DEF CountedAt
<1> QED
  BY <1>1, <1>6, <1>7 DEF slots, after, k

\* A message older than the window changes no slot.
LEMMA SlotsStay ==
  ASSUME NEW cs, NEW seen, NEW last \in Nat, NEW n \in Nat, last - n >= Width, NEW p
  PROVE  SlotsOf(cs, seen \cup {<<n, p>>}, last) = SlotsOf(cs, seen, last)
<1>1. ASSUME NEW ago \in 0..(Width - 1)
      PROVE  SlotIn(cs, seen \cup {<<n, p>>}, last - ago) = SlotIn(cs, seen, last - ago)
  <2>1. last - ago \in Int /\ last - ago # n
    BY TickRange
  <2>2. ASSUME NEW x \in Int, x # n
        PROVE  SlotIn(cs, seen \cup {<<n, p>>}, x) = SlotIn(cs, seen, x)
    <3>1. PartsIn(cs, seen \cup {<<n, p>>}, x) = PartsIn(cs, seen, x)
      BY <2>2 DEF PartsIn
    <3> QED
      BY <3>1 DEF SlotIn
  <2> QED
    BY <2>1, <2>2
<1> QED
  BY <1>1 DEF SlotsOf

\* ServerMutateTicks::confirm keeps the slots the messages counted.
LEMMA ConfirmSlots ==
  ASSUME HistoryInv, NEW m, ApplyMessage(m)
  PROVE  SlotsFit'
<1> DEFINE n == m.n
           p == m.part
           t == mutateTicks
<1>1. /\ n \in 1..ticks /\ n \in 0..MaxTicks /\ m.tick = TickOf(n)
      /\ ticks \in 0..MaxTicks /\ ticks' = ticks
      /\ counts' = counts /\ counts[n] \in Nat /\ m.count = counts[n]
      /\ p \in 1..counts[n] /\ <<n, p>> \notin counted
  BY MessageIsKnown
<1>2. PICK last \in 0..ticks :
        /\ IsNewest(last, CountedTicks(counted)) /\ t.last = TickOf(last)
        /\ t.slots = SlotsOf(counts, counted, last)
  BY DEF HistoryInv, SlotsFit
<1>3. counted' = counted \cup {<<n, p>>} /\ mutateTicks' = ConfirmMutateTick(m)
  BY DEF ApplyMessage
<1>4. CountedTicks(counted') = CountedTicks(counted) \cup {n}
  <2>1. {c[1] : c \in counted'} = {c[1] : c \in counted} \cup {n}
    <3>1. <<n, p>>[1] = n
      OBVIOUS
    <3> HIDE DEF n, p
    <3> QED
      BY <1>3, <3>1
  <2> QED
    BY <2>1 DEF CountedTicks
<1>5. last \in 0..MaxTicks /\ last \in Nat /\ n \in Nat /\ 1 <= n
  BY <1>1, TickRange
<1> DEFINE isNewer == IsNewer(m.tick, t.last, TickMod)
           slots == IF isNewer THEN PushFront(t.slots, DistanceAfter(m.tick, t.last, TickMod))
                    ELSE t.slots
           newest == IF last < n THEN n ELSE last
           lastTick == IF isNewer THEN m.tick ELSE t.last
           ago == DistanceAfter(lastTick, m.tick, TickMod)
<1>6. /\ isNewer <=> last < n
      /\ slots = SlotsOf(counts, counted, newest)
      /\ lastTick = TickOf(newest)
  <2>1. /\ IsNewer(TickOf(n), TickOf(last), TickMod) <=> last < n
        /\ last <= n => DistanceAfter(TickOf(n), TickOf(last), TickMod) = n - last
    BY <1>1, <1>5, Distances
  <2>2. last < n => PushFront(SlotsOf(counts, counted, last), n - last)
                      = SlotsOf(counts, counted, n)
    BY <1>2, <1>5, SlotsMove
  <2> HIDE DEF n
  <2> QED
    BY <1>1, <1>2, <1>5, <2>1, <2>2
<1>7. newest \in 0..ticks /\ newest \in 0..MaxTicks /\ n <= newest /\ newest \in Nat
  BY <1>1, <1>5
<1>8. IsNewest(newest, CountedTicks(counted'))
  <2>1. last \in CountedTicks(counted) /\ \A o \in CountedTicks(counted) : o <= last
    BY <1>2 DEF IsNewest
  <2>2. \A o \in CountedTicks(counted) : o \in Nat
    <3>1. \A c \in counted : \E k \in 1..ticks : \E part \in 1..counts[k] : c = <<k, part>>
      BY DEF HistoryInv, MessagesFit
    <3> QED
      BY <1>1, <3>1 DEF CountedTicks
  <2> HIDE DEF n
  <2> QED
    BY <1>4, <1>5, <2>1, <2>2 DEF IsNewest
<1>9. ago = newest - n
  <2>1. DistanceAfter(TickOf(newest), TickOf(n), TickMod) = newest - n
    BY <1>1, <1>7, Distances
  <2> QED
    BY <1>1, <1>6, <2>1
<1>10. DOMAIN slots = 0..(Width - 1)
  BY <1>6 DEF SlotsOf
<1>11. mutateTicks' = IF ago \notin DOMAIN slots THEN t
         ELSE LET slot == Counted(slots[ago], m.count)
              IN  [slots |-> [slots EXCEPT ![ago] = slot], last |-> lastTick,
                   confirmed |-> IF AllReceived(slot) THEN LastConfirmed(t.confirmed, m.tick)
                                 ELSE t.confirmed]
  BY <1>3 DEF ConfirmMutateTick
<1>12. counts[n] \in Nat /\ m.count = counts[n]
  BY <1>1
<1> HIDE DEF slots, newest, lastTick, ago, n, p, t, isNewer
<1>13. CASE newest - n < Width
  <2>1. /\ newest - n \in DOMAIN SlotsOf(counts, counted, newest)
        /\ CountedAt(SlotsOf(counts, counted, newest), newest - n, counts[n])
             = SlotsOf(counts, counted \cup {<<n, p>>}, newest)
    BY <1>1, <1>5, <1>7, <1>13, SlotsCount
  <2>2. ago \in DOMAIN slots
    BY <1>6, <1>9, <2>1
  <2>3. mutateTicks'.last = lastTick
        /\ mutateTicks'.slots = CountedAt(slots, ago, m.count)
    BY <1>11, <2>2 DEF CountedAt
  <2>4. mutateTicks'.slots = SlotsOf(counts', counted', newest)
    BY <1>1, <1>3, <1>6, <1>9, <1>12, <2>1, <2>3
  <2> QED
    BY <1>1, <1>6, <1>7, <1>8, <2>3, <2>4 DEF SlotsFit
<1>14. CASE newest - n >= Width
  <2>1. ago \notin DOMAIN slots
    BY <1>5, <1>7, <1>9, <1>10, <1>14, TickRange
  <2>2. ~isNewer /\ newest = last
    BY <1>5, <1>6, <1>14, TickRange DEF newest
  <2>3. mutateTicks' = t /\ t.last = TickOf(newest) /\ t.slots = SlotsOf(counts, counted, newest)
    BY <1>2, <1>11, <2>1, <2>2
  <2>4. SlotsOf(counts, counted \cup {<<n, p>>}, newest) = SlotsOf(counts, counted, newest)
    BY <1>5, <1>7, <1>14, SlotsStay
  <2> QED
    BY <1>1, <1>3, <1>7, <1>8, <2>3, <2>4 DEF SlotsFit
<1> QED
  BY <1>5, <1>7, <1>13, <1>14, TickRange

\* Every step keeps the invariant: a message is sent, comes or is lost, a tick
\* passes, or a message is applied.
LEMMA HistoryStep == HistoryInv /\ [Next]_vars => HistoryInv'
<1> SUFFICES ASSUME HistoryInv, [Next]_vars PROVE HistoryInv'
  OBVIOUS
<1> DEFINE kept == <<ticks, counts, counted, applied, jumped, confirm, mutateTicks>>
<1>1. flight \cap arrived = {}
  BY DEF HistoryInv, MessagesFit
<1>2. CASE UNCHANGED kept /\ UNCHANGED <<flight, arrived>>
  <2>1. flight' = flight /\ arrived' = arrived
    BY <1>2
  <2>2. flight' \subseteq flight \cup arrived /\ arrived' \subseteq flight \cup arrived
        /\ flight' \cap arrived' = {}
    BY <1>1, <2>1
  <2> QED
    BY <1>2, <2>2, HistoryIsLocal
<1>3. ASSUME NEW sameTick, ApplyDiff(sameTick) PROVE HistoryInv'
  BY <1>2, <1>3 DEF ApplyDiff, netVars, clientVars
<1>4. ASSUME NEW sameTick, ChangeDirectly(sameTick) PROVE HistoryInv'
  BY <1>2, <1>4 DEF ChangeDirectly, netVars, clientVars
<1>5. ASSUME NEW count \in 0..MaxCount, ServerTick(count) PROVE HistoryInv'
  BY <1>5, TickFits
<1>6. ASSUME NEW m \in acks, TakeAck(m) PROVE HistoryInv'
  BY <1>2, <1>6 DEF TakeAck, clientVars
<1>7. ASSUME NEW m \in flight, Receive(m) PROVE HistoryInv'
  <2>1. UNCHANGED kept /\ flight' = flight \ {m} /\ arrived' = arrived \cup {m}
    BY <1>7 DEF Receive, serverVars
  <2>2. flight' \subseteq flight \cup arrived /\ arrived' \subseteq flight \cup arrived
        /\ flight' \cap arrived' = {}
    BY <1>1, <1>7, <2>1
  <2> QED
    BY <2>1, <2>2, HistoryIsLocal
<1>8. ASSUME NEW m \in flight, Lose(m) PROVE HistoryInv'
  <2>1. UNCHANGED kept /\ flight' = flight \ {m} /\ arrived' = arrived
    BY <1>8 DEF Lose, serverVars, clientVars
  <2>2. flight' \subseteq flight \cup arrived /\ arrived' \subseteq flight \cup arrived
        /\ flight' \cap arrived' = {}
    BY <1>1, <2>1
  <2> QED
    BY <2>1, <2>2, HistoryIsLocal
<1>9. ASSUME NEW m \in arrived, ApplyMessage(m) PROVE HistoryInv'
  BY <1>9, CountFits, ApplyMask, ConfirmSlots DEF HistoryInv
<1>10. CASE UNCHANGED vars
  BY <1>2, <1>10 DEF vars, serverVars, netVars, clientVars
<1> QED
  BY <1>3, <1>4, <1>5, <1>6, <1>7, <1>8, <1>9, <1>10 DEF Next

\* The mask of a confirm history is the set of the last ticks applied for the
\* entity, a slot holds the number of the messages counted for its tick, and a
\* message is counted once (confirm_history.rs, server_mutate_ticks.rs).
THEOREM HistoryHolds == Spec => []HistoryInv
  BY InitHistory, HistoryStep, PTL DEF Spec

-----------------------------------------------------------------------------
(* What the client says of a tick.                                         *)

\* The newest ticks are the ones that the masks are counted from.
LEMMA NewestAreKnown ==
  ASSUME HistoryInv
  PROVE  /\ \E last \in 0..ticks :
              /\ NewestApplied = last /\ IsNewest(last, applied)
              /\ confirm.last = TickOf(last)
              /\ ~jumped => confirm.mask = MaskOf(applied, last)
         /\ \E last \in 0..ticks :
              /\ NewestCounted = last /\ mutateTicks.last = TickOf(last)
              /\ mutateTicks.slots = SlotsOf(counts, counted, last)
         /\ ticks \in 0..MaxTicks /\ applied \subseteq 0..ticks
<1>1. ticks \in 0..MaxTicks /\ applied \subseteq 0..ticks
  BY DEF HistoryInv, MessagesFit, MaskFits
<1>2. PICK a \in 0..ticks :
        /\ IsNewest(a, applied) /\ confirm.last = TickOf(a)
        /\ ~jumped => confirm.mask = MaskOf(applied, a)
  BY DEF HistoryInv, MaskFits
<1>3. NewestApplied = a
  <2>1. applied \in SUBSET Nat
    BY <1>1, TickRange
  <2> QED
    BY <1>2, <2>1, NewestIsUnique DEF NewestApplied
<1>4. PICK c \in 0..ticks :
        /\ IsNewest(c, CountedTicks(counted)) /\ mutateTicks.last = TickOf(c)
        /\ mutateTicks.slots = SlotsOf(counts, counted, c)
  BY DEF HistoryInv, SlotsFit
<1>5. NewestCounted = c
  <2> DEFINE S == {0} \cup {k[1] : k \in counted}
  <2>1. S = CountedTicks(counted)
    BY DEF CountedTicks
  <2>2. \A k \in counted : k[1] \in 1..ticks
    <3> SUFFICES ASSUME NEW k \in counted PROVE k[1] \in 1..ticks
      OBVIOUS
    <3>1. PICK n \in 1..ticks : \E part \in 1..counts[n] : k = <<n, part>>
      BY DEF HistoryInv, MessagesFit
    <3> QED
      BY <3>1
  <2>3. S \in SUBSET Nat /\ IsNewest(c, S)
    BY <1>1, <1>4, <2>1, <2>2
  <2>4. (CHOOSE n \in S : \A o \in S : o <= n) = c
    <3> HIDE DEF S
    <3> QED
      BY <2>3, NewestIsUnique
  <2>5. \A n \in S : (\A o \in S : o <= n) <=> (\A k \in counted : k[1] <= n)
    BY <1>1, <2>2
  <2>6. NewestCounted = CHOOSE n \in S : \A k \in counted : k[1] <= n
    BY DEF NewestCounted
  <2> HIDE DEF S
  <2>7. (CHOOSE n \in S : \A k \in counted : k[1] <= n) = CHOOSE n \in S : \A o \in S : o <= n
    BY <2>5
  <2> QED
    BY <2>4, <2>6, <2>7
<1> QED
  BY <1>1, <1>2, <1>3, <1>4, <1>5

\* ConfirmHistory::contains answers for the ticks applied, and for all that
\* left the window.
LEMMA ConfirmsExactly ==
  ASSUME NEW last \in 0..MaxTicks, NEW n \in 0..MaxTicks, NEW seen, IsNewest(last, seen),
         NEW h, h.last = TickOf(last), h.mask = MaskOf(seen, last)
  PROVE  Confirms(h, TickOf(n)) <=> n <= last /\ (n \in seen \/ last - n >= Width)
<1>1. IsNewer(TickOf(n), h.last, TickMod) <=> last < n
  BY Distances
<1>2. n <= last => DistanceAfter(h.last, TickOf(n), TickMod) = last - n
  BY Distances
<1>3. n <= last /\ last - n < Width => (last - n \in h.mask <=> n \in seen)
  <2> SUFFICES ASSUME n <= last, last - n < Width
               PROVE  last - n \in h.mask <=> n \in seen
    OBVIOUS
  <2>1. last - n \in 0..(Width - 1) /\ last - (last - n) = n
    BY TickRange
  <2> QED
    BY <2>1 DEF MaskOf
<1> QED
  BY <1>1, <1>2, <1>3, TickRange DEF Confirms

\* ConfirmHistory::contains_any answers for a range, narrower than the mask,
\* of which some tick is contained.
LEMMA ConfirmsRanges ==
  ASSUME NEW last \in 0..MaxTicks, NEW a \in 0..MaxTicks, NEW b \in 0..MaxTicks,
         a <= b, b - a < Width - 1, NEW seen, IsNewest(last, seen),
         NEW h, h.last = TickOf(last), h.mask = MaskOf(seen, last)
  PROVE  ConfirmsAny(h, TickOf(a), TickOf(b)) <=> \E n \in a..b : Confirms(h, TickOf(n))
<1> DEFINE upTo == IF b < last THEN b ELSE last
           end == IF IsNewer(h.last, TickOf(b), TickMod) THEN TickOf(b) ELSE h.last
<1>1. end = TickOf(upTo)
  <2>1. IsNewer(h.last, TickOf(b), TickMod) <=> b < last
    BY Distances
  <2> QED
    BY <2>1
<1>2. IsNewer(TickOf(a), h.last, TickMod) <=> last < a
  BY Distances
<1>3. \A n \in a..b : Confirms(h, TickOf(n)) <=> n <= last /\ (n \in seen \/ last - n >= Width)
  <2> SUFFICES ASSUME NEW n \in a..b
               PROVE  Confirms(h, TickOf(n)) <=> n <= last /\ (n \in seen \/ last - n >= Width)
    OBVIOUS
  <2>1. n \in 0..MaxTicks
    BY TickRange
  <2> QED
    BY <2>1, ConfirmsExactly
<1>4. ConfirmsAny(h, TickOf(a), TickOf(b))
        <=> /\ ~IsNewer(TickOf(a), h.last, TickMod)
            /\ \/ IsOlderOrEq(TickOf(a), (h.last - Width) % TickMod, TickMod)
               \/ h.mask \cap RangeMask(h, TickOf(a), end) # {}
  BY DEF ConfirmsAny
<1>5. CASE last < a
  BY <1>2, <1>3, <1>4, <1>5, TickRange
<1>6. CASE a <= last
  <2>1. upTo \in a..last /\ upTo \in 0..MaxTicks /\ upTo <= b /\ upTo - a < Width - 1
    BY <1>6, TickRange
  <2>2. DistanceAfter(end, TickOf(a), TickMod) = upTo - a
        /\ DistanceAfter(h.last, end, TickMod) = last - upTo
    <3>1. DistanceAfter(TickOf(upTo), TickOf(a), TickMod) = upTo - a
      BY <2>1, Distances, TickRange
    <3>2. DistanceAfter(TickOf(last), TickOf(upTo), TickMod) = last - upTo
      BY <2>1, Distances, TickRange
    <3> QED
      BY <1>1, <3>1, <3>2
  <2>3. IsOlderOrEq(TickOf(a), (h.last - Width) % TickMod, TickMod) <=> last - a >= Width
    BY <1>6, WindowStart
  <2> DEFINE e == upTo
  <2>4. e \in a..last /\ e <= b /\ e - a < Width - 1 /\ (e = b \/ e = last)
    BY <2>1
  <2>5. RangeMask(h, TickOf(a), end) = (last - e)..(last - a)
    <3>1. (upTo - a) + 1 # Width
      BY <2>1, TickRange
    <3>2. (last - upTo) + ((upTo - a) + 1) - 1 = last - a
      BY <2>1, TickRange
    <3>3. RangeMask(h, TickOf(a), end)
            = (last - upTo)..((last - upTo) + ((upTo - a) + 1) - 1)
      BY <2>2, <3>1 DEF RangeMask
    <3> HIDE DEF upTo
    <3> QED
      BY <3>2, <3>3
  <2> HIDE DEF upTo, end, e
  <2>6. CASE last - a >= Width
    <3>1. Confirms(h, TickOf(a))
      BY <1>3, <1>6, <2>6, TickRange
    <3>2. a \in a..b
      OBVIOUS
    <3> QED
      BY <1>2, <1>4, <1>6, <2>3, <2>6, <3>1, <3>2, TickRange
  <2>7. CASE last - a < Width
    <3>1. ASSUME NEW ago \in h.mask, ago \in (last - e)..(last - a)
          PROVE  \E n \in a..b : Confirms(h, TickOf(n))
      <4>1. last - ago \in seen /\ ago \in 0..(Width - 1)
        BY <3>1 DEF MaskOf
      <4>2. last - ago \in a..b /\ last - ago <= last
        BY <2>4, <3>1, <4>1, TickRange
      <4> QED
        BY <1>3, <4>1, <4>2
    <3>2. ASSUME NEW n \in a..b, Confirms(h, TickOf(n))
          PROVE  last - n \in h.mask \cap ((last - e)..(last - a))
      <4>1. n <= last /\ last - n < Width /\ n \in seen
        BY <1>3, <2>7, <3>2, TickRange
      <4>2. /\ last - n \in 0..(Width - 1) /\ last - (last - n) = n
            /\ last - n \in (last - e)..(last - a)
        BY <2>4, <4>1, TickRange
      <4> QED
        BY <4>1, <4>2 DEF MaskOf
    <3> QED
      BY <1>2, <1>4, <1>6, <2>3, <2>5, <2>7, <3>1, <3>2, TickRange
  <2> QED
    BY <1>6, <2>6, <2>7, TickRange
<1> QED
  BY <1>5, <1>6, TickRange

\* ConfirmHistory::contains and contains_any are exact for the last Width
\* ticks, in whatever order the mutations of the entity came, unless it was
\* not mutated for Width ticks (ConfirmedIsExact).
THEOREM ConfirmationsAreExact == Spec => []ConfirmedIsExact
<1>1. HistoryInv => ConfirmedIsExact
  <2> SUFFICES ASSUME HistoryInv, ~jumped PROVE ConfirmedIsExact
    BY DEF ConfirmedIsExact
  <2> DEFINE known == {n \in 0..ticks : Confirms(confirm, TickOf(n))}
  <2>1. PICK last \in 0..ticks :
          /\ NewestApplied = last /\ IsNewest(last, applied)
          /\ confirm.last = TickOf(last) /\ confirm.mask = MaskOf(applied, last)
    BY NewestAreKnown
  <2>2. ticks \in 0..MaxTicks /\ applied \subseteq 0..ticks
    BY NewestAreKnown
  <2>3. last \in 0..MaxTicks
    BY <2>2, TickRange
  <2>4. ASSUME NEW n \in 0..ticks
        PROVE  Confirms(confirm, TickOf(n)) <=> n \in applied \/ NewestApplied - n >= Width
    <3>1. n \in 0..MaxTicks
      BY <2>2, TickRange
    <3>2. Confirms(confirm, TickOf(n)) <=> n <= last /\ (n \in applied \/ last - n >= Width)
      BY <2>1, <2>3, <3>1, ConfirmsExactly
    <3>3. n \in applied => n <= last
      BY <2>1 DEF IsNewest
    <3> QED
      BY <2>1, <2>3, <3>1, <3>2, <3>3, TickRange
  <2>5. ASSUME NEW a \in 0..ticks, NEW b \in a..ticks, b - a < Width - 1
        PROVE  ConfirmsAny(confirm, TickOf(a), TickOf(b))
                 <=> \E n \in a..b : Confirms(confirm, TickOf(n))
    <3>1. a \in 0..MaxTicks /\ b \in 0..MaxTicks /\ a <= b
      BY <2>2, TickRange
    <3> QED
      BY <2>1, <2>3, <2>5, <3>1, ConfirmsRanges
  <2>6. known = {n \in 0..ticks : n \in applied \/ NewestApplied - n >= Width}
    BY <2>4
  <2>7. ASSUME NEW a \in 0..ticks, NEW b \in a..ticks, b - a < Width - 1
        PROVE  ConfirmsAny(confirm, TickOf(a), TickOf(b)) <=> known \cap (a..b) # {}
    <3>1. \A n \in a..b : n \in 0..ticks
      BY <2>2, TickRange
    <3>2. (\E n \in a..b : Confirms(confirm, TickOf(n))) <=> known \cap (a..b) # {}
      BY <3>1
    <3> QED
      BY <2>5, <2>7, <3>2
  <2> QED
    BY <2>6, <2>7 DEF ConfirmedIsExact
<1> QED
  BY <1>1, HistoryHolds, PTL

\* A slot is that of a tick all of whose messages came exactly when every part
\* of it was counted.
LEMMA SlotIsFull ==
  ASSUME NEW cs, NEW seen, NEW n \in Nat, n >= 1, cs[n] \in Nat
  PROVE  AllReceived(SlotIn(cs, seen, n))
           <=> cs[n] > 0 /\ \A part \in 1..cs[n] : <<n, part>> \in seen
<1> DEFINE parts == PartsIn(cs, seen, n)
           slot == SlotIn(cs, seen, n)
           all == \A part \in 1..cs[n] : <<n, part>> \in seen
<1>1. Cardinality(parts) \in Nat /\ (Cardinality(parts) = cs[n] <=> all)
  BY PartsAreFinite
<1>2. AllReceived(slot) <=> slot.count # 0 /\ slot.count = slot.received
  BY DEF AllReceived
<1>3. CASE parts = {}
  <2>1. slot = NoMessages
    BY <1>3 DEF SlotIn
  <2>2. slot.count = 0
    BY <2>1 DEF NoMessages
  <2>3. ~(cs[n] > 0 /\ all)
    <3> SUFFICES ASSUME cs[n] > 0, all PROVE FALSE
      OBVIOUS
    <3>1. 1 \in 1..cs[n]
      OBVIOUS
    <3>2. 1 \in parts
      BY <3>1 DEF PartsIn
    <3> QED
      BY <1>3, <3>2
  <2> QED
    BY <1>2, <2>2, <2>3
<1>4. CASE parts # {}
  <2>1. slot = [count |-> cs[n], received |-> Cardinality(parts)]
    BY <1>4 DEF SlotIn
  <2>2. slot.count = cs[n] /\ slot.received = Cardinality(parts)
    BY <2>1
  <2>3. cs[n] > 0
    <3>1. PICK part \in parts : TRUE
      BY <1>4
    <3>2. part \in 1..cs[n]
      BY DEF PartsIn
    <3> QED
      BY <3>2
  <2> HIDE DEF slot, parts, all
  <2>4. AllReceived(slot) <=> cs[n] > 0 /\ all
    BY <1>1, <1>2, <2>2, <2>3
  <2> QED
    BY <2>4 DEF slot, all
<1> QED
  BY <1>3, <1>4

\* ServerMutateTicks::contains holds exactly for the ticks all of whose mutate
\* messages were applied and for the ones that left the window
\* (MutateTicksAreExact).
THEOREM MutateTicksHold == Spec => []MutateTicksAreExact
<1>1. HistoryInv => MutateTicksAreExact
  <2> SUFFICES ASSUME HistoryInv, NEW n \in 0..ticks
               PROVE  TickContains(mutateTicks, TickOf(n))
                        <=> \/ NewestCounted - n >= Width
                            \/ n \in 1..NewestCounted /\ IsComplete(n)
    BY DEF MutateTicksAreExact
  <2>1. PICK last \in 0..ticks :
          /\ NewestCounted = last /\ mutateTicks.last = TickOf(last)
          /\ mutateTicks.slots = SlotsOf(counts, counted, last)
    BY NewestAreKnown
  <2>2. /\ ticks \in 0..MaxTicks /\ last \in 0..MaxTicks /\ n \in 0..MaxTicks
        /\ n \in Nat /\ (n >= 1 => counts[n] \in Nat)
    BY NewestAreKnown, TickRange DEF HistoryInv, MessagesFit
  <2>3. /\ IsNewer(TickOf(n), TickOf(last), TickMod) <=> last < n
        /\ n <= last => DistanceAfter(TickOf(last), TickOf(n), TickMod) = last - n
    BY <2>2, Distances
  <2>4. AllReceived(SlotIn(counts, counted, n)) <=> n >= 1 /\ IsComplete(n)
    <3>1. CASE n < 1
      BY <2>2, <3>1 DEF SlotIn, NoMessages, AllReceived
    <3>2. CASE n >= 1
      BY <2>2, <3>2, SlotIsFull DEF IsComplete
    <3> QED
      BY <2>2, <3>1, <3>2
  <2>5. n <= last => (last - n \in DOMAIN mutateTicks.slots <=> last - n < Width)
    BY <2>1, <2>2, TickRange DEF SlotsOf
  <2>6. n <= last /\ last - n < Width
          => mutateTicks.slots[last - n] = SlotIn(counts, counted, n)
    <3> SUFFICES ASSUME n <= last, last - n < Width
                 PROVE  mutateTicks.slots[last - n] = SlotIn(counts, counted, n)
      OBVIOUS
    <3>1. last - n \in 0..(Width - 1) /\ last - (last - n) = n
      BY <2>2, TickRange
    <3> QED
      BY <2>1, <3>1 DEF SlotsOf
  <2>7. CASE last < n
    BY <2>1, <2>2, <2>3, <2>7, TickRange DEF TickContains
  <2>8. CASE n <= last
    <3>1. TickContains(mutateTicks, TickOf(n))
            <=> (last - n \in DOMAIN mutateTicks.slots
                   => AllReceived(mutateTicks.slots[last - n]))
      BY <2>1, <2>2, <2>3, <2>8 DEF TickContains
    <3> QED
      BY <2>1, <2>2, <2>4, <2>5, <2>6, <2>8, <3>1, TickRange
  <2> QED
    BY <2>2, <2>7, <2>8
<1> QED
  BY <1>1, HistoryHolds, PTL

-----------------------------------------------------------------------------
(* The diffs.                                                              *)

\* The index of the i-th change that the server gave one, and what it stands
\* for in v, the edits by index, unless it is spoiled: a direct change went unseen
\* there, or at one before it since the last reset.
IndexOf(i) == Advance(FirstIndex, i, IndexMod)
Spoiled(v, i) == v[IndexOf(i)] = None
AtIndex(v, i, n) == IndexOf(i) \in DOMAIN v /\ v[IndexOf(i)] \in {n, None}
IsDiff(v, i, d) ==
  /\ i \in 1..MaxEdits /\ d \in 1..MaxEdits
  /\ AtIndex(v, i, d) /\ AtIndex(v, i - 1, d - 1)
  /\ Spoiled(v, i - 1) => Spoiled(v, i)

\* A run of diffs, the last one at index i.
AreDiffs(v, i, ds) ==
  /\ ds \in Seq(Nat) /\ Len(ds) <= i
  /\ \A j \in 1..Len(ds) : IsDiff(v, i - Len(ds) + j, ds[j])

\* Only the indices up to c stand for something.
Used(v, c) == \A x \in DOMAIN v : v[x] \in Nat \cup {None} /\ \E i \in 0..c : x = IndexOf(i)

\* The server has used the indices up to c, and has the diffs that end there; when
\* the component still has the change tick of the last of them, now, that is the
\* last change.
HistoryEnds(v, e, h, c, now) ==
  /\ now \in 0..e /\ h.changed \in 0..e /\ c <= e
  /\ h.changed # now => c < e
  /\ h.changed = now => AtIndex(v, c, e)
  /\ h.next = IndexOf(c + 1) /\ IndexOf(c) \in DOMAIN v
  /\ AreDiffs(v, c, h.diffs) /\ Len(h.diffs) <= HistoryLen
  /\ Used(v, c)
\* The server's history of the diffs is the run that ends at its last change.
DiffsFit == edits \in 0..MaxEdits /\ \E c \in Nat : HistoryEnds(valueAt, edits, diffs, c, changed)

\* A component with the value that its index x stands for.
IsValueAt(v, x, value) == v[x] # None => value = ValueAfter(v[x])

\* A delta has the whole component as it is at its index, or a run of diffs up
\* to there.
IsSnapshot(v, d) == d.kind = "Snapshot" /\ IsValueAt(v, d.index, d.edits)
DeltaFits(v, d) ==
  d # NoDelta =>
    \E k \in 0..MaxEdits :
      /\ d.index = IndexOf(k) /\ d.index \in DOMAIN v
      /\ IsSnapshot(v, d) \/ (d.kind = "Diffs" /\ AreDiffs(v, k, d.edits))

\* What the server and the messages say of the acknowledged change.
Knows(v, e, at, cursor) == at \in 0..e /\ cursor \in DOMAIN v \cup {None}
MessagesKnow ==
  /\ Knows(valueAt, edits, entityTicks.at, entityTicks.cursor)
  /\ \A m \in flight \cup arrived \cup acks :
       Knows(valueAt, edits, m.at, m.cursor) /\ DeltaFits(valueAt, m.delta)

\* The component is the one of its index, if it is exact, and the diffs that
\* wait for it are newer.
Waits(v, a, p) == \A x \in DOMAIN p : \E i \in (a + 1)..MaxEdits : x = IndexOf(i) /\ IsDiff(v, i, p[x])
CopyFits(v, c, exact) ==
  /\ c = [value |-> c.value, applied |-> c.applied, pending |-> c.pending]
  /\ \E a \in 0..MaxEdits :
       /\ c.applied = IndexOf(a) /\ c.applied \in DOMAIN v
       /\ exact => IsValueAt(v, c.applied, c.value)
       /\ Waits(v, a, c.pending)

\* The diffs of the server, of the messages and of the client are the ones that
\* their indices stand for.
DiffInv == DiffsFit /\ MessagesKnow /\ CopyFits(valueAt, copy, ~needHistory)

\* Sizes, and the bits of the mask, also after a jump.
SizesFit ==
  /\ \A x \in DOMAIN valueAt : valueAt[x] \in 0..edits \cup {None}
  /\ IsFiniteSet(flight \cup arrived) /\ Cardinality(flight \cup arrived) <= MaxInFlight
  /\ confirm.mask \subseteq 0..(Width - 1) /\ 0 \in confirm.mask

-----------------------------------------------------------------------------
(* The frontier.                                                           *)

\* The component at the n-th tick, a message that carries it, and a client that
\* has n edits or will have them when a message that has arrived is applied.
EditsAt(n) == IF n = 0 THEN 0 ELSE editsAt[n]
IsDelta(m) == m.delta # NoDelta
Reached(c, ms, n, before) ==
  Len(c.value) >= n \/ \E m \in ms : IsDelta(m) /\ m.at = n /\ m.n < before

\* The edits at a tick only grow, and a message has those at its tick.
EditsFit ==
  /\ editsAt \in Seq(Nat) /\ Len(editsAt) = ticks /\ edits \in Nat /\ entityTicks.at \in 0..edits
  /\ \A i \in 1..ticks : editsAt[i] <= edits /\ \A j \in i..ticks : editsAt[i] <= editsAt[j]
  /\ \A m \in flight \cup arrived \cup acks : m.n \in 1..ticks /\ m.at = editsAt[m.n]

\* The confirmed tick is one that is complete.
ConfirmedFits ==
  mutateTicks.confirmed = None \/ \E n \in 1..ticks : mutateTicks.confirmed = TickOf(n) /\ IsComplete(n)

\* When deltas are snapshots the client has what the last applied tick had,
\* what was acknowledged it has or is about to have, and a tick that is not
\* reached either has a delta that was not counted, or says that nothing
\* changed since an earlier one that has arrived.
Snapshots ==
  /\ entityTicks.cursor = None
  /\ \A m \in flight \cup arrived \cup acks :
       m.cursor = None /\ (IsDelta(m) => m.delta.kind = "Snapshot" /\ m.delta.edits = ValueAfter(m.at))
  /\ \A last \in applied : IsNewest(last, applied) => Len(copy.value) = EditsAt(last)
\* The message with the delta of a tick, which is the first, is still to come.
Awaited(n) == <<n, 1>> \notin counted /\ \A m \in flight \cup arrived : m.n = n /\ m.part = 1 => IsDelta(m)
FrontierFits ==
  /\ \A n \in 1..ticks : Reached(copy, arrived, editsAt[n], n) \/ Awaited(n)
  /\ Reached(copy, arrived, entityTicks.at, ticks + 1)
  /\ \A m \in acks : IsDelta(m) /\ Reached(copy, arrived, m.at, ticks + 1)
\* Deltas are snapshots as long as no first cursor is recorded.
FrontierInv == EditsFit /\ ConfirmedFits /\ (~recordsFirst => Snapshots /\ FrontierFits)

-----------------------------------------------------------------------------
(* Diff indices that wrap.                                                 *)

\* The index after the last change is still within half of the range.
LEMMA IndexRange ==
  /\ IndexMod \in Nat /\ IndexMod > 0 /\ MaxEdits \in Nat
  /\ FirstIndex \in 0..(IndexMod - 1)
  /\ MaxNewerDistance(IndexMod) \in Nat
  /\ MaxEdits + 1 \in Nat /\ MaxEdits + 1 <= MaxNewerDistance(IndexMod)
  /\ HistoryLen \in Nat /\ HistoryLen >= 1
  /\ None \notin Nat
PROOF BY MutationHistoryAssumption DEF MutationHistoryAssumption, MaxNewerDistance

\* Indices are as far apart as the changes they stand for.
LEMMA Indices ==
  ASSUME NEW a \in 0..(MaxEdits + 1), NEW b \in 0..(MaxEdits + 1)
  PROVE  /\ b <= a => DistanceAfter(IndexOf(a), IndexOf(b), IndexMod) = a - b
         /\ IsNewer(IndexOf(a), IndexOf(b), IndexMod) <=> b < a
         /\ IndexOf(a) = IndexOf(b) => a = b
<1> DEFINE bound == MaxEdits + 1
<1>1. bound \in Nat /\ bound <= MaxNewerDistance(IndexMod) /\ a \in 0..bound /\ b \in 0..bound
  BY IndexRange
<1>2. IndexMod \in Nat /\ FirstIndex \in 0..(IndexMod - 1)
  BY IndexRange
<1> HIDE DEF bound
<1> QED
  BY <1>1, <1>2, WrapDistance DEF IndexOf

\* Going n indices back or on is going n changes back or on.
LEMMA IndexSteps ==
  ASSUME NEW a \in 0..(MaxEdits + 1), NEW n \in Nat
  PROVE  /\ n <= a => (IndexOf(a) - n) % IndexMod = IndexOf(a - n)
         /\ a + n <= MaxEdits + 1 => Advance(IndexOf(a), n, IndexMod) = IndexOf(a + n)
<1>1. ASSUME NEW b \in 0..(MaxEdits + 1), NEW c \in Nat, b = c + n
      PROVE  /\ (IndexOf(b) - n) % IndexMod = IndexOf(c)
             /\ Advance(IndexOf(c), n, IndexMod) = IndexOf(b)
  <2> DEFINE x == IndexOf(b)
             y == IndexOf(c)
             down == x - n
             up == y + n
  <2>1. /\ IndexMod \in Nat /\ IndexMod > 0 /\ FirstIndex \in 0..(IndexMod - 1)
        /\ b \in 0..IndexMod /\ c \in 0..IndexMod /\ n \in 0..IndexMod
    BY <1>1, IndexRange DEF MaxNewerDistance
  <2>2. Advance(y, n, IndexMod) = up % IndexMod
    BY DEF Advance
  <2>3. x \in 0..(IndexMod - 1) /\ (x = FirstIndex + b \/ x = FirstIndex + b - IndexMod)
    BY <2>1, WrapValue DEF IndexOf
  <2>4. y \in 0..(IndexMod - 1) /\ (y = FirstIndex + c \/ y = FirstIndex + c - IndexMod)
    BY <2>1, WrapValue DEF IndexOf
  <2> HIDE DEF x, y
  <2>5. down \in Int /\ down \in (-IndexMod)..(IndexMod - 1) /\ down \in {y, y - IndexMod, y + IndexMod}
    BY <1>1, <2>1, <2>3, <2>4
  <2>6. up \in Int /\ up \in 0..(2 * IndexMod - 1) /\ up \in {x, x - IndexMod, x + IndexMod}
    BY <1>1, <2>1, <2>3, <2>4
  <2> HIDE DEF down, up
  <2>7. down % IndexMod = y
    <3>1. /\ down \in 0..(IndexMod - 1) => down % IndexMod = down
          /\ down \in (-IndexMod)..(-1) => down % IndexMod = down + IndexMod
      BY <2>1, <2>5, Remainders
    <3> QED
      BY <2>1, <2>4, <2>5, <3>1
  <2>8. up % IndexMod = x
    <3>1. /\ up \in 0..(IndexMod - 1) => up % IndexMod = up
          /\ up \in IndexMod..(2 * IndexMod - 1) => up % IndexMod = up - IndexMod
      BY <2>1, <2>6, Remainders
    <3> QED
      BY <2>1, <2>3, <2>6, <3>1
  <2> QED
    BY <2>2, <2>7, <2>8 DEF down, x, y
<1>2. ASSUME n <= a PROVE (IndexOf(a) - n) % IndexMod = IndexOf(a - n)
  <2> DEFINE c == a - n
  <2>1. c \in Nat /\ a = c + n
    BY <1>2, IndexRange
  <2> HIDE DEF c
  <2>2. (IndexOf(a) - n) % IndexMod = IndexOf(c)
    BY <1>1, <2>1
  <2> QED
    BY <2>2 DEF c
<1>3. ASSUME a + n <= MaxEdits + 1 PROVE Advance(IndexOf(a), n, IndexMod) = IndexOf(a + n)
  <2> DEFINE b == a + n
  <2>1. b \in 0..(MaxEdits + 1) /\ b = a + n /\ a \in Nat
    BY <1>3, IndexRange
  <2> HIDE DEF b
  <2>2. Advance(IndexOf(a), n, IndexMod) = IndexOf(b)
    BY <1>1, <2>1
  <2> QED
    BY <2>2 DEF b
<1> QED
  BY <1>2, <1>3

\* An index is one of the modulus.
LEMMA IndexValue ==
  ASSUME NEW a \in 0..(MaxEdits + 1)
  PROVE  IndexOf(a) \in 0..(IndexMod - 1)
<1>1. a \in 0..IndexMod
  BY IndexRange DEF MaxNewerDistance
<1> QED
  BY <1>1, IndexRange, WrapValue DEF IndexOf

-----------------------------------------------------------------------------
(* What the indices stand for is only ever added to, or spoiled.           *)

\* Every index of v stands for the same in w, or is spoiled there with the next
\* one, if that was there too.
Extends(v, w) ==
  /\ \A x \in DOMAIN v : x \in DOMAIN w /\ w[x] \in {v[x], None}
  /\ \A i \in 1..MaxEdits :
       /\ IndexOf(i - 1) \in DOMAIN v /\ IndexOf(i) \in DOMAIN v
       /\ Spoiled(w, i - 1)
       => Spoiled(v, i - 1) \/ Spoiled(w, i)

\* What an index stands for,
LEMMA AtIndexLasts ==
  ASSUME NEW v, NEW w, Extends(v, w), NEW i, NEW n, AtIndex(v, i, n)
  PROVE  AtIndex(w, i, n)
<1> DEFINE x == IndexOf(i)
<1>1. x \in DOMAIN v /\ v[x] \in {n, None}
  BY DEF AtIndex
<1>2. x \in DOMAIN w /\ w[x] \in {v[x], None}
  BY <1>1 DEF Extends
<1>3. w[x] \in {n, None}
  BY <1>1, <1>2
<1> QED
  BY <1>2, <1>3 DEF AtIndex

\* a diff,
LEMMA DiffLasts ==
  ASSUME NEW v, NEW w, Extends(v, w), NEW i, NEW d, IsDiff(v, i, d)
  PROVE  IsDiff(w, i, d)
<1>1. /\ i \in 1..MaxEdits /\ d \in 1..MaxEdits
      /\ AtIndex(v, i, d) /\ AtIndex(v, i - 1, d - 1)
      /\ Spoiled(v, i - 1) => Spoiled(v, i)
  BY DEF IsDiff
<1>2. AtIndex(w, i, d) /\ AtIndex(w, i - 1, d - 1)
  BY <1>1, AtIndexLasts
<1>3. IndexOf(i - 1) \in DOMAIN v /\ IndexOf(i) \in DOMAIN v
  BY <1>1 DEF AtIndex
<1>4. Spoiled(v, i) => Spoiled(w, i)
  <2>1. w[IndexOf(i)] \in {v[IndexOf(i)], None}
    BY <1>3 DEF Extends
  <2> QED
    BY <2>1 DEF Spoiled
<1>5. Spoiled(w, i - 1) => Spoiled(v, i - 1) \/ Spoiled(w, i)
  BY <1>1, <1>3 DEF Extends
<1>6. Spoiled(w, i - 1) => Spoiled(w, i)
  BY <1>1, <1>4, <1>5
<1> QED
  BY <1>1, <1>2, <1>6 DEF IsDiff

\* a run of diffs,
LEMMA DiffsLast ==
  ASSUME NEW v, NEW w, Extends(v, w), NEW i, NEW ds, AreDiffs(v, i, ds)
  PROVE  AreDiffs(w, i, ds)
PROOF BY DiffLasts DEF AreDiffs

\* a value,
LEMMA ValueLasts ==
  ASSUME NEW v, NEW w, Extends(v, w), NEW x \in DOMAIN v, NEW value, IsValueAt(v, x, value)
  PROVE  x \in DOMAIN w /\ IsValueAt(w, x, value)
<1>1. x \in DOMAIN w /\ w[x] \in {v[x], None}
  BY DEF Extends
<1> QED
  BY <1>1 DEF IsValueAt

\* what a delta has,
LEMMA DeltaLasts ==
  ASSUME NEW v, NEW w, Extends(v, w), NEW d, DeltaFits(v, d)
  PROVE  DeltaFits(w, d)
<1> SUFFICES ASSUME d # NoDelta PROVE DeltaFits(w, d)
  BY DEF DeltaFits
<1>1. PICK k \in 0..MaxEdits :
        /\ d.index = IndexOf(k) /\ d.index \in DOMAIN v
        /\ IsSnapshot(v, d) \/ (d.kind = "Diffs" /\ AreDiffs(v, k, d.edits))
  BY DEF DeltaFits
<1>2. d.index \in DOMAIN w
  BY <1>1 DEF Extends
<1>3. IsSnapshot(v, d) => IsSnapshot(w, d)
  BY <1>1, ValueLasts DEF IsSnapshot
<1>4. AreDiffs(v, k, d.edits) => AreDiffs(w, k, d.edits)
  BY DiffsLast
<1> QED
  BY <1>1, <1>2, <1>3, <1>4 DEF DeltaFits

\* what is known of the acknowledged change
LEMMA KnowledgeLasts ==
  ASSUME NEW v, NEW w, Extends(v, w), NEW e \in Nat, NEW f \in Nat, e <= f,
         NEW at, NEW cursor, Knows(v, e, at, cursor)
  PROVE  Knows(w, f, at, cursor)
PROOF BY DEF Knows, Extends

\* and what the client has stay what they are when indices are added.
LEMMA CopyLasts ==
  ASSUME NEW v, NEW w, Extends(v, w), NEW c, NEW exact, CopyFits(v, c, exact)
  PROVE  CopyFits(w, c, exact)
<1>1. PICK a \in 0..MaxEdits :
        /\ c.applied = IndexOf(a) /\ c.applied \in DOMAIN v
        /\ exact => IsValueAt(v, c.applied, c.value)
        /\ Waits(v, a, c.pending)
  BY DEF CopyFits
<1>2. c.applied \in DOMAIN w
  BY <1>1 DEF Extends
<1>3. Waits(w, a, c.pending)
  BY <1>1, DiffLasts DEF Waits
<1>4. exact => IsValueAt(w, c.applied, c.value)
  BY <1>1, ValueLasts
<1>5. c = [value |-> c.value, applied |-> c.applied, pending |-> c.pending]
  BY DEF CopyFits
<1> QED
  BY <1>1, <1>2, <1>3, <1>4, <1>5 DEF CopyFits

\* A step of the server that adds to what the indices stand for keeps what the
\* messages and the copy say of them.
LEMMA WhatIsSaidLasts ==
  ASSUME DiffInv, Extends(valueAt, valueAt'), edits \in Nat, edits' \in Nat, edits <= edits',
         UNCHANGED <<entityTicks, copy, needHistory>>
  PROVE  /\ Knows(valueAt', edits', entityTicks'.at, entityTicks'.cursor)
         /\ \A m \in flight \cup arrived \cup acks :
              Knows(valueAt', edits', m.at, m.cursor) /\ DeltaFits(valueAt', m.delta)
         /\ CopyFits(valueAt', copy', ~needHistory')
<1>1. Knows(valueAt', edits', entityTicks'.at, entityTicks'.cursor)
  BY KnowledgeLasts DEF DiffInv, MessagesKnow
<1>2. ASSUME NEW m \in flight \cup arrived \cup acks
      PROVE  Knows(valueAt', edits', m.at, m.cursor) /\ DeltaFits(valueAt', m.delta)
  BY KnowledgeLasts, DeltaLasts DEF DiffInv, MessagesKnow
<1>3. CopyFits(valueAt', copy', ~needHistory')
  BY CopyLasts DEF DiffInv
<1> QED
  BY <1>1, <1>2, <1>3

-----------------------------------------------------------------------------
(* Runs of diffs.                                                          *)

\* A diff more, one less in front, and the last of them.
LEMMA OneDiffMore ==
  ASSUME NEW v, NEW i \in Nat, NEW ds, AreDiffs(v, i, ds), NEW d \in Nat, IsDiff(v, i + 1, d)
  PROVE  AreDiffs(v, i + 1, Append(ds, d)) /\ Len(Append(ds, d)) = Len(ds) + 1
<1> DEFINE es == Append(ds, d)
<1>1. ds \in Seq(Nat) /\ Len(ds) \in Nat /\ Len(ds) <= i
  BY DEF AreDiffs
<1>2. es \in Seq(Nat) /\ Len(es) = Len(ds) + 1 /\ es[Len(ds) + 1] = d
  BY <1>1
<1>3. \A j \in 1..Len(ds) : es[j] = ds[j]
  BY <1>1
<1> HIDE DEF es
<1>4. ASSUME NEW j \in 1..Len(es) PROVE IsDiff(v, i + 1 - Len(es) + j, es[j])
  <2>1. CASE j = Len(ds) + 1
    <3>1. i + 1 - Len(es) + j = i + 1
      BY <1>1, <1>2, <2>1
    <3> QED
      BY <1>2, <2>1, <3>1
  <2>2. CASE j # Len(ds) + 1
    <3>1. j \in 1..Len(ds) /\ i + 1 - Len(es) + j = i - Len(ds) + j
      BY <1>1, <1>2, <2>2
    <3> QED
      BY <1>3, <3>1 DEF AreDiffs
  <2> QED
    BY <2>1, <2>2
<1> QED
  BY <1>1, <1>2, <1>4 DEF AreDiffs, es

\* The last diffs of a run,
LEMMA LastDiffs ==
  ASSUME NEW v, NEW i \in Nat, NEW ds, AreDiffs(v, i, ds), NEW n \in 0..Len(ds)
  PROVE  /\ AreDiffs(v, i, SubSeq(ds, Len(ds) - n + 1, Len(ds)))
         /\ Len(SubSeq(ds, Len(ds) - n + 1, Len(ds))) = n
<1> DEFINE es == SubSeq(ds, Len(ds) - n + 1, Len(ds))
<1>1. ds \in Seq(Nat) /\ Len(ds) \in Nat /\ Len(ds) <= i /\ n \in Nat /\ n <= Len(ds)
  BY DEF AreDiffs
<1>2. es \in Seq(Nat) /\ Len(es) = n /\ \A j \in 1..n : es[j] = ds[Len(ds) - n + j]
  BY <1>1
<1> HIDE DEF es
<1>3. ASSUME NEW j \in 1..Len(es) PROVE IsDiff(v, i - Len(es) + j, es[j])
  <2>1. Len(ds) - n + j \in 1..Len(ds) /\ i - Len(ds) + (Len(ds) - n + j) = i - Len(es) + j
    BY <1>1, <1>2
  <2>2. IsDiff(v, i - Len(ds) + (Len(ds) - n + j), ds[Len(ds) - n + j])
    BY <2>1 DEF AreDiffs
  <2> QED
    BY <1>2, <2>1, <2>2
<1>4. AreDiffs(v, i, es)
  BY <1>1, <1>2, <1>3 DEF AreDiffs
<1> QED
  BY <1>2, <1>4 DEF es

\* a run without its oldest diff (what the history does at HISTORY_LEN)
LEMMA TailDiffs ==
  ASSUME NEW v, NEW i \in Nat, NEW ds, AreDiffs(v, i, ds), Len(ds) >= 1
  PROVE  AreDiffs(v, i, Tail(ds)) /\ Len(Tail(ds)) = Len(ds) - 1
<1>1. ds \in Seq(Nat) /\ Len(ds) \in Nat
  BY DEF AreDiffs
<1>2. Len(ds) - 1 \in 0..Len(ds) /\ Len(ds) - (Len(ds) - 1) + 1 = 2
  BY <1>1
<1>3. Tail(ds) = SubSeq(ds, 2, Len(ds))
  BY <1>1
<1> DEFINE n == Len(ds) - 1
<1>4. n \in 0..Len(ds) /\ Len(ds) - n + 1 = 2
  BY <1>2
<1> HIDE DEF n
<1>5. /\ AreDiffs(v, i, SubSeq(ds, Len(ds) - n + 1, Len(ds)))
      /\ Len(SubSeq(ds, Len(ds) - n + 1, Len(ds))) = n
  BY <1>4, LastDiffs
<1>6. AreDiffs(v, i, Tail(ds)) /\ Len(Tail(ds)) = n
  BY <1>3, <1>4, <1>5
<1> QED
  BY <1>6 DEF n

\* and no diffs are runs that end at the same index.
LEMMA NoDiffs ==
  ASSUME NEW v, NEW i \in Nat
  PROVE  AreDiffs(v, i, <<>>) /\ Len(<<>>) = 0
PROOF BY DEF AreDiffs

-----------------------------------------------------------------------------
(* The diffs of the server.                                                *)

\* An index that was not used yet.
LEMMA NewIndex ==
  ASSUME NEW v, NEW c \in Nat, Used(v, c),
         NEW k \in Nat, c < k, k <= MaxEdits + 1, NEW n \in Nat \cup {None},
         NEW w, w = With(v, IndexOf(k), n)
  PROVE  Extends(v, w) /\ IndexOf(k) \in DOMAIN w /\ w[IndexOf(k)] = n /\ Used(w, k)
<1> DEFINE x0 == IndexOf(k)
<1>1. x0 \notin DOMAIN v
  <2> SUFFICES ASSUME x0 \in DOMAIN v PROVE FALSE
    OBVIOUS
  <2>1. PICK i \in 0..c : x0 = IndexOf(i)
    BY DEF Used
  <2>2. i \in 0..(MaxEdits + 1) /\ k \in 0..(MaxEdits + 1) /\ i # k
    BY IndexRange
  <2> QED
    BY <2>1, <2>2, Indices
<1>2. k \in 0..k /\ \A i \in 0..c : i \in 0..k
  OBVIOUS
<1>4. w = [x \in {x0} \cup DOMAIN v |-> IF x = x0 THEN n ELSE v[x]]
  BY DEF With
<1> HIDE DEF x0
<1>5. w[x0] = n /\ DOMAIN w = {x0} \cup DOMAIN v
  BY <1>4
<1>6. \A x \in DOMAIN v : w[x] = v[x]
  BY <1>1, <1>4
<1>7. Extends(v, w)
  <2>1. ASSUME NEW i \in 1..MaxEdits, IndexOf(i - 1) \in DOMAIN v, Spoiled(w, i - 1)
        PROVE  Spoiled(v, i - 1)
    BY <1>6, <2>1 DEF Spoiled
  <2> QED
    BY <1>5, <1>6, <2>1 DEF Extends
<1>9. ASSUME NEW x \in DOMAIN w PROVE w[x] \in Nat \cup {None} /\ \E i \in 0..k : x = IndexOf(i)
  <2>1. CASE x = x0
    BY <1>2, <1>5, <2>1 DEF x0
  <2>2. CASE x # x0
    <3>1. x \in DOMAIN v /\ w[x] = v[x]
      BY <1>5, <1>6, <2>2
    <3>2. v[x] \in Nat \cup {None} /\ \E i \in 0..c : x = IndexOf(i)
      BY <3>1 DEF Used
    <3> QED
      BY <1>2, <3>1, <3>2
  <2> QED
    BY <2>1, <2>2
<1>10. Used(w, k)
  BY <1>9 DEF Used
<1> QED
  BY <1>5, <1>7, <1>10 DEF x0

\* The last index is spoiled: nothing comes after it.
LEMMA LastIndexIsSpoiled ==
  ASSUME NEW v, NEW c \in 0..MaxEdits, Used(v, c), IndexOf(c) \in DOMAIN v,
         NEW w, w = With(v, IndexOf(c), None)
  PROVE  Extends(v, w) /\ IndexOf(c) \in DOMAIN w /\ Spoiled(w, c) /\ Used(w, c)
<1> DEFINE x0 == IndexOf(c)
<1>1. w = [x \in {x0} \cup DOMAIN v |-> IF x = x0 THEN None ELSE v[x]]
  BY DEF With
<1>2. DOMAIN w = DOMAIN v /\ w[x0] = None /\ \A x \in DOMAIN v : w[x] \in {v[x], None}
  BY <1>1
<1>3. ASSUME NEW i \in 1..MaxEdits, IndexOf(i - 1) \in DOMAIN v, IndexOf(i) \in DOMAIN v, Spoiled(w, i - 1)
      PROVE  Spoiled(v, i - 1) \/ Spoiled(w, i)
  <2>1. CASE IndexOf(i - 1) = IndexOf(c)
    <3>1. i - 1 \in 0..(MaxEdits + 1) /\ c \in 0..(MaxEdits + 1) /\ i \in 0..(MaxEdits + 1) /\ i \in Nat
      BY IndexRange
    <3>2. i - 1 = c
      BY <2>1, <3>1, Indices
    <3>3. PICK j \in 0..c : IndexOf(i) = IndexOf(j)
      BY <1>3 DEF Used
    <3>4. j \in 0..(MaxEdits + 1) /\ j <= c /\ j \in Nat
      BY IndexRange
    <3>5. i = j
      BY <3>1, <3>3, <3>4, Indices
    <3> QED
      BY <3>1, <3>2, <3>4, <3>5
  <2>2. CASE IndexOf(i - 1) # IndexOf(c)
    <3>1. w[IndexOf(i - 1)] = v[IndexOf(i - 1)]
      BY <1>1, <1>3, <2>2
    <3> QED
      BY <1>3, <3>1 DEF Spoiled
  <2> QED
    BY <2>1, <2>2
<1>4. Extends(v, w)
  BY <1>2, <1>3 DEF Extends
<1>5. ASSUME NEW x \in DOMAIN w PROVE w[x] \in Nat \cup {None} /\ \E i \in 0..c : x = IndexOf(i)
  <2>1. v[x] \in Nat \cup {None} /\ w[x] \in {v[x], None} /\ \E i \in 0..c : x = IndexOf(i)
    BY <1>2 DEF Used
  <2> QED
    BY <2>1
<1>6. Used(w, c)
  BY <1>5 DEF Used
<1> QED
  BY <1>2, <1>4, <1>6 DEF Spoiled

\* The bounds of a history.
LEMMA HistoryBounds ==
  ASSUME NEW v, NEW e \in 0..MaxEdits, NEW h, NEW c \in Nat, NEW now, HistoryEnds(v, e, h, c, now)
  PROVE  /\ c <= e /\ h.changed \in 0..e /\ now \in 0..e /\ e \in Nat
         /\ h.changed # now => c < e
         /\ c + 1 \in 0..(MaxEdits + 1) /\ c \in 0..(MaxEdits + 1) /\ c \in 0..MaxEdits
         /\ CurrentIndex(h) = IndexOf(c)
<1>1. /\ c <= e /\ h.changed \in 0..e /\ now \in 0..e /\ e \in Nat
      /\ h.changed # now => c < e
      /\ c + 1 \in 0..(MaxEdits + 1) /\ c \in 0..(MaxEdits + 1) /\ c \in 0..MaxEdits
      /\ 1 \in Nat /\ c + 1 - 1 = c /\ 1 <= c + 1
  BY IndexRange DEF HistoryEnds
<1>2. h.next = IndexOf(c + 1)
  BY DEF HistoryEnds
<1>3. (IndexOf(c + 1) - 1) % IndexMod = IndexOf(c + 1 - 1)
  BY <1>1, IndexSteps
<1> QED
  BY <1>1, <1>2, <1>3 DEF CurrentIndex

\* A change by apply_diff gets the next index, and the one after that when
\* another change had none.
LEMMA RecordFits ==
  ASSUME NEW v, NEW e \in 0..MaxEdits, e < MaxEdits, NEW h, NEW c \in Nat, NEW now,
         HistoryEnds(v, e, h, c, now), NEW after \in {now, e + 1},
         NEW g, g = Record(h, e + 1, now, after),
         NEW n \in {e + 1, None}, n = None <=> (h.changed = now /\ v[CurrentIndex(h)] = None),
         NEW w, w = With(v, CurrentIndex(g), n)
  PROVE  Extends(v, w) /\ \E k \in Nat : HistoryEnds(w, e + 1, g, k, after)
<1>1. /\ c <= e /\ after \in 0..(e + 1) /\ CurrentIndex(h) = IndexOf(c)
      /\ e \in Nat /\ e + 1 \in Nat /\ c + 3 <= MaxEdits + 2 /\ c + 1 \in 0..(MaxEdits + 1)
      /\ c \in 0..MaxEdits /\ n \in {e + 1, None} /\ n \in Nat \cup {None}
      /\ h.changed # now => c < e
  <2>1. /\ c <= e /\ now \in 0..e /\ e \in Nat /\ CurrentIndex(h) = IndexOf(c)
        /\ c + 1 \in 0..(MaxEdits + 1) /\ c \in 0..MaxEdits
        /\ h.changed # now => c < e
    BY HistoryBounds
  <2>2. n \in {e + 1, None} /\ (e \in Nat => n \in Nat \cup {None})
    OBVIOUS
  <2>3. /\ after \in 0..(e + 1) /\ e + 1 \in Nat /\ c + 3 <= MaxEdits + 2
    BY <2>1, IndexRange
  <2> QED
    BY <2>1, <2>2, <2>3
<1>2. /\ h.next = IndexOf(c + 1) /\ IndexOf(c) \in DOMAIN v
      /\ h.changed = now => AtIndex(v, c, e)
      /\ AreDiffs(v, c, h.diffs) /\ Len(h.diffs) <= HistoryLen
      /\ Used(v, c)
  BY DEF HistoryEnds
<1>3. ASSUME NEW k \in Nat, c < k, k + 1 <= MaxEdits + 1, k <= e + 1,
             g.next = IndexOf(k + 1), g.changed = after
      PROVE  /\ Extends(v, w) /\ IndexOf(k) \in DOMAIN w /\ w[IndexOf(k)] = n
             /\ AreDiffs(w, k, g.diffs) /\ Len(g.diffs) <= HistoryLen => HistoryEnds(w, e + 1, g, k, after)
  <2>1. k + 1 \in 0..(MaxEdits + 1) /\ 1 \in Nat /\ k + 1 - 1 = k /\ 1 <= k + 1
    BY <1>3
  <2>2. CurrentIndex(g) = IndexOf(k)
    <3>1. (IndexOf(k + 1) - 1) % IndexMod = IndexOf(k + 1 - 1)
      BY <2>1, IndexSteps
    <3> QED
      BY <1>3, <2>1, <3>1 DEF CurrentIndex
  <2>3. w = With(v, IndexOf(k), n) /\ k <= MaxEdits + 1
    BY <2>2, <1>3, IndexRange
  <2>4. Extends(v, w) /\ IndexOf(k) \in DOMAIN w /\ w[IndexOf(k)] = n /\ Used(w, k)
    BY <1>1, <1>2, <1>3, <2>3, NewIndex
  <2>5. AtIndex(w, k, e + 1)
    BY <1>1, <2>4 DEF AtIndex
  <2>6. AreDiffs(w, k, g.diffs) /\ Len(g.diffs) <= HistoryLen => HistoryEnds(w, e + 1, g, k, after)
    BY <1>1, <1>3, <2>4, <2>5 DEF HistoryEnds
  <2> QED
    BY <2>4, <2>6
<1>4. CASE h.changed # now
  <2>1. g = [next |-> Advance(h.next, 2, IndexMod), changed |-> after, diffs |-> <<>>]
    BY <1>1, <1>4 DEF Record
  <2>2. g.next = Advance(h.next, 2, IndexMod) /\ g.changed = after /\ g.diffs = <<>>
    BY <2>1
  <2>3. /\ c + 2 \in Nat /\ c < c + 2 /\ c + 2 + 1 <= MaxEdits + 1 /\ c + 2 <= e + 1
        /\ c + 1 + 2 = c + 2 + 1 /\ 2 \in Nat
    BY <1>1, <1>4, IndexRange
  <2>4. Advance(IndexOf(c + 1), 2, IndexMod) = IndexOf(c + 1 + 2)
    BY <1>1, <2>3, IndexSteps
  <2>5. g.next = IndexOf(c + 2 + 1)
    BY <1>2, <2>2, <2>3, <2>4
  <2>6. AreDiffs(w, c + 2, g.diffs) /\ Len(g.diffs) <= HistoryLen
    BY <2>2, <2>3, NoDiffs, IndexRange
  <2> QED
    BY <1>3, <2>2, <2>3, <2>5, <2>6
<1>5. CASE h.changed = now
  <2> DEFINE ds == h.diffs
             es == IF Len(ds) < HistoryLen THEN Append(ds, e + 1) ELSE Append(Tail(ds), e + 1)
  <2>1. g = [next |-> Advance(h.next, 1, IndexMod), changed |-> after, diffs |-> es]
    BY <1>1, <1>5 DEF Record
  <2> HIDE DEF es
  <2>2. g.next = Advance(h.next, 1, IndexMod) /\ g.changed = after /\ g.diffs = es
    BY <2>1
  <2>3. /\ c + 1 \in Nat /\ c < c + 1 /\ c + 1 + 1 <= MaxEdits + 1 /\ c + 1 <= e + 1
        /\ c + 1 + 1 \in Nat /\ 1 \in Nat /\ c + 1 - 1 = c
        /\ c + 1 \in 1..MaxEdits /\ e + 1 \in 1..MaxEdits /\ e + 1 - 1 = e
    BY <1>1, <1>5, IndexRange
  <2>4. Advance(IndexOf(c + 1), 1, IndexMod) = IndexOf(c + 1 + 1)
    BY <1>1, <2>3, IndexSteps
  <2>5. g.next = IndexOf(c + 1 + 1)
    BY <1>2, <2>2, <2>4
  <2>6. Extends(v, w) /\ IndexOf(c + 1) \in DOMAIN w /\ w[IndexOf(c + 1)] = n
    BY <1>3, <2>2, <2>3, <2>5
  <2>7. IsDiff(w, c + 1, e + 1)
    <3>1. AtIndex(w, c, e)
      BY <1>2, <1>5, <2>6, AtIndexLasts
    <3>2. AtIndex(w, c + 1, e + 1)
      BY <1>1, <2>6 DEF AtIndex
    <3>3. Spoiled(w, c) => Spoiled(w, c + 1)
      <4> SUFFICES ASSUME Spoiled(w, c), n # None PROVE FALSE
        BY <2>6 DEF Spoiled
      <4>1. v[IndexOf(c)] # None
        BY <1>1, <1>5
      <4>2. w[IndexOf(c)] = None /\ CurrentIndex(g) = IndexOf(c + 1)
        <5>1. (IndexOf(c + 1 + 1) - 1) % IndexMod = IndexOf(c + 1 + 1 - 1)
          <6>1. c + 1 + 1 \in 0..(MaxEdits + 1) /\ 1 <= c + 1 + 1
            BY <2>3
          <6> QED
            BY <2>3, <6>1, IndexSteps
        <5>2. c + 1 + 1 - 1 = c + 1
          BY <2>3
        <5> QED
          BY <2>5, <5>1, <5>2 DEF CurrentIndex, Spoiled
      <4>3. w = [z \in {IndexOf(c + 1)} \cup DOMAIN v |-> IF z = IndexOf(c + 1) THEN n ELSE v[z]]
        BY <4>2 DEF With
      <4>4. w[IndexOf(c)] \in {n, v[IndexOf(c)]}
        BY <1>2, <4>3
      <4> QED
        BY <4>1, <4>2, <4>4
    <3> QED
      BY <2>3, <3>1, <3>2, <3>3 DEF IsDiff
  <2>8. AreDiffs(w, c, ds) /\ ds \in Seq(Nat) /\ Len(ds) \in Nat
    <3>1. AreDiffs(w, c, ds)
      BY <1>2, <2>6, DiffsLast
    <3>2. ds \in Seq(Nat)
      BY <3>1 DEF AreDiffs
    <3> HIDE DEF ds
    <3>3. Len(ds) \in Nat
      BY <3>2
    <3> QED
      BY <3>1, <3>2, <3>3
  <2>9. AreDiffs(w, c + 1, es) /\ Len(es) <= HistoryLen
    <3>1. CASE Len(ds) < HistoryLen
      <4>1. es = Append(ds, e + 1)
        BY <3>1 DEF es
      <4>2. AreDiffs(w, c + 1, Append(ds, e + 1)) /\ Len(Append(ds, e + 1)) = Len(ds) + 1
        BY <1>1, <2>7, <2>8, OneDiffMore
      <4> QED
        BY <2>8, <3>1, <4>1, <4>2, IndexRange
    <3>2. CASE ~(Len(ds) < HistoryLen)
      <4>1. es = Append(Tail(ds), e + 1)
        BY <3>2 DEF es
      <4>2. Len(ds) >= 1 /\ Len(ds) <= HistoryLen
        BY <1>2, <2>8, <3>2, IndexRange
      <4>3. AreDiffs(w, c, Tail(ds)) /\ Len(Tail(ds)) = Len(ds) - 1
        BY <2>8, <4>2, TailDiffs
      <4>4. AreDiffs(w, c + 1, Append(Tail(ds), e + 1)) /\ Len(Append(Tail(ds), e + 1)) = Len(Tail(ds)) + 1
        BY <1>1, <2>7, <4>3, OneDiffMore
      <4> QED
        BY <2>8, <4>1, <4>2, <4>3, <4>4
    <3> QED
      BY <3>1, <3>2
  <2> QED
    BY <1>3, <2>2, <2>3, <2>5, <2>6, <2>9
<1> QED
  BY <1>4, <1>5

\* A direct change that the history does not see spoils its last index.
LEMMA UnseenFits ==
  ASSUME NEW v, NEW e \in 0..MaxEdits, e < MaxEdits, NEW h, NEW c \in Nat, NEW now,
         HistoryEnds(v, e, h, c, now), NEW after \in {now, e + 1},
         NEW w, w = (IF after = now /\ h.changed = now THEN With(v, CurrentIndex(h), None) ELSE v)
  PROVE  Extends(v, w) /\ HistoryEnds(w, e + 1, h, c, after)
<1>1. /\ c <= e /\ c < e + 1 /\ e \in Nat /\ e + 1 \in Nat /\ h.changed \in 0..e /\ now \in 0..e
      /\ h.changed \in 0..(e + 1) /\ after \in 0..(e + 1) /\ c <= e + 1
      /\ c \in 0..MaxEdits /\ CurrentIndex(h) = IndexOf(c)
  <2>1. /\ c <= e /\ e \in Nat /\ h.changed \in 0..e /\ now \in 0..e
        /\ c \in 0..MaxEdits /\ CurrentIndex(h) = IndexOf(c)
    BY HistoryBounds
  <2> QED
    BY <2>1
<1>2. /\ h.next = IndexOf(c + 1) /\ IndexOf(c) \in DOMAIN v
      /\ AreDiffs(v, c, h.diffs) /\ Len(h.diffs) <= HistoryLen
      /\ Used(v, c)
  BY DEF HistoryEnds
<1>3. CASE after = now /\ h.changed = now
  <2>1. w = With(v, IndexOf(c), None)
    BY <1>1, <1>3
  <2>2. Extends(v, w) /\ IndexOf(c) \in DOMAIN w /\ Spoiled(w, c) /\ Used(w, c)
    BY <1>1, <1>2, <2>1, LastIndexIsSpoiled
  <2>3. AreDiffs(w, c, h.diffs)
    BY <1>2, <2>2, DiffsLast
  <2>4. AtIndex(w, c, e + 1)
    BY <2>2 DEF AtIndex, Spoiled
  <2> QED
    BY <1>1, <1>2, <2>2, <2>3, <2>4 DEF HistoryEnds
<1>4. CASE ~(after = now /\ h.changed = now)
  <2>1. w = v /\ h.changed # after
    BY <1>1, <1>4
  <2>2. Extends(v, w)
    BY <2>1 DEF Extends
  <2> QED
    BY <1>1, <1>2, <2>1, <2>2 DEF HistoryEnds
<1> QED
  BY <1>3, <1>4

\* A delta that is asked for after another change gives that an index, and one
\* that is asked for after the last recorded change leaves the history alone.
LEMMA AnswerFits ==
  ASSUME NEW v, NEW e \in 0..MaxEdits, NEW h, NEW c \in Nat, NEW now, HistoryEnds(v, e, h, c, now),
         NEW cursor, cursor \in DOMAIN v \cup {None},
         NEW answer, answer = DiffsAfter(h, cursor, now),
         NEW w, w = (IF answer.index \in DOMAIN v THEN v ELSE With(v, answer.index, e))
  PROVE  /\ Extends(v, w)
         /\ \E k \in Nat :
              /\ HistoryEnds(w, e, answer.history, k, now) /\ answer.index = IndexOf(k) /\ AtIndex(w, k, e)
              /\ AreDiffs(w, k, answer.diffs)
<1>1. /\ c <= e /\ e \in Nat /\ h.changed \in 0..e /\ now \in 0..e
      /\ h.changed # now => c < e
      /\ c + 1 \in 0..(MaxEdits + 1) /\ c \in 0..(MaxEdits + 1) /\ CurrentIndex(h) = IndexOf(c)
  BY HistoryBounds
<1>2. /\ h.next = IndexOf(c + 1) /\ IndexOf(c) \in DOMAIN v
      /\ h.changed = now => AtIndex(v, c, e)
      /\ AreDiffs(v, c, h.diffs) /\ Len(h.diffs) <= HistoryLen
      /\ Used(v, c)
  BY DEF HistoryEnds
<1>3. CASE h.changed # now
  <2> DEFINE g == [next |-> Advance(h.next, 1, IndexMod), changed |-> now, diffs |-> <<>>]
  <2>1. answer = [history |-> g, index |-> h.next, diffs |-> <<>>]
    BY <1>3 DEF DiffsAfter
  <2>2. g.next = Advance(h.next, 1, IndexMod) /\ g.changed = now /\ g.diffs = <<>>
    OBVIOUS
  <2> HIDE DEF g
  <2>3. answer.history = g /\ answer.index = IndexOf(c + 1) /\ answer.diffs = <<>>
    BY <1>2, <2>1
  <2>4. c + 1 \in Nat /\ c < c + 1 /\ c + 1 <= e /\ c + 1 + 1 <= MaxEdits + 1 /\ 1 \in Nat /\ c + 1 <= MaxEdits + 1
    BY <1>1, <1>3, IndexRange
  <2>5. w = With(v, IndexOf(c + 1), e)
    <3> SUFFICES ASSUME IndexOf(c + 1) \in DOMAIN v PROVE FALSE
      BY <2>3
    <3>1. PICK i \in 0..c : IndexOf(c + 1) = IndexOf(i)
      BY <1>2 DEF Used
    <3>2. i \in 0..(MaxEdits + 1) /\ i # c + 1
      BY <1>1, IndexRange
    <3> QED
      BY <1>1, <3>1, <3>2, Indices
  <2>6. /\ Extends(v, w) /\ IndexOf(c + 1) \in DOMAIN w /\ w[IndexOf(c + 1)] = e /\ Used(w, c + 1)
    BY <1>1, <1>2, <2>4, <2>5, NewIndex
  <2>7. Advance(IndexOf(c + 1), 1, IndexMod) = IndexOf(c + 1 + 1)
    BY <1>1, <2>4, IndexSteps
  <2>8. AreDiffs(w, c + 1, <<>>) /\ Len(<<>>) <= HistoryLen
    BY <2>4, NoDiffs, IndexRange
  <2>9. g.next = IndexOf(c + 1 + 1) /\ g.changed \in 0..e /\ AtIndex(w, c + 1, e)
    BY <1>1, <1>2, <2>2, <2>4, <2>6, <2>7 DEF AtIndex
  <2>10. HistoryEnds(w, e, g, c + 1, now)
    BY <1>1, <2>2, <2>4, <2>6, <2>8, <2>9 DEF HistoryEnds
  <2> QED
    BY <2>3, <2>4, <2>8, <2>6, <2>9, <2>10
<1>4. CASE h.changed = now
  <2> DEFINE missing == DistanceAfter(CurrentIndex(h), cursor, IndexMod)
             inWindow == cursor # None /\ missing < Len(h.diffs)
             ds == IF inWindow THEN SubSeq(h.diffs, Len(h.diffs) - missing + 1, Len(h.diffs)) ELSE <<>>
  <2>1. answer = [history |-> h, index |-> CurrentIndex(h), diffs |-> ds]
    BY <1>4 DEF DiffsAfter
  <2> HIDE DEF ds, inWindow, missing
  <2>2. answer.history = h /\ answer.index = IndexOf(c) /\ answer.diffs = ds
    BY <1>1, <2>1
  <2>3. AtIndex(v, c, e) /\ w = v
    BY <1>2, <1>4, <2>2
  <2>5. Extends(v, v)
    BY DEF Extends
  <2>8. AreDiffs(v, c, ds)
    <3>1. CASE ~inWindow
      BY <3>1, NoDiffs DEF ds
    <3>2. CASE inWindow
      <4>1. cursor \in DOMAIN v /\ missing < Len(h.diffs)
        BY <3>2 DEF inWindow
      <4>2. PICK i \in 0..c : cursor = IndexOf(i)
        BY <1>2, <4>1 DEF Used
      <4>3. i \in 0..(MaxEdits + 1) /\ i <= c
        BY <1>1, IndexRange
      <4>4. missing = c - i
        BY <1>1, <4>2, <4>3, Indices DEF missing
      <4>5. Len(h.diffs) \in Nat
        BY <1>2 DEF AreDiffs
      <4>6. missing \in 0..Len(h.diffs)
        BY <4>1, <4>3, <4>4, <4>5
      <4>7. ds = SubSeq(h.diffs, Len(h.diffs) - missing + 1, Len(h.diffs))
        BY <3>2 DEF ds
      <4> QED
        BY <1>2, <4>6, <4>7, LastDiffs
    <3> QED
      BY <3>1, <3>2
  <2> QED
    BY <2>2, <2>3, <2>5, <2>8
<1> QED
  BY <1>3, <1>4

\* A delta has an index the server has just used.
LEMMA DeltaIsFitting ==
  ASSUME NEW w, NEW k \in 0..MaxEdits, NEW answer, answer.index = IndexOf(k),
         AtIndex(w, k, edits), AreDiffs(w, k, answer.diffs)
  PROVE  DeltaFits(w, Delta(answer))
<1> DEFINE d == Delta(answer)
<1>1. IndexOf(k) \in DOMAIN w /\ w[IndexOf(k)] \in {edits, None}
  BY DEF AtIndex
<1>2. CASE answer.diffs = <<>>
  <2>1. d = [kind |-> "Snapshot", index |-> answer.index, edits |-> ValueAfter(edits)]
    BY <1>2 DEF Delta
  <2> HIDE DEF d
  <2>2. d.kind = "Snapshot" /\ d.index = IndexOf(k) /\ d.edits = ValueAfter(edits)
    BY <2>1
  <2>3. IsSnapshot(w, d)
    BY <1>1, <2>2 DEF IsSnapshot, IsValueAt
  <2>4. DeltaFits(w, d)
    BY <1>1, <2>2, <2>3 DEF DeltaFits
  <2> QED
    BY <2>4 DEF d
<1>3. CASE answer.diffs # <<>>
  <2>1. d = [kind |-> "Diffs", index |-> answer.index, edits |-> answer.diffs]
    BY <1>3 DEF Delta
  <2> HIDE DEF d
  <2>2. d.kind = "Diffs" /\ d.index = IndexOf(k) /\ d.edits = answer.diffs
    BY <2>1
  <2>3. AreDiffs(w, k, d.edits)
    BY <2>2
  <2>4. DeltaFits(w, d)
    BY <1>1, <2>2, <2>3 DEF DeltaFits
  <2> QED
    BY <2>4 DEF d
<1> QED
  BY <1>2, <1>3

-----------------------------------------------------------------------------
(* The steps of the server and of the network.                             *)

\* The spawn has the first index, for no change.
LEMMA InitDiffs == Init => DiffInv
<1> SUFFICES ASSUME Init PROVE DiffInv
  OBVIOUS
<1>1. IndexOf(0) = FirstIndex
  <2>1. IndexOf(0) \in 0..(IndexMod - 1) /\ (IndexOf(0) = FirstIndex + 0 \/ IndexOf(0) = FirstIndex + 0 - IndexMod)
    <3>1. 0 \in 0..IndexMod
      BY IndexRange
    <3> QED
      BY <3>1, IndexRange, WrapValue DEF IndexOf
  <2> QED
    BY <2>1, IndexRange
<1>2. DOMAIN valueAt = {FirstIndex} /\ valueAt[FirstIndex] = 0 /\ edits = 0 /\ changed = 0
  BY DEF Init
<1>3. 0 \in 0..MaxEdits /\ 0 \in 0..0 /\ 0 \in Nat /\ 0 + 1 = 1
  BY IndexRange
<1>4. DiffsFit
  <2>1. diffs = [next |-> Advance(FirstIndex, 1, IndexMod), changed |-> 0, diffs |-> <<>>]
    BY DEF Init
  <2>2. diffs.next = IndexOf(0 + 1) /\ diffs.changed = 0 /\ diffs.diffs = <<>>
    BY <1>3, <2>1 DEF IndexOf
  <2>3. AtIndex(valueAt, 0, 0)
    BY <1>1, <1>2 DEF AtIndex
  <2>4. AreDiffs(valueAt, 0, <<>>) /\ Len(<<>>) <= HistoryLen
    BY NoDiffs, IndexRange
  <2>5. Used(valueAt, 0)
    BY <1>1, <1>2, <1>3 DEF Used
  <2>6. HistoryEnds(valueAt, edits, diffs, 0, changed)
    BY <1>1, <1>2, <1>3, <2>2, <2>3, <2>4, <2>5 DEF HistoryEnds
  <2> QED
    BY <1>2, <1>3, <2>6 DEF DiffsFit
<1>5. MessagesKnow
  <2>1. flight = {} /\ arrived = {} /\ acks = {} /\ entityTicks = [tick |-> TickOf(0), at |-> 0, cursor |-> None]
    BY DEF Init
  <2>2. Knows(valueAt, edits, entityTicks.at, entityTicks.cursor)
    BY <1>2, <2>1 DEF Knows
  <2> QED
    BY <2>1, <2>2 DEF MessagesKnow
<1>6. CopyFits(valueAt, copy, ~needHistory)
  <2>1. copy = [value |-> <<>>, applied |-> FirstIndex, pending |-> <<>>]
    BY DEF Init
  <2>2. copy.value = <<>> /\ copy.applied = FirstIndex /\ copy.pending = <<>>
        /\ copy = [value |-> copy.value, applied |-> copy.applied, pending |-> copy.pending]
    BY <2>1
  <2>3. Waits(valueAt, 0, copy.pending)
    BY <2>2 DEF Waits
  <2>4. ValueAfter(0) = <<>>
    BY DEF ValueAfter
  <2>5. IsValueAt(valueAt, copy.applied, copy.value) /\ copy.applied \in DOMAIN valueAt
    BY <1>2, <2>2, <2>4 DEF IsValueAt
  <2> QED
    BY <1>1, <1>3, <2>2, <2>3, <2>5 DEF CopyFits
<1> QED
  BY <1>4, <1>5, <1>6 DEF DiffInv

\* A change of the component.
LEMMA ChangeKeepsDiffs ==
  ASSUME DiffInv, NEW sameTick \in BOOLEAN, ApplyDiff(sameTick) \/ ChangeDirectly(sameTick)
  PROVE  DiffInv'
<1>1. /\ edits \in 0..MaxEdits /\ edits < MaxEdits /\ edits' = edits + 1
      /\ edits' \in 0..MaxEdits /\ edits \in Nat /\ edits' \in Nat /\ edits <= edits'
  BY IndexRange DEF DiffInv, DiffsFit, ApplyDiff, ChangeDirectly
<1>2. /\ UNCHANGED <<entityTicks, copy, needHistory, flight, arrived, acks>>
      /\ changed' = ChangeTick(sameTick)
  BY DEF ApplyDiff, ChangeDirectly, netVars, clientVars
<1>3. PICK c \in Nat : HistoryEnds(valueAt, edits, diffs, c, changed)
  BY DEF DiffInv, DiffsFit
<1>4. Extends(valueAt, valueAt') /\ \E k \in Nat : HistoryEnds(valueAt', edits', diffs', k, changed')
  <2>1. changed \in 0..edits /\ changed' \in {changed, edits + 1} /\ (changed' = changed <=> sameTick)
    <3>1. changed \in 0..edits
      BY <1>3 DEF HistoryEnds
    <3>2. changed' = IF sameTick THEN changed ELSE edits + 1
      BY <1>2 DEF ChangeTick
    <3> QED
      BY <1>1, <3>1, <3>2
  <2>2. CASE ApplyDiff(sameTick)
    <3> DEFINE n == IF diffs.changed = changed => valueAt[CurrentIndex(diffs)] # None
                    THEN edits + 1 ELSE None
    <3>1. diffs' = Record(diffs, edits + 1, changed, changed') /\ valueAt' = With(valueAt, CurrentIndex(diffs'), n)
      BY <2>2 DEF ApplyDiff, IsCurrent
    <3> HIDE DEF n
    <3>2. n \in {edits + 1, None} /\ (n = None <=> (diffs.changed = changed /\ valueAt[CurrentIndex(diffs)] = None))
      BY <1>1, IndexRange DEF n
    <3>3. \E k \in Nat : HistoryEnds(valueAt', edits + 1, diffs', k, changed')
      BY <1>1, <1>3, <2>1, <3>1, <3>2, RecordFits
    <3>4. Extends(valueAt, valueAt')
      BY <1>1, <1>3, <2>1, <3>1, <3>2, RecordFits
    <3> QED
      BY <1>1, <3>3, <3>4
  <2>3. CASE ChangeDirectly(sameTick)
    <3>1. /\ diffs' = diffs
          /\ valueAt' = IF changed' = changed /\ diffs.changed = changed
                        THEN With(valueAt, CurrentIndex(diffs), None) ELSE valueAt
      BY <2>1, <2>3 DEF ChangeDirectly, IsCurrent
    <3>2. Extends(valueAt, valueAt') /\ HistoryEnds(valueAt', edits + 1, diffs, c, changed')
      BY <1>1, <1>3, <2>1, <3>1, UnseenFits
    <3> QED
      BY <1>1, <3>1, <3>2
  <2> QED
    BY <2>2, <2>3
<1>5. DiffsFit'
  BY <1>1, <1>4 DEF DiffsFit
<1>6. /\ Knows(valueAt', edits', entityTicks'.at, entityTicks'.cursor)
      /\ \A m \in flight \cup arrived \cup acks :
           Knows(valueAt', edits', m.at, m.cursor) /\ DeltaFits(valueAt', m.delta)
      /\ CopyFits(valueAt', copy', ~needHistory')
  BY <1>1, <1>2, <1>4, WhatIsSaidLasts
<1>7. MessagesKnow'
  BY <1>2, <1>6 DEF MessagesKnow
<1> QED
  BY <1>5, <1>6, <1>7 DEF DiffInv

\* The messages of a tick have a delta that fits and a cursor that is known.
LEMMA TickKeepsDiffs ==
  ASSUME DiffInv, NEW count \in 0..MaxCount, ServerTick(count)
  PROVE  DiffInv'
<1> DEFINE isChanged == edits > entityTicks.at
           answer == DiffsAfter(diffs, entityTicks.cursor, changed)
           cursor == IF entityTicks.cursor # None \/ recordsFirst THEN answer.index ELSE None
           delta == IF isChanged THEN Delta(answer) ELSE NoDelta
           told == IF isChanged THEN cursor ELSE None
<1>1. edits \in 0..MaxEdits /\ edits' = edits /\ changed' = changed /\ edits \in Nat
  BY IndexRange DEF DiffInv, DiffsFit, ServerTick
<1>2. UNCHANGED <<entityTicks, copy, needHistory, arrived, acks>>
  BY DEF ServerTick, clientVars
<1>3. PICK c \in Nat : HistoryEnds(valueAt, edits, diffs, c, changed)
  BY DEF DiffInv, DiffsFit
<1>4. Knows(valueAt, edits, entityTicks.at, entityTicks.cursor)
  BY DEF DiffInv, MessagesKnow
<1>5. \A m \in flight' \ flight :
        \E d \in {delta, NoDelta} : \E x \in {told, None} : \E part :
          m = Message(part, count, d, x) /\ (d = NoDelta \/ d = delta) /\ (x = None \/ x = told)
  <2>1. flight' = flight \cup {Message(1, count, delta, told) : x \in 1..(IF count > 0 THEN 1 ELSE 0)}
                    \cup {Message(part, count, NoDelta, None) : part \in 2..count}
    BY DEF ServerTick
  <2> HIDE DEF delta, told
  <2> QED
    BY <2>1
<1>6. /\ isChanged => /\ diffs' = answer.history
                      /\ valueAt' = IF answer.index \in DOMAIN valueAt THEN valueAt
                                    ELSE With(valueAt, answer.index, edits)
      /\ ~isChanged => diffs' = diffs /\ valueAt' = valueAt
  BY DEF ServerTick
<1>7. /\ Extends(valueAt, valueAt') /\ \E k \in Nat : HistoryEnds(valueAt', edits, diffs', k, changed)
      /\ DeltaFits(valueAt', delta) /\ told \in DOMAIN valueAt' \cup {None}
  <2>1. CASE isChanged
    <3>1. /\ Extends(valueAt, valueAt')
          /\ \E k \in Nat :
               /\ HistoryEnds(valueAt', edits, answer.history, k, changed) /\ answer.index = IndexOf(k)
               /\ AtIndex(valueAt', k, edits) /\ AreDiffs(valueAt', k, answer.diffs)
      <4>1. entityTicks.cursor \in DOMAIN valueAt \cup {None}
        BY <1>4 DEF Knows
      <4>2. valueAt' = IF answer.index \in DOMAIN valueAt THEN valueAt ELSE With(valueAt, answer.index, edits)
        BY <1>6, <2>1
      <4> QED
        BY <1>1, <1>3, <4>1, <4>2, AnswerFits
    <3> HIDE DEF answer
    <3>2. PICK k \in Nat :
            /\ HistoryEnds(valueAt', edits, answer.history, k, changed) /\ answer.index = IndexOf(k)
            /\ AtIndex(valueAt', k, edits) /\ AreDiffs(valueAt', k, answer.diffs)
      BY <3>1
    <3>3. k \in 0..MaxEdits
      <4>1. k <= edits
        BY <3>2 DEF HistoryEnds
      <4> QED
        BY <1>1, <4>1, IndexRange
    <3>4. DeltaFits(valueAt', Delta(answer))
      BY <3>2, <3>3, DeltaIsFitting
    <3>5. answer.index \in DOMAIN valueAt'
      BY <3>2 DEF AtIndex
    <3> QED
      BY <1>6, <2>1, <3>1, <3>2, <3>4, <3>5
  <2>2. CASE ~isChanged
    <3>1. Extends(valueAt, valueAt')
      BY <1>6, <2>2 DEF Extends
    <3>2. delta = NoDelta /\ told = None
      BY <2>2
    <3>3. DeltaFits(valueAt', delta)
      BY <3>2 DEF DeltaFits
    <3> QED
      BY <1>3, <1>6, <2>2, <3>1, <3>2, <3>3
  <2> QED
    BY <2>1, <2>2
<1> HIDE DEF delta, told, answer, isChanged
<1>8. DiffsFit'
  BY <1>1, <1>7 DEF DiffsFit
<1>9. /\ Knows(valueAt', edits', entityTicks'.at, entityTicks'.cursor)
      /\ \A m \in flight \cup arrived \cup acks :
           Knows(valueAt', edits', m.at, m.cursor) /\ DeltaFits(valueAt', m.delta)
      /\ CopyFits(valueAt', copy', ~needHistory')
  BY <1>1, <1>2, <1>7, WhatIsSaidLasts
<1>10. ASSUME NEW m \in flight' \ flight
       PROVE  Knows(valueAt', edits', m.at, m.cursor) /\ DeltaFits(valueAt', m.delta)
  <2>1. PICK d, x, part : m = Message(part, count, d, x) /\ (d = NoDelta \/ d = delta) /\ (x = None \/ x = told)
    BY <1>5
  <2>2. m.at = edits /\ m.cursor = x /\ m.delta = d
    BY <2>1 DEF Message
  <2>3. DeltaFits(valueAt', NoDelta)
    BY DEF DeltaFits
  <2>4. DeltaFits(valueAt', d)
    BY <1>7, <2>1, <2>3
  <2>5. x \in DOMAIN valueAt' \cup {None} /\ edits \in 0..edits'
    BY <1>1, <1>7, <2>1
  <2> QED
    BY <2>2, <2>4, <2>5 DEF Knows
<1>11. MessagesKnow'
  BY <1>2, <1>9, <1>10 DEF MessagesKnow
<1> QED
  BY <1>8, <1>9, <1>11 DEF DiffInv

\* A message that is received, lost, or known to have arrived.
LEMMA NetworkKeepsDiffs ==
  ASSUME DiffInv, NEW m,
         \/ m \in acks /\ TakeAck(m)
         \/ m \in flight /\ (Receive(m) \/ Lose(m))
  PROVE  DiffInv'
<1>1. /\ UNCHANGED <<edits, changed, diffs, valueAt, copy, needHistory>>
      /\ flight' \cup arrived' \cup acks' \subseteq flight \cup arrived \cup acks
  BY DEF TakeAck, Receive, Lose, serverVars, clientVars
<1>2. entityTicks' = entityTicks \/ (m \in acks /\ entityTicks' = Acknowledged(m))
  BY DEF TakeAck, Receive, Lose, serverVars, clientVars
<1>3. Knows(valueAt, edits, entityTicks'.at, entityTicks'.cursor)
  <2>1. Knows(valueAt, edits, entityTicks.at, entityTicks.cursor)
    BY DEF DiffInv, MessagesKnow
  <2>2. ASSUME m \in acks, entityTicks' = Acknowledged(m), entityTicks' # entityTicks
        PROVE  Knows(valueAt, edits, entityTicks'.at, entityTicks'.cursor)
    <3>1. Knows(valueAt, edits, m.at, m.cursor)
      BY <2>2 DEF DiffInv, MessagesKnow
    <3>2. entityTicks' = [tick |-> m.tick, at |-> m.at,
                          cursor |-> IF m.cursor = None THEN entityTicks.cursor ELSE m.cursor]
      BY <2>2 DEF Acknowledged
    <3> QED
      BY <2>1, <3>1, <3>2 DEF Knows
  <2> QED
    BY <1>2, <2>1, <2>2
<1>4. DiffsFit'
  BY <1>1 DEF DiffInv, DiffsFit
<1>5. MessagesKnow'
  BY <1>1, <1>3 DEF DiffInv, MessagesKnow
<1>6. CopyFits(valueAt', copy', ~needHistory')
  BY <1>1 DEF DiffInv
<1> QED
  BY <1>4, <1>5, <1>6 DEF DiffInv

-----------------------------------------------------------------------------
(* Diffs that wait for the ones before them.                               *)

\* A nonempty set of naturals has a least element.
LEMMA LeastOf ==
  ASSUME NEW T \in SUBSET Nat, T # {}
  PROVE  \E t \in T : \A s \in T : t <= s
<1>1. PICK t \in T : \A s \in T : <<s, t>> \notin OpToRel(<, Nat)
  BY WFMin, NatLessThanWellFounded
<1>2. ASSUME NEW s \in T PROVE t <= s
  <2>1. ~(s < t)
    BY <1>1 DEF OpToRel
  <2> QED
    BY <2>1
<1> QED
  BY <1>2

\* A diff that waits is of a later index, within the changes there may be.
LEMMA WaitingIndex ==
  ASSUME NEW v, NEW a \in 0..MaxEdits, NEW p, Waits(v, a, p), NEW i \in 0..(MaxEdits + 1),
         IndexOf(i) \in DOMAIN p
  PROVE  a < i /\ i <= MaxEdits /\ IsDiff(v, i, p[IndexOf(i)])
<1>1. PICK j \in (a + 1)..MaxEdits : IndexOf(i) = IndexOf(j) /\ IsDiff(v, j, p[IndexOf(i)])
  BY DEF Waits
<1>2. j \in 0..(MaxEdits + 1) /\ a < j /\ j <= MaxEdits
  BY IndexRange
<1>3. i = j
  BY <1>1, <1>2, Indices
<1> QED
  BY <1>1, <1>2, <1>3

\* The diffs that are ready: those after the applied index up to a gap.
IsReady(c, n) ==
  /\ \A i \in 1..n : Advance(c.applied, i, IndexMod) \in DOMAIN c.pending
  /\ Advance(c.applied, n + 1, IndexMod) \notin DOMAIN c.pending

\* There is such a number: the least gap after the index of the component, since
\* the indices that wait are of changes there are.
LEMMA ReadyExists ==
  ASSUME NEW v, NEW a \in 0..MaxEdits, NEW c, c.applied = IndexOf(a), Waits(v, a, c.pending)
  PROVE  Ready(c) \in Nat /\ IsReady(c, Ready(c)) /\ a + Ready(c) <= MaxEdits
<1> DEFINE p == c.pending
           gaps == {n \in 0..(MaxEdits - a) : IndexOf(a + n + 1) \notin DOMAIN p}
           most == Cardinality(DOMAIN p)
<1>1. a \in Nat /\ MaxEdits \in Nat /\ a <= MaxEdits /\ MaxEdits - a \in Nat /\ a \in 0..(MaxEdits + 1)
  BY IndexRange
<1>2. ASSUME NEW n \in Nat, a + n <= MaxEdits + 1
      PROVE  Advance(c.applied, n, IndexMod) = IndexOf(a + n)
  BY <1>1, <1>2, IndexSteps
<1>3. MaxEdits - a \in gaps
  <2>1. a + (MaxEdits - a) + 1 = MaxEdits + 1 /\ MaxEdits + 1 \in 0..(MaxEdits + 1)
    BY <1>1
  <2>2. IndexOf(MaxEdits + 1) \notin DOMAIN p
    BY <1>1, <2>1, WaitingIndex
  <2> QED
    BY <1>1, <2>1, <2>2
<1>4. gaps \in SUBSET Nat
  BY <1>1
<1>5. PICK n \in gaps : \A o \in gaps : n <= o
  BY <1>3, <1>4, LeastOf
<1>6. n \in Nat /\ a + n <= MaxEdits /\ a + n + 1 = a + (n + 1) /\ a + (n + 1) <= MaxEdits + 1 /\ n + 1 \in Nat
  BY <1>1, <1>5
<1>7. IsReady(c, n)
  <2>1. ASSUME NEW i \in 1..n PROVE Advance(c.applied, i, IndexMod) \in DOMAIN p
    <3>1. i - 1 \in 0..(MaxEdits - a) /\ i - 1 < n /\ a + (i - 1) + 1 = a + i /\ i \in Nat /\ a + i <= MaxEdits + 1
      BY <1>1, <1>6
    <3>2. i - 1 \notin gaps
      BY <1>4, <1>5, <1>6, <3>1
    <3>3. IndexOf(a + i) \in DOMAIN p
      BY <3>1, <3>2
    <3> QED
      BY <1>2, <3>1, <3>3
  <2>2. Advance(c.applied, n + 1, IndexMod) = IndexOf(a + n + 1)
    BY <1>2, <1>6
  <2>3. Advance(c.applied, n + 1, IndexMod) \notin DOMAIN p
    BY <1>5, <2>2
  <2> QED
    BY <2>1, <2>3 DEF IsReady
<1>8. IsFiniteSet(DOMAIN p)
  <2>1. ASSUME NEW x \in DOMAIN p PROVE x \in 0..(IndexMod - 1)
    <3>1. PICK i \in (a + 1)..MaxEdits : x = IndexOf(i)
      BY DEF Waits
    <3>2. i \in 0..(MaxEdits + 1)
      BY <1>1
    <3> QED
      BY <3>1, <3>2, IndexValue
  <2>2. IsFiniteSet(0..(IndexMod - 1))
    <3>1. 0 \in Int /\ IndexMod - 1 \in Int
      BY IndexRange
    <3> QED
      BY <3>1, FS_Interval
  <2> QED
    BY <2>1, <2>2, FS_Subset
<1>9. n \in 0..most
  <2> DEFINE f == [i \in 1..n |-> Advance(c.applied, i, IndexMod)]
  <2>1. f \in [1..n -> DOMAIN p]
    BY <1>7 DEF IsReady
  <2>2. ASSUME NEW i \in 1..n, NEW j \in 1..n, f[i] = f[j] PROVE i = j
    <3>1. i \in Nat /\ j \in Nat /\ a + i <= MaxEdits + 1 /\ a + j <= MaxEdits + 1
      BY <1>1, <1>6
    <3>2. IndexOf(a + i) = IndexOf(a + j)
      BY <1>2, <2>2, <3>1
    <3>3. a + i \in 0..(MaxEdits + 1) /\ a + j \in 0..(MaxEdits + 1)
      BY <1>1, <3>1
    <3>4. a + i = a + j
      BY <3>2, <3>3, Indices
    <3> QED
      BY <1>1, <3>1, <3>4
  <2>3. f \in Injection(1..n, DOMAIN p)
    BY <2>1, <2>2 DEF Injection, IsInjective
  <2>4. Cardinality(1..n) <= Cardinality(DOMAIN p)
    BY <1>8, <2>3, FS_Injection
  <2>5. Cardinality(1..n) = n
    <3>1. 1 \in Int /\ n \in Int
      BY <1>6
    <3>2. Cardinality(1..n) = IF 1 > n THEN 0 ELSE n - 1 + 1
      BY <3>1, FS_Interval
    <3> QED
      BY <1>6, <3>2
  <2>6. Cardinality(DOMAIN p) \in Nat
    BY <1>8, FS_CardinalityType
  <2> QED
    BY <1>6, <2>4, <2>5, <2>6
<1>10. Ready(c) = CHOOSE k \in 0..most : IsReady(c, k)
  BY DEF Ready, IsReady
<1> HIDE DEF most
<1>11. Ready(c) \in 0..most /\ IsReady(c, Ready(c))
  BY <1>7, <1>9, <1>10
<1>12. Ready(c) \in Nat
  BY <1>11
<1>13. a + Ready(c) <= MaxEdits
  <2> DEFINE r == Ready(c)
  <2> HIDE DEF r
  <2> SUFFICES ASSUME a + r > MaxEdits PROVE FALSE
    BY <1>1, <1>12 DEF r
  <2>1. r \in Nat
    BY <1>12 DEF r
  <2>2. MaxEdits - a + 1 \in 1..r /\ MaxEdits - a + 1 \in Nat /\ a + (MaxEdits - a + 1) = MaxEdits + 1
    BY <1>1, <2>1
  <2>3. Advance(c.applied, MaxEdits - a + 1, IndexMod) \in DOMAIN p
    BY <1>11, <2>2 DEF IsReady, r
  <2>4. IndexOf(MaxEdits + 1) \in DOMAIN p
    <3>1. Advance(c.applied, MaxEdits - a + 1, IndexMod) = IndexOf(a + (MaxEdits - a + 1))
      BY <1>1, <1>2, <2>2
    <3> QED
      BY <2>2, <2>3, <3>1
  <2>5. MaxEdits + 1 \in 0..(MaxEdits + 1)
    BY <1>1
  <2>6. MaxEdits + 1 <= MaxEdits
    BY <2>4, <2>5, WaitingIndex
  <2> QED
    BY <1>1, <2>6
<1> QED
  BY <1>11, <1>12, <1>13

\* Diffs without a gap count up, from an index that is not spoiled when the last is
\* not.
LEMMA DiffsCountUp ==
  ASSUME NEW v, NEW a \in Nat, NEW b \in Nat, AtIndex(v, a, b), NEW n \in Nat, NEW g,
         \A i \in 1..n : IsDiff(v, a + i, g[i])
  PROVE  /\ AtIndex(v, a + n, b + n)
         /\ Spoiled(v, a + n) \/ (~Spoiled(v, a) /\ \A j \in 1..n : g[j] = b + j)
<1> DEFINE Counts(i) == /\ AtIndex(v, a + i, b + i)
                        /\ Spoiled(v, a + i) \/ (~Spoiled(v, a) /\ \A j \in 1..i : g[j] = b + j)
           wrong == {i \in 0..n : ~Counts(i)}
<1>0. ASSUME wrong = {} PROVE Counts(n)
  <2>1. n \in 0..n
    OBVIOUS
  <2> QED
    BY <1>0, <2>1
<1> SUFFICES ASSUME wrong # {} PROVE FALSE
  BY <1>0
<1>1. wrong \in SUBSET Nat
  OBVIOUS
<1>2. PICK i \in wrong : \A j \in wrong : i <= j
  <2> HIDE DEF wrong
  <2> QED
    BY <1>1, LeastOf
<1>3. i \in 0..n /\ ~Counts(i)
  BY <1>2
<1>4. CASE i = 0
  <2>1. a + i = a /\ b + i = b /\ \A j \in 1..i : FALSE
    BY <1>4
  <2>2. Counts(i)
    BY <2>1
  <2> QED
    BY <1>3, <2>2
<1>5. CASE i # 0
  <2>1. i \in 1..n /\ i - 1 \in 0..n /\ i - 1 < i /\ a + i - 1 = a + (i - 1) /\ b + (i - 1) = b + i - 1
    BY <1>3, <1>5
  <2>2. i - 1 \notin wrong
    <3> HIDE DEF wrong
    <3> QED
      BY <1>1, <1>2, <2>1
  <2>3. Counts(i - 1)
    BY <2>1, <2>2
  <2>4. /\ AtIndex(v, a + i, g[i]) /\ AtIndex(v, a + (i - 1), g[i] - 1) /\ g[i] \in Nat
        /\ Spoiled(v, a + (i - 1)) => Spoiled(v, a + i)
    <3>1. IsDiff(v, a + i, g[i])
      BY <2>1
    <3>2. /\ AtIndex(v, a + i, g[i]) /\ AtIndex(v, a + i - 1, g[i] - 1) /\ g[i] \in 1..MaxEdits
          /\ Spoiled(v, a + i - 1) => Spoiled(v, a + i)
      BY <3>1 DEF IsDiff
    <3> QED
      BY <2>1, <3>2, IndexRange
  <2>5. CASE Spoiled(v, a + i)
    <3>1. AtIndex(v, a + i, b + i)
      BY <2>4, <2>5 DEF AtIndex, Spoiled
    <3> QED
      BY <1>3, <2>5, <3>1
  <2>6. CASE ~Spoiled(v, a + i)
    <3>1. ~Spoiled(v, a + (i - 1))
      BY <2>4, <2>6
    <3>2. ~Spoiled(v, a) /\ (\A j \in 1..(i - 1) : g[j] = b + j) /\ AtIndex(v, a + (i - 1), b + (i - 1))
      BY <2>3, <3>1
    <3>3. g[i] - 1 = b + (i - 1)
      BY <2>4, <3>1, <3>2 DEF AtIndex, Spoiled
    <3>4. g[i] = b + i
      BY <2>1, <2>4, <3>3
    <3>5. ASSUME NEW j \in 1..i PROVE g[j] = b + j
      <4>1. j = i \/ j \in 1..(i - 1)
        BY <2>1
      <4> QED
        BY <3>2, <3>4, <4>1
    <3>6. Counts(i)
      BY <2>4, <3>2, <3>4, <3>5
    <3> QED
      BY <1>3, <3>6
  <2> QED
    BY <2>5, <2>6
<1> QED
  BY <1>4, <1>5

\* The diffs of a message that are newer than the component wait with the
\* others.
LEMMA PushedWait ==
  ASSUME NEW v, NEW a \in 0..MaxEdits, NEW c, c.applied = IndexOf(a), Waits(v, a, c.pending),
         NEW k \in 0..MaxEdits, NEW d, d.index = IndexOf(k), AreDiffs(v, k, d.edits)
  PROVE  Waits(v, a, Pushed(c, d))
<1> DEFINE len == Len(d.edits)
           indexOf(i) == (d.index - (len - i)) % IndexMod
           new == {i \in 1..len : IsNewer(indexOf(i), c.applied, IndexMod)}
           added == {indexOf(i) : i \in new}
           p == Pushed(c, d)
<1>1. /\ d.edits \in Seq(Nat) /\ len \in Nat /\ len <= k /\ k \in Nat /\ a \in Nat /\ MaxEdits \in Nat
      /\ k <= MaxEdits /\ k \in 0..(MaxEdits + 1) /\ a \in 0..(MaxEdits + 1)
  BY IndexRange DEF AreDiffs
<1>2. p = [x \in added \cup DOMAIN c.pending |->
             IF x \in added THEN d.edits[CHOOSE i \in new : indexOf(i) = x] ELSE c.pending[x]]
  BY DEF Pushed
<1>3. ASSUME NEW i \in 1..len
      PROVE  indexOf(i) = IndexOf(k - len + i) /\ k - len + i \in 0..(MaxEdits + 1)
  <2>1. len - i \in Nat /\ len - i <= k /\ k - (len - i) = k - len + i /\ k - len + i \in 0..(MaxEdits + 1)
    <3> HIDE DEF len
    <3> QED
      BY <1>1
  <2>2. (IndexOf(k) - (len - i)) % IndexMod = IndexOf(k - (len - i))
    <3> HIDE DEF len
    <3> QED
      BY <1>1, <2>1, IndexSteps
  <2> QED
    BY <2>1, <2>2
<1>4. ASSUME NEW i \in new
      PROVE  k - len + i \in (a + 1)..MaxEdits
  <2>1. IsNewer(indexOf(i), IndexOf(a), IndexMod) /\ i \in 1..len
    OBVIOUS
  <2>2. a < k - len + i
    <3>1. indexOf(i) = IndexOf(k - len + i) /\ k - len + i \in 0..(MaxEdits + 1)
      BY <1>3, <2>1
    <3> HIDE DEF indexOf
    <3> DEFINE b == k - len + i
    <3> HIDE DEF b
    <3>2. b \in 0..(MaxEdits + 1) /\ IsNewer(IndexOf(b), IndexOf(a), IndexMod)
      BY <2>1, <3>1 DEF b
    <3>3. a < b
      BY <1>1, <3>2, Indices
    <3> QED
      BY <3>3 DEF b
  <2> HIDE DEF indexOf, len, new
  <2> QED
    BY <1>1, <2>1, <2>2
<1>5. ASSUME NEW i \in new, NEW j \in new, indexOf(i) = indexOf(j)
      PROVE  i = j
  <2>1. i \in 1..len /\ j \in 1..len
    OBVIOUS
  <2>2. IndexOf(k - len + i) = IndexOf(k - len + j)
    BY <1>3, <1>5, <2>1
  <2>3. k - len + i \in 0..(MaxEdits + 1) /\ k - len + j \in 0..(MaxEdits + 1)
    BY <1>3, <2>1
  <2>4. k - len + i = k - len + j
    BY <2>2, <2>3, Indices
  <2> HIDE DEF indexOf, len, new
  <2> QED
    BY <1>1, <2>1, <2>4
<1>6. ASSUME NEW i \in new
      PROVE  p[indexOf(i)] = d.edits[i]
  <2>1. indexOf(i) \in added
    OBVIOUS
  <2>2. (CHOOSE j \in new : indexOf(j) = indexOf(i)) = i
    <3> DEFINE j == CHOOSE j \in new : indexOf(j) = indexOf(i)
    <3>1. j \in new /\ indexOf(j) = indexOf(i)
      OBVIOUS
    <3> HIDE DEF j, indexOf, new
    <3>2. j = i
      BY <1>5, <3>1
    <3> QED
      BY <3>2 DEF j
  <2>3. p[indexOf(i)] = d.edits[CHOOSE j \in new : indexOf(j) = indexOf(i)]
    <3> HIDE DEF p, new, indexOf
    <3> QED
      BY <1>2, <2>1
  <2> QED
    BY <2>2, <2>3
<1>7. ASSUME NEW x \in added
      PROVE  \E i \in (a + 1)..MaxEdits : x = IndexOf(i) /\ IsDiff(v, i, p[x])
  <2>1. PICK i \in new : x = indexOf(i)
    OBVIOUS
  <2>2. i \in 1..len
    OBVIOUS
  <2>3. IsDiff(v, k - len + i, d.edits[i])
    BY <2>2 DEF AreDiffs
  <2>4. p[x] = d.edits[i] /\ x = IndexOf(k - len + i) /\ k - len + i \in (a + 1)..MaxEdits
    <3>1. indexOf(i) = IndexOf(k - len + i)
      BY <1>3, <2>2
    <3>2. p[indexOf(i)] = d.edits[i]
      BY <1>6
    <3>3. k - len + i \in (a + 1)..MaxEdits
      BY <1>4
    <3> HIDE DEF p, len, new, indexOf
    <3> QED
      BY <2>1, <3>1, <3>2, <3>3
  <2> HIDE DEF p, len, new, added, indexOf
  <2> QED
    BY <2>3, <2>4
<1>8. ASSUME NEW x \in DOMAIN p, x \notin added
      PROVE  \E i \in (a + 1)..MaxEdits : x = IndexOf(i) /\ IsDiff(v, i, p[x])
  <2> HIDE DEF p, added
  <2>1. x \in DOMAIN c.pending /\ p[x] = c.pending[x]
    BY <1>2, <1>8
  <2> QED
    BY <2>1 DEF Waits
<1> HIDE DEF p, added
<1>9. Waits(v, a, p)
  BY <1>7, <1>8 DEF Waits
<1> QED
  BY <1>9 DEF p

\* The value after more edits.
LEMMA ValueGrows ==
  ASSUME NEW b \in Nat, NEW n \in Nat, NEW f, f = [i \in 1..n |-> b + i]
  PROVE  ValueAfter(b) \o f = ValueAfter(b + n)
<1> DEFINE s == ValueAfter(b)
           t == ValueAfter(b + n)
           cat == s \o f
<1>1. s \in Seq(Nat) /\ Len(s) = b /\ \A i \in 1..b : s[i] = i
  BY DEF ValueAfter
<1>2. f \in Seq(Nat) /\ Len(f) = n /\ \A i \in 1..n : f[i] = b + i
  OBVIOUS
<1>3. t \in Seq(Nat) /\ Len(t) = b + n /\ \A i \in 1..(b + n) : t[i] = i
  BY DEF ValueAfter
<1> HIDE DEF s, t
<1>4. /\ cat \in Seq(Nat) /\ Len(cat) = b + n
      /\ \A i \in 1..(b + n) : cat[i] = IF i <= b THEN s[i] ELSE f[i - b]
  <2>1. /\ cat \in Seq(Nat) /\ Len(cat) = Len(s) + Len(f)
        /\ \A i \in 1..(Len(s) + Len(f)) : cat[i] = IF i <= Len(s) THEN s[i] ELSE f[i - Len(s)]
    <3>1. s \in Seq(Nat) /\ f \in Seq(Nat)
      BY <1>1, <1>2
    <3> QED
      BY <3>1, ConcatProperties, Zenon
  <2> HIDE DEF cat
  <2> QED
    BY <1>1, <1>2, <2>1
<1> HIDE DEF cat
<1>5. ASSUME NEW i \in 1..(b + n) PROVE cat[i] = i
  <2>1. CASE i <= b
    <3>1. i \in 1..b /\ cat[i] = s[i]
      BY <1>4, <2>1
    <3> QED
      BY <1>1, <3>1
  <2>2. CASE i > b
    <3>1. i - b \in 1..n /\ b + (i - b) = i /\ cat[i] = f[i - b]
      BY <1>4, <2>2
    <3> QED
      BY <1>2, <3>1
  <2> QED
    BY <2>1, <2>2
<1>6. cat = t
  BY <1>3, <1>4, <1>5, SeqEqual
<1> QED
  BY <1>6 DEF s, t, cat

\* The diffs that are ready bring the component to a later index, and the
\* others go on waiting.
LEMMA DrainedFits ==
  ASSUME NEW v, NEW a \in 0..MaxEdits, NEW c, c.applied = IndexOf(a), c.applied \in DOMAIN v,
         v[c.applied] \in Nat \cup {None}, Waits(v, a, c.pending),
         NEW exact, exact => IsValueAt(v, c.applied, c.value)
  PROVE  CopyFits(v, Drained(c), exact)
<1> DEFINE n == Ready(c)
           p == c.pending
           b == IF Spoiled(v, a) THEN 0 ELSE v[c.applied]
           done == {Advance(c.applied, i, IndexMod) : i \in 1..n}
           more == [i \in 1..n |-> p[Advance(c.applied, i, IndexMod)]]
           rest == Restrict(p, DOMAIN p \ done)
           e == Drained(c)
<1>1. n \in Nat /\ IsReady(c, n) /\ a + n <= MaxEdits
  BY ReadyExists
<1>2. e = [value |-> c.value \o more, applied |-> Advance(c.applied, n, IndexMod), pending |-> rest]
  BY DEF Drained
<1> HIDE DEF n, e
<1>3. a \in Nat /\ a + n \in 0..MaxEdits /\ MaxEdits \in Nat /\ a \in 0..(MaxEdits + 1) /\ a \in 0..MaxEdits
  BY <1>1, IndexRange
<1>4. ASSUME NEW i \in 0..n
      PROVE  /\ Advance(c.applied, i, IndexMod) = IndexOf(a + i) /\ a + i \in 0..(MaxEdits + 1)
             /\ i >= 1 => IndexOf(a + i) \in DOMAIN p /\ IsDiff(v, a + i, p[IndexOf(a + i)])
  <2>1. i \in Nat /\ a + i <= MaxEdits + 1 /\ a + i \in 0..(MaxEdits + 1)
    BY <1>1, <1>3
  <2>2. Advance(c.applied, i, IndexMod) = IndexOf(a + i)
    BY <1>3, <2>1, IndexSteps
  <2>3. i >= 1 => IndexOf(a + i) \in DOMAIN p
    BY <1>1, <2>2 DEF IsReady
  <2>4. i >= 1 => IsDiff(v, a + i, p[IndexOf(a + i)])
    BY <2>1, <2>3, WaitingIndex
  <2> QED
    BY <2>1, <2>2, <2>3, <2>4
<1>5. /\ AtIndex(v, a + n, b + n)
      /\ Spoiled(v, a + n) \/ (~Spoiled(v, a) /\ \A i \in 1..n : p[IndexOf(a + i)] = b + i)
  <2> DEFINE g == [i \in 1..n |-> p[IndexOf(a + i)]]
  <2>1. \A i \in 1..n : IsDiff(v, a + i, g[i])
    BY <1>4
  <2>2. AtIndex(v, a, b) /\ b \in Nat
    BY DEF AtIndex, Spoiled
  <2>3. \A i \in 1..n : g[i] = p[IndexOf(a + i)]
    OBVIOUS
  <2> HIDE DEF g, b
  <2>4. /\ AtIndex(v, a + n, b + n)
        /\ Spoiled(v, a + n) \/ (~Spoiled(v, a) /\ \A i \in 1..n : g[i] = b + i)
    BY <1>1, <1>3, <2>1, <2>2, DiffsCountUp
  <2> QED
    BY <2>3, <2>4
<1>6. e.applied = IndexOf(a + n) /\ e.applied \in DOMAIN v /\ v[e.applied] \in {b + n, None}
  <2>1. n \in 0..n
    BY <1>1
  <2>2. e.applied = IndexOf(a + n)
    BY <1>2, <1>4, <2>1
  <2> HIDE DEF b
  <2> QED
    BY <1>5, <2>2 DEF AtIndex
<1>7. exact => IsValueAt(v, e.applied, e.value)
  <2> SUFFICES ASSUME exact, v[e.applied] # None PROVE e.value = ValueAfter(v[e.applied])
    BY DEF IsValueAt
  <2>0. ~Spoiled(v, a) /\ (\A i \in 1..n : p[IndexOf(a + i)] = b + i) /\ v[e.applied] = b + n
    <3> HIDE DEF b
    <3> QED
      BY <1>5, <1>6 DEF Spoiled
  <2>1. ASSUME NEW i \in 1..n PROVE p[Advance(c.applied, i, IndexMod)] = b + i
    <3>1. i \in 0..n /\ i >= 1
      BY <1>1
    <3>2. Advance(c.applied, i, IndexMod) = IndexOf(a + i)
      BY <1>4, <3>1
    <3> HIDE DEF b
    <3> QED
      BY <2>0, <3>2
  <2>2. more = [i \in 1..n |-> b + i]
    BY <2>1
  <2>3. b \in Nat /\ c.value = ValueAfter(b)
    BY <2>0 DEF Spoiled, IsValueAt
  <2> HIDE DEF b, more
  <2>4. c.value \o more = ValueAfter(b + n)
    BY <1>1, <2>2, <2>3, ValueGrows
  <2>5. e.value = c.value \o more
    BY <1>2
  <2> QED
    BY <2>0, <2>4, <2>5
<1>8. Waits(v, a + n, e.pending)
  <2>1. e.pending = rest
    BY <1>2
  <2>2. DOMAIN rest = DOMAIN p \ done /\ \A x \in DOMAIN rest : rest[x] = p[x]
    BY DEF Restrict
  <2>3. ASSUME NEW x \in DOMAIN rest
        PROVE  \E i \in (a + n + 1)..MaxEdits : x = IndexOf(i) /\ IsDiff(v, i, rest[x])
    <3>1. x \in DOMAIN p /\ x \notin done /\ rest[x] = p[x]
      BY <2>2
    <3>2. PICK i \in (a + 1)..MaxEdits : x = IndexOf(i) /\ IsDiff(v, i, p[x])
      BY <3>1 DEF Waits
    <3>3. i > a + n
      <4> SUFFICES ASSUME i <= a + n PROVE FALSE
        BY <1>1, <1>3
      <4>1. i - a \in 1..n /\ i - a \in 0..n /\ a + (i - a) = i
        BY <1>1, <1>3
      <4>2. Advance(c.applied, i - a, IndexMod) = x
        BY <1>4, <3>2, <4>1
      <4> QED
        BY <3>1, <4>1, <4>2
    <3>4. i \in (a + n + 1)..MaxEdits
      BY <1>1, <1>3, <3>3
    <3> QED
      BY <3>1, <3>2, <3>4
  <2> HIDE DEF rest
  <2> QED
    BY <2>1, <2>3 DEF Waits
<1>9. e = [value |-> e.value, applied |-> e.applied, pending |-> e.pending]
  BY <1>2
<1>10. CopyFits(v, e, exact)
  BY <1>3, <1>6, <1>7, <1>8, <1>9 DEF CopyFits
<1> QED
  BY <1>10 DEF e

\* A delta is written: a whole component, or diffs.
LEMMA WrittenFits ==
  ASSUME NEW v, \A x \in DOMAIN v : v[x] \in Nat \cup {None}, NEW c, NEW exact, CopyFits(v, c, exact),
         NEW d, d # NoDelta, DeltaFits(v, d)
  PROVE  CopyFits(v, Written(c, d), exact)
<1>1. PICK k \in 0..MaxEdits :
        /\ d.index = IndexOf(k) /\ d.index \in DOMAIN v
        /\ IsSnapshot(v, d) \/ (d.kind = "Diffs" /\ AreDiffs(v, k, d.edits))
  BY DEF DeltaFits
<1>2. CASE d.kind = "Snapshot"
  <2> DEFINE e == [value |-> d.edits, applied |-> d.index, pending |-> <<>>]
  <2>1. Written(c, d) = e
    BY <1>2 DEF Written
  <2>2. /\ e.value = d.edits /\ e.applied = d.index /\ e.pending = <<>>
        /\ e = [value |-> e.value, applied |-> e.applied, pending |-> e.pending]
    OBVIOUS
  <2> HIDE DEF e
  <2>3. IsValueAt(v, e.applied, e.value)
    BY <1>1, <1>2, <2>2 DEF IsSnapshot
  <2>4. Waits(v, k, e.pending)
    BY <2>2 DEF Waits
  <2> QED
    BY <1>1, <2>1, <2>2, <2>3, <2>4 DEF CopyFits
<1>3. CASE d.kind # "Snapshot"
  <2>1. AreDiffs(v, k, d.edits)
    BY <1>1, <1>3 DEF IsSnapshot
  <2>2. PICK a \in 0..MaxEdits :
          /\ c.applied = IndexOf(a) /\ c.applied \in DOMAIN v
          /\ exact => IsValueAt(v, c.applied, c.value)
          /\ Waits(v, a, c.pending)
    BY DEF CopyFits
  <2> DEFINE e == [c EXCEPT !.pending = Pushed(c, d)]
  <2>3. c = [value |-> c.value, applied |-> c.applied, pending |-> c.pending]
    BY DEF CopyFits
  <2>4. e.value = c.value /\ e.applied = c.applied /\ e.pending = Pushed(c, d)
    BY <2>3
  <2>5. Written(c, d) = Drained(e)
    BY <1>3 DEF Written
  <2> HIDE DEF e
  <2>6. Waits(v, a, e.pending)
    BY <1>1, <2>1, <2>2, <2>4, PushedWait
  <2>7. /\ e.applied = IndexOf(a) /\ e.applied \in DOMAIN v /\ v[e.applied] \in Nat \cup {None}
        /\ exact => IsValueAt(v, e.applied, e.value)
    BY <2>2, <2>4
  <2>8. CopyFits(v, Drained(e), exact)
    BY <2>6, <2>7, DrainedFits
  <2> QED
    BY <2>5, <2>8
<1> QED
  BY <1>2, <1>3

\* A delta is consumed: only its index is known afterwards.
LEMMA ConsumedFits ==
  ASSUME NEW v, NEW c, CopyFits(v, c, FALSE), NEW d, d # NoDelta, DeltaFits(v, d)
  PROVE  CopyFits(v, Consumed(c, d), FALSE)
<1>1. PICK k \in 0..MaxEdits : d.index = IndexOf(k) /\ d.index \in DOMAIN v
  BY DEF DeltaFits
<1>2. CASE d.kind = "Snapshot"
  <2> DEFINE e == [value |-> c.value, applied |-> d.index, pending |-> <<>>]
  <2>1. Consumed(c, d) = e
    BY <1>2 DEF Consumed
  <2>2. /\ e.applied = d.index /\ e.pending = <<>>
        /\ e = [value |-> e.value, applied |-> e.applied, pending |-> e.pending]
    OBVIOUS
  <2> HIDE DEF e
  <2>3. Waits(v, k, e.pending)
    BY <2>2 DEF Waits
  <2> QED
    BY <1>1, <2>1, <2>2, <2>3 DEF CopyFits
<1>3. CASE d.kind # "Snapshot"
  BY <1>3 DEF Consumed
<1> QED
  BY <1>2, <1>3

\* The client applies a message.
LEMMA ApplyKeepsDiffs ==
  ASSUME DiffInv, NEW m \in arrived, ApplyMessage(m)
  PROVE  DiffInv'
<1>1. /\ UNCHANGED <<edits, changed, diffs, valueAt, entityTicks, flight, acks, needHistory>>
      /\ arrived' \subseteq arrived
      /\ ApplyMutations(m)
  BY DEF ApplyMessage, serverVars, netVars
<1>2. DeltaFits(valueAt, m.delta)
  BY DEF DiffInv, MessagesKnow
<1>3. \A x \in DOMAIN valueAt : valueAt[x] \in Nat \cup {None}
  BY DEF DiffInv, DiffsFit, HistoryEnds, Used
<1>4. CopyFits(valueAt, copy, ~needHistory)
  BY DEF DiffInv
<1>5. \/ copy' = copy
      \/ m.delta # NoDelta /\ copy' = Written(copy, m.delta)
      \/ m.delta # NoDelta /\ needHistory /\ copy' = Consumed(copy, m.delta)
  BY <1>1 DEF ApplyMutations
<1>6. CopyFits(valueAt, copy', ~needHistory)
  <2>1. CASE copy' = copy
    BY <1>4, <2>1
  <2>2. CASE m.delta # NoDelta /\ copy' = Written(copy, m.delta)
    BY <1>2, <1>3, <1>4, <2>2, WrittenFits
  <2>3. CASE m.delta # NoDelta /\ needHistory /\ copy' = Consumed(copy, m.delta)
    <3>1. CopyFits(valueAt, copy, FALSE)
      BY <1>4 DEF CopyFits
    <3>2. CopyFits(valueAt, Consumed(copy, m.delta), FALSE)
      BY <1>2, <2>3, <3>1, ConsumedFits
    <3> QED
      BY <2>3, <3>2 DEF CopyFits
  <2> QED
    BY <1>5, <2>1, <2>2, <2>3
<1>7. DiffsFit'
  BY <1>1 DEF DiffInv, DiffsFit
<1>8. MessagesKnow'
  BY <1>1 DEF DiffInv, MessagesKnow
<1> QED
  BY <1>1, <1>6, <1>7, <1>8 DEF DiffInv

\* What the diff indices stand for is an invariant.
LEMMA DiffStep == DiffInv /\ [Next]_vars => DiffInv'
<1> SUFFICES ASSUME DiffInv, [Next]_vars PROVE DiffInv'
  OBVIOUS
<1>1. CASE \E sameTick \in BOOLEAN : ApplyDiff(sameTick) \/ ChangeDirectly(sameTick)
  BY <1>1, ChangeKeepsDiffs
<1>2. CASE \E count \in 0..MaxCount : ServerTick(count)
  BY <1>2, TickKeepsDiffs
<1>3. CASE \E m \in acks : TakeAck(m)
  BY <1>3, NetworkKeepsDiffs
<1>4. CASE \E m \in flight : Receive(m) \/ Lose(m)
  BY <1>4, NetworkKeepsDiffs
<1>5. CASE \E m \in arrived : ApplyMessage(m)
  BY <1>5, ApplyKeepsDiffs
<1>6. CASE UNCHANGED vars
  BY <1>6 DEF vars, serverVars, netVars, clientVars, DiffInv, DiffsFit, MessagesKnow, CopyFits
<1> QED
  BY <1>1, <1>2, <1>3, <1>4, <1>5, <1>6 DEF Next

\* Always: every diff, sent, received or waiting, and every diff index is the one
\* of the change it stands for, however messages and acknowledgements are lost
\* or reordered (DiffIndex, DiffHistory and PendingDiffs).  An index at which a
\* direct change went unseen, for it had the change tick of the recorded diff, and
\* those that follow it until the history is reset, stand for nothing: of these
\* only the order is known.
THEOREM DiffsHold == Spec => []DiffInv
  BY InitDiffs, DiffStep, PTL DEF Spec

\* The component of a client is the one its diff index stands for, and the
\* diffs that wait are newer, whatever was lost or reordered, wherever the
\* index wraps (CopyIsAtIndex); unless a direct change in the change tick of a
\* recorded diff went unseen at that index, or before it since the last reset.
THEOREM CopiesAreExact == Spec => []CopyIsAtIndex
<1>1. DiffInv => CopyIsAtIndex
  <2> SUFFICES ASSUME DiffInv, ~needHistory
               PROVE  /\ IsValueAt(valueAt, copy.applied, copy.value)
                      /\ \A x \in DOMAIN copy.pending : IsNewer(x, copy.applied, IndexMod)
    BY DEF CopyIsAtIndex, IsValueAt
  <2>1. PICK a \in 0..MaxEdits :
          /\ copy.applied = IndexOf(a)
          /\ ~needHistory => IsValueAt(valueAt, copy.applied, copy.value)
          /\ Waits(valueAt, a, copy.pending)
    BY DEF DiffInv, CopyFits
  <2>2. ASSUME NEW x \in DOMAIN copy.pending PROVE IsNewer(x, copy.applied, IndexMod)
    <3>1. PICK i \in (a + 1)..MaxEdits : x = IndexOf(i)
      BY <2>1 DEF Waits
    <3>2. i \in 0..(MaxEdits + 1) /\ a \in 0..(MaxEdits + 1) /\ a < i
      BY IndexRange
    <3> QED
      BY <2>1, <3>1, <3>2, Indices
  <2> QED
    BY <2>1, <2>2
<1> QED
  BY <1>1, DiffsHold, PTL

-----------------------------------------------------------------------------
(* Types.                                                                  *)

\* A message is written when its tick is newer than the last applied, consumed
\* when it is in the mask, and otherwise skipped.
IsWritten(m, last) ==
  /\ IsDelta(m) /\ last < m.n
  /\ confirm' = SetLastTick(confirm, m.tick) /\ copy' = Written(copy, m.delta)
  /\ applied' = applied \cup {m.n}
IsConsumed(m, last) ==
  /\ IsDelta(m) /\ m.n <= last /\ last - m.n < Width
  /\ confirm' = SetAgo(confirm, last - m.n) /\ copy' = Consumed(copy, m.delta)
  /\ applied' = applied \cup {m.n}
IsSkipped(m, last) ==
  /\ IsDelta(m) => m.n <= last
  /\ UNCHANGED <<confirm, copy, applied>>

\* Applying a message is one of the three.
LEMMA WhatApplies ==
  ASSUME HistoryInv, NEW m, ApplyMessage(m)
  PROVE  \E last \in 0..ticks :
           /\ IsNewest(last, applied) /\ confirm.last = TickOf(last)
           /\ IsWritten(m, last) \/ IsConsumed(m, last) \/ IsSkipped(m, last)
<1>1. m.n \in 0..MaxTicks /\ m.tick = TickOf(m.n) /\ ticks \in 0..MaxTicks
  BY MessageIsKnown
<1>2. PICK last \in 0..ticks : IsNewest(last, applied) /\ confirm.last = TickOf(last)
  BY DEF HistoryInv, MaskFits
<1>3. last \in 0..MaxTicks /\ last \in Nat /\ m.n \in Nat
  BY <1>1, TickRange
<1> DEFINE ago == DistanceAfter(confirm.last, m.tick, TickMod)
<1>4. (IsNewer(m.tick, confirm.last, TickMod) <=> last < m.n) /\ (m.n <= last => ago = last - m.n)
  BY <1>1, <1>2, <1>3, Distances
<1>5. ApplyMutations(m)
  BY DEF ApplyMessage
<1>6. CASE ~IsDelta(m)
  <2>1. IsSkipped(m, last)
    BY <1>5, <1>6 DEF ApplyMutations, IsSkipped, IsDelta
  <2> QED
    BY <1>2, <2>1
<1>7. CASE IsDelta(m) /\ last < m.n
  <2>1. IsWritten(m, last)
    BY <1>4, <1>5, <1>7 DEF ApplyMutations, IsWritten, IsDelta
  <2> QED
    BY <1>2, <2>1
<1>8. CASE IsDelta(m) /\ m.n <= last
  <2>1. ~IsNewer(m.tick, confirm.last, TickMod) /\ ago = last - m.n
    BY <1>3, <1>4, <1>8
  <2>2. CASE needHistory /\ ago < Width
    <3>1. IsConsumed(m, last)
      BY <1>5, <1>8, <2>1, <2>2 DEF ApplyMutations, IsConsumed, IsDelta
    <3> QED
      BY <1>2, <3>1
  <2>3. CASE ~(needHistory /\ ago < Width)
    <3>1. IsSkipped(m, last)
      BY <1>5, <1>8, <2>1, <2>3 DEF ApplyMutations, IsSkipped, IsDelta
    <3> QED
      BY <1>2, <3>1
  <2> QED
    BY <2>2, <2>3
<1> QED
  BY <1>3, <1>6, <1>7, <1>8

\* No more messages are sent than the tick has parts.
LEMMA MessagesAreFew ==
  ASSUME SizesFit, HistoryInv, HistoryInv', NEW count \in 0..MaxCount, ServerTick(count)
  PROVE  IsFiniteSet(flight' \cup arrived') /\ Cardinality(flight' \cup arrived') <= MaxInFlight
<1> DEFINE old == flight \cup arrived
           new == flight' \ flight
           all == flight' \cup arrived'
           f == [m \in new |-> m.part]
<1>1. /\ IsFiniteSet(old) /\ Cardinality(old) + count <= MaxInFlight
      /\ flight \subseteq flight' /\ arrived' = arrived
      /\ ticks \in Nat /\ counts \in Seq(Nat) /\ Len(counts) = ticks /\ counts' = Append(counts, count)
      /\ ticks' = ticks + 1 /\ count \in Nat /\ MaxInFlight \in Nat
  BY TickRange, MutationHistoryAssumption
     DEF SizesFit, ServerTick, HistoryInv, MessagesFit, clientVars, MutationHistoryAssumption
<1>2. counts'[ticks + 1] = count
  BY <1>1
<1>3. ASSUME NEW m \in new PROVE m.n = ticks + 1 /\ m.part \in 1..count
  <2>2. \E part \in 1..count : \E delta, told : m = Message(part, count, delta, told)
    BY PartsOfTick
  <2> QED
    BY <2>2 DEF Message
<1>4. ASSUME NEW m \in new, NEW o \in new, m.part = o.part PROVE m = o
  <2>1. m.n = o.n /\ m \in flight' /\ o \in flight'
    BY <1>3
  <2> QED
    BY <1>4, <2>1 DEF HistoryInv, MessagesFit
<1>5. f \in [new -> 1..count] /\ \A m, o \in new : f[m] = f[o] => m = o
  BY <1>3, <1>4
<1>6. all = old \cup new
  BY <1>1
<1>7. IsFiniteSet(1..count) /\ Cardinality(1..count) = count
  <2>1. 1 \in Int /\ count \in Int
    BY <1>1
  <2>2. IsFiniteSet(1..count) /\ Cardinality(1..count) = IF 1 > count THEN 0 ELSE count - 1 + 1
    BY <2>1, FS_Interval
  <2> QED
    BY <1>1, <2>2
<1> HIDE DEF old, new, all, f
<1>8. f \in Injection(new, 1..count)
  BY <1>5 DEF Injection, IsInjective, f
<1>9. IsFiniteSet(new) /\ Cardinality(new) <= count
  BY <1>7, <1>8, FS_Injection
<1>10. /\ IsFiniteSet(old \cup new)
       /\ Cardinality(old \cup new) = Cardinality(old) + Cardinality(new) - Cardinality(old \cap new)
  BY <1>1, <1>9, FS_Union DEF old
<1>11. IsFiniteSet(old \cap new)
  BY <1>9, FS_Intersection
<1>12. Cardinality(old) \in Nat /\ Cardinality(new) \in Nat /\ Cardinality(old \cap new) \in Nat
  BY <1>1, <1>9, <1>11, FS_CardinalityType DEF old
<1>13. Cardinality(old) + count <= MaxInFlight
  BY <1>1 DEF old
<1>14. IsFiniteSet(all) /\ Cardinality(all) <= MaxInFlight
  BY <1>1, <1>6, <1>9, <1>10, <1>12, <1>13
<1> QED
  BY <1>14 DEF all

\* No step disturbs the sizes,
LEMMA SizesStep == SizesFit /\ HistoryInv /\ HistoryInv' /\ DiffInv /\ [Next]_vars => SizesFit'
<1> SUFFICES ASSUME SizesFit, HistoryInv, HistoryInv', DiffInv, [Next]_vars PROVE SizesFit'
  OBVIOUS
<1> DEFINE Values(v, e) == \A x \in DOMAIN v : v[x] \in 0..e \cup {None}
           Few(ms) == IsFiniteSet(ms) /\ Cardinality(ms) <= MaxInFlight
           Bits(mask) == mask \subseteq 0..(Width - 1) /\ 0 \in mask
<1>1. Values(valueAt, edits) /\ Few(flight \cup arrived) /\ Bits(confirm.mask) /\ edits \in Nat /\ MaxInFlight \in Nat
  BY IndexRange, MutationHistoryAssumption DEF SizesFit, DiffInv, DiffsFit, MutationHistoryAssumption
<1>2. ASSUME Values(valueAt', edits'), Few(flight' \cup arrived'), Bits(confirm'.mask)
      PROVE  SizesFit'
  BY <1>2 DEF SizesFit
<1>3. ASSUME flight' \cup arrived' \subseteq flight \cup arrived PROVE Few(flight' \cup arrived')
  <2> DEFINE old == flight \cup arrived
             new == flight' \cup arrived'
  <2>1. new \in SUBSET old /\ IsFiniteSet(old) /\ Cardinality(old) <= MaxInFlight
    BY <1>1, <1>3
  <2> HIDE DEF old, new
  <2>2. IsFiniteSet(new) /\ Cardinality(new) <= Cardinality(old)
    BY <2>1, FS_Subset
  <2>3. Cardinality(new) \in Nat /\ Cardinality(old) \in Nat
    BY <2>1, <2>2, FS_CardinalityType
  <2>4. Cardinality(new) <= MaxInFlight
    BY <1>1, <2>1, <2>2, <2>3
  <2> QED
    BY <2>2, <2>4 DEF new
<1>4. ASSUME NEW x, NEW n \in 0..edits' \cup {None}, edits <= edits', edits' \in Nat
      PROVE  Values(With(valueAt, x, n), edits')
  <2>1. ASSUME NEW y \in DOMAIN With(valueAt, x, n) PROVE With(valueAt, x, n)[y] \in 0..edits' \cup {None}
    <3>1. y \in {x} \cup DOMAIN valueAt /\ With(valueAt, x, n)[y] = IF y = x THEN n ELSE valueAt[y]
      BY DEF With
    <3>2. y # x => valueAt[y] \in 0..edits \cup {None}
      BY <1>1, <3>1
    <3> QED
      BY <1>1, <1>4, <3>1, <3>2
  <2> QED
    BY <2>1
<1> HIDE DEF Few, Bits
<1>5. ASSUME NEW sameTick, ApplyDiff(sameTick) PROVE SizesFit'
  <2>1. /\ edits' = edits + 1 /\ UNCHANGED <<flight, arrived, confirm>>
        /\ \E x : \E n \in {edits + 1, None} : valueAt' = With(valueAt, x, n)
    <3> DEFINE isKnown == IsCurrent(diffs) => valueAt[CurrentIndex(diffs)] # None
               n == IF isKnown THEN edits + 1 ELSE None
    <3>1. /\ edits' = edits + 1 /\ UNCHANGED <<flight, arrived, confirm>>
          /\ valueAt' = With(valueAt, CurrentIndex(diffs'), n)
      BY <1>5 DEF ApplyDiff, netVars, clientVars
    <3>2. n \in {edits + 1, None}
      OBVIOUS
    <3> HIDE DEF n
    <3> QED
      BY <3>1, <3>2
  <2>2. edits + 1 \in 0..edits' /\ edits <= edits' /\ edits' \in Nat
    BY <1>1, <2>1
  <2>3. PICK x : \E n \in {edits + 1, None} : valueAt' = With(valueAt, x, n)
    BY <2>1
  <2> PICK n \in {edits + 1, None} : valueAt' = With(valueAt, x, n)
    BY <2>3
  <2>4. n \in 0..edits' \cup {None}
    BY <2>2
  <2>5. Values(valueAt', edits')
    BY <1>4, <2>2, <2>4
  <2> QED
    BY <1>1, <1>2, <2>1, <2>5
<1>6. ASSUME NEW sameTick, ChangeDirectly(sameTick) PROVE SizesFit'
  <2>1. /\ UNCHANGED <<flight, arrived, confirm>> /\ edits' = edits + 1
        /\ valueAt' = valueAt \/ valueAt' = With(valueAt, CurrentIndex(diffs), None)
    BY <1>6 DEF ChangeDirectly, netVars, clientVars
  <2>2. edits <= edits' /\ edits' \in Nat /\ None \in 0..edits' \cup {None}
    BY <1>1, <2>1
  <2>3. CASE valueAt' = valueAt
    <3>1. Values(valueAt', edits')
      BY <1>1, <2>1, <2>3
    <3> QED
      BY <1>1, <1>2, <2>1, <3>1
  <2>4. CASE valueAt' = With(valueAt, CurrentIndex(diffs), None)
    <3>1. Values(valueAt', edits')
      BY <1>4, <2>2, <2>4
    <3> QED
      BY <1>1, <1>2, <2>1, <3>1
  <2> QED
    BY <2>1, <2>3, <2>4
<1>7. ASSUME NEW count \in 0..MaxCount, ServerTick(count) PROVE SizesFit'
  <2>1. edits' = edits /\ confirm' = confirm
        /\ (valueAt' = valueAt \/ \E x : valueAt' = With(valueAt, x, edits))
    BY <1>7 DEF ServerTick, clientVars
  <2>2. Values(valueAt', edits')
    BY <1>1, <1>4, <2>1
  <2>3. Few(flight' \cup arrived')
    BY <1>7, MessagesAreFew DEF Few
  <2> QED
    BY <1>1, <1>2, <2>1, <2>2, <2>3
<1>8. ASSUME NEW m, (m \in acks /\ TakeAck(m)) \/ (m \in flight /\ (Receive(m) \/ Lose(m))) PROVE SizesFit'
  <2>1. UNCHANGED <<valueAt, edits, confirm>> /\ flight' \cup arrived' \subseteq flight \cup arrived
    BY <1>8 DEF TakeAck, Receive, Lose, serverVars, clientVars
  <2> QED
    BY <1>1, <1>2, <1>3, <2>1
<1>9. ASSUME NEW m \in arrived, ApplyMessage(m) PROVE SizesFit'
  <2>1. UNCHANGED <<valueAt, edits, flight>> /\ arrived' \subseteq arrived
    BY <1>9 DEF ApplyMessage, serverVars, netVars
  <2>2. PICK last \in 0..ticks : IsWritten(m, last) \/ IsConsumed(m, last) \/ IsSkipped(m, last)
    BY <1>9, WhatApplies
  <2>3. Bits(confirm'.mask)
    <3>1. CASE IsWritten(m, last)
      BY <3>1, TickRange DEF IsWritten, SetLastTick, Bits
    <3>2. CASE IsConsumed(m, last)
      <4>1. last - m.n \in 0..(Width - 1)
        <5>1. m.n \in 1..ticks /\ ticks \in 0..MaxTicks
          BY <1>9, MessageIsKnown
        <5> QED
          BY <3>2, <5>1, TickRange DEF IsConsumed
      <4>2. confirm = [mask |-> confirm.mask, last |-> confirm.last]
        BY DEF HistoryInv, MaskFits
      <4>3. confirm'.mask = confirm.mask \cup {last - m.n}
        BY <3>2, <4>2 DEF IsConsumed, SetAgo
      <4> QED
        BY <1>1, <4>1, <4>3 DEF Bits
    <3>3. CASE IsSkipped(m, last)
      BY <1>1, <3>3 DEF IsSkipped
    <3> QED
      BY <2>2, <3>1, <3>2, <3>3
  <2>4. flight' \cup arrived' \subseteq flight \cup arrived
    BY <2>1
  <2> QED
    BY <1>1, <1>2, <1>3, <2>1, <2>3, <2>4
<1>10. CASE UNCHANGED vars
  BY <1>10 DEF vars, serverVars, netVars, clientVars, SizesFit
<1> QED
  BY <1>5, <1>6, <1>7, <1>8, <1>9, <1>10 DEF Next

\* which hold at the start.
LEMMA InitSizes == Init => SizesFit
<1> SUFFICES ASSUME Init PROVE SizesFit
  OBVIOUS
<1>1. flight \cup arrived = {} /\ edits = 0 /\ valueAt = [i \in {FirstIndex} |-> 0]
  BY DEF Init
<1>2. IsFiniteSet({}) /\ Cardinality({}) = 0
  BY FS_EmptySet
<1>3. confirm = [mask |-> {0}, last |-> TickOf(0)]
  BY DEF Init
<1>4. confirm.mask = {0} /\ 0 \in 0..(Width - 1)
  BY <1>3, TickRange
<1>5. MaxInFlight \in Nat
  BY MutationHistoryAssumption DEF MutationHistoryAssumption
<1> QED
  <2>1. \A x \in DOMAIN valueAt : valueAt[x] \in 0..edits \cup {None}
    BY <1>1
  <2>2. IsFiniteSet(flight \cup arrived) /\ Cardinality(flight \cup arrived) <= MaxInFlight
    BY <1>1, <1>2, <1>5
  <2>3. confirm.mask \subseteq 0..(Width - 1) /\ 0 \in confirm.mask
    BY <1>4
  <2> QED
    BY <2>1, <2>2, <2>3 DEF SizesFit

\* Always: no index stands for a change there was not, no more messages are on
\* their way than fit, and the mask has the last tick and no bit beyond its
\* width, also after set_last_tick has jumped over a gap.
THEOREM SizesHold == Spec => []SizesFit
<1>1. Init => SizesFit
  BY InitSizes
<1>2. SizesFit /\ HistoryInv /\ HistoryInv' /\ DiffInv /\ [Next]_vars => SizesFit'
  BY SizesStep
<1> QED
  BY <1>1, <1>2, HistoryHolds, DiffsHold, PTL DEF Spec

\* A slot counts no more messages than the tick has.
LEMMA SlotIsBounded ==
  ASSUME NEW cs, NEW seen, NEW n \in Int, n >= 1 => cs[n] \in Nat
  PROVE  SlotIn(cs, seen, n).received <= SlotIn(cs, seen, n).count
<1> DEFINE parts == PartsIn(cs, seen, n)
           slot == SlotIn(cs, seen, n)
<1>1. CASE n < 1 \/ parts = {}
  <2>1. slot = NoMessages
    BY <1>1 DEF SlotIn
  <2> QED
    BY <2>1 DEF NoMessages
<1>2. CASE n >= 1 /\ parts # {}
  <2>1. slot = [count |-> cs[n], received |-> Cardinality(parts)]
    BY <1>2 DEF SlotIn
  <2>2. slot.count = cs[n] /\ slot.received = Cardinality(parts)
    BY <2>1
  <2>3. cs[n] \in Nat
    BY <1>2
  <2>4. IsFiniteSet(1..cs[n]) /\ Cardinality(1..cs[n]) = cs[n]
    <3>1. 1 \in Int /\ cs[n] \in Int
      BY <2>3
    <3>2. IsFiniteSet(1..cs[n]) /\ Cardinality(1..cs[n]) = IF 1 > cs[n] THEN 0 ELSE cs[n] - 1 + 1
      BY <3>1, FS_Interval
    <3>3. (IF 1 > cs[n] THEN 0 ELSE cs[n] - 1 + 1) = cs[n]
      BY <2>3
    <3> QED
      BY <3>2, <3>3
  <2>5. parts \in SUBSET (1..cs[n])
    BY DEF PartsIn
  <2> HIDE DEF slot, parts
  <2>6. Cardinality(parts) <= Cardinality(1..cs[n])
    BY <2>4, <2>5, FS_Subset
  <2>7. slot.received <= slot.count
    BY <2>2, <2>4, <2>6
  <2> QED
    BY <2>7 DEF slot
<1> QED
  BY <1>1, <1>2

\* The type of every variable (TypeOK): a history holds at most HISTORY_LEN
\* diffs, the acknowledged cursor and the index of the component are ones the
\* server has used, no slot counts more messages than were sent, and the mask
\* always has the last tick.
THEOREM HistoryTypes == Spec => []TypeOK
<1>1. HistoryInv /\ DiffInv /\ SizesFit => TypeOK
  <2> SUFFICES ASSUME HistoryInv, DiffInv, SizesFit PROVE TypeOK
    OBVIOUS
  <2>1. ticks \in 0..MaxTicks /\ applied \subseteq 0..ticks
    BY NewestAreKnown
  <2>2. edits \in 0..MaxEdits
    BY DEF DiffInv, DiffsFit
  <2>3. PICK c \in Nat : HistoryEnds(valueAt, edits, diffs, c, changed)
    BY DEF DiffInv, DiffsFit
  <2>4. diffs.next \in 0..(IndexMod - 1) /\ {changed, diffs.changed} \subseteq 0..edits
    <3>1. c + 1 \in 0..(MaxEdits + 1)
      BY <2>2, <2>3, HistoryBounds
    <3> QED
      BY <2>3, <3>1, IndexValue DEF HistoryEnds
  <2>5. diffs.diffs \in Seq(1..MaxEdits) /\ Len(diffs.diffs) <= HistoryLen
    <3> DEFINE ds == diffs.diffs
    <3>1. ds \in Seq(Nat) /\ Len(ds) <= HistoryLen
          /\ \A j \in 1..Len(ds) : IsDiff(valueAt, c - Len(ds) + j, ds[j])
      BY <2>3 DEF HistoryEnds, AreDiffs
    <3> HIDE DEF ds
    <3>2. ASSUME NEW j \in 1..Len(ds) PROVE ds[j] \in 1..MaxEdits
      BY <3>1 DEF IsDiff
    <3>3. ds \in Seq(1..MaxEdits)
      <4>1. Len(ds) \in Nat /\ ds \in [1..Len(ds) -> Nat]
        BY <3>1, LenProperties
      <4>2. ds \in [1..Len(ds) -> 1..MaxEdits]
        BY <3>2, <4>1
      <4> QED
        BY <4>1, <4>2, SeqDef
    <3> QED
      BY <3>1, <3>3 DEF ds
  <2>6. entityTicks.at \in 0..edits /\ entityTicks.cursor \in DOMAIN valueAt \cup {None}
    BY DEF DiffInv, MessagesKnow, Knows
  <2>7. /\ Cardinality(flight \cup arrived) <= MaxInFlight
        /\ confirm.mask \subseteq 0..(Width - 1) /\ 0 \in confirm.mask
    BY DEF SizesFit
  <2>8. /\ DOMAIN mutateTicks.slots = 0..(Width - 1)
        /\ \A ago \in DOMAIN mutateTicks.slots :
             mutateTicks.slots[ago].received <= mutateTicks.slots[ago].count
    <3>1. PICK last \in 0..ticks : mutateTicks.slots = SlotsOf(counts, counted, last)
      BY NewestAreKnown
    <3>2. ASSUME NEW ago \in 0..(Width - 1)
          PROVE  SlotIn(counts, counted, last - ago).received <= SlotIn(counts, counted, last - ago).count
      <4>1. last - ago \in Int /\ last - ago <= ticks
        BY <2>1, TickRange
      <4>2. last - ago >= 1 => counts[last - ago] \in Nat
        <5>1. counts \in Seq(Nat) /\ Len(counts) = ticks
          BY DEF HistoryInv, MessagesFit
        <5> QED
          BY <4>1, <5>1
      <4> QED
        BY <4>1, <4>2, SlotIsBounded
    <3> QED
      BY <3>1, <3>2 DEF SlotsOf
  <2>9. copy.applied \in DOMAIN valueAt
    BY DEF DiffInv, CopyFits
  <2> QED
    BY <2>1, <2>2, <2>4, <2>5, <2>6, <2>7, <2>8, <2>9 DEF TypeOK
<1> QED
  BY <1>1, HistoryHolds, DiffsHold, SizesHold, PTL

-----------------------------------------------------------------------------
(* The frontier.                                                           *)

\* The frontier at the start.
LEMMA InitFrontier == Init => FrontierInv
<1> SUFFICES ASSUME Init PROVE FrontierInv
  OBVIOUS
<1>1. /\ ticks = 0 /\ edits = 0 /\ editsAt = <<>> /\ flight = {} /\ arrived = {} /\ acks = {}
      /\ applied = {0} /\ counted = {}
      /\ entityTicks = [tick |-> TickOf(0), at |-> 0, cursor |-> None]
      /\ copy = [value |-> <<>>, applied |-> FirstIndex, pending |-> <<>>]
      /\ mutateTicks = [slots |-> [ago \in 0..(Width - 1) |-> NoMessages],
                         last |-> TickOf(0), confirmed |-> None]
  BY DEF Init
<1>2. entityTicks.at = 0 /\ entityTicks.cursor = None /\ copy.value = <<>> /\ mutateTicks.confirmed = None
  BY <1>1
<1>3. EditsFit
  BY <1>1, <1>2 DEF EditsFit
<1>4. ConfirmedFits
  BY <1>2 DEF ConfirmedFits
<1>5. Len(copy.value) = 0
  BY <1>2
<1>6. Snapshots
  <2>1. \A last \in applied : last = 0
    BY <1>1
  <2> QED
    BY <1>1, <1>2, <1>5, <2>1 DEF Snapshots, EditsAt
<1>7. FrontierFits
  BY <1>1, <1>2, <1>5 DEF FrontierFits, Reached
<1> QED
  BY <1>3, <1>4, <1>6, <1>7 DEF FrontierInv

\* A tick records the changes up to it, and each of its messages has them.
LEMMA EditsStep == EditsFit /\ HistoryInv /\ [Next]_vars => EditsFit'
<1> SUFFICES ASSUME EditsFit, HistoryInv, [Next]_vars PROVE EditsFit'
  OBVIOUS
<1>1. /\ editsAt \in Seq(Nat) /\ Len(editsAt) = ticks /\ edits \in Nat /\ entityTicks.at \in 0..edits /\ ticks \in Nat
      /\ \A i \in 1..ticks : editsAt[i] <= edits /\ \A j \in i..ticks : editsAt[i] <= editsAt[j]
      /\ \A m \in flight \cup arrived \cup acks : m.n \in 1..ticks /\ m.at = editsAt[m.n]
  BY TickRange DEF EditsFit, HistoryInv, MessagesFit
<1>2. ASSUME edits' \in Nat, edits <= edits', UNCHANGED <<ticks, editsAt>>, entityTicks'.at \in 0..edits',
             flight' \cup arrived' \cup acks' \subseteq flight \cup arrived \cup acks
      PROVE  EditsFit'
  <2>1. \A i \in 1..ticks : editsAt[i] \in Nat
    BY <1>1
  <2>2. \A i \in 1..ticks : editsAt[i] <= edits'
    BY <1>1, <1>2, <2>1
  <2> QED
    BY <1>1, <1>2, <2>2 DEF EditsFit
<1>3. CASE \E sameTick \in BOOLEAN : ApplyDiff(sameTick) \/ ChangeDirectly(sameTick)
  <2>1. edits' = edits + 1 /\ UNCHANGED <<ticks, editsAt, entityTicks, flight, arrived, acks>>
    BY <1>3 DEF ApplyDiff, ChangeDirectly, netVars, clientVars
  <2>2. edits' \in Nat /\ edits <= edits' /\ entityTicks'.at \in 0..edits'
    BY <1>1, <2>1
  <2> QED
    BY <1>2, <2>1, <2>2
<1>4. ASSUME NEW count \in 0..MaxCount, ServerTick(count) PROVE EditsFit'
  <2>1. /\ ticks' = ticks + 1 /\ editsAt' = Append(editsAt, edits)
        /\ UNCHANGED <<edits, entityTicks, arrived, acks>>
    BY <1>4 DEF ServerTick, clientVars
  <2>2. /\ editsAt' \in Seq(Nat) /\ Len(editsAt') = ticks' /\ ticks' \in Nat
        /\ editsAt'[ticks'] = edits /\ \A i \in 1..ticks : editsAt'[i] = editsAt[i]
    BY <1>1, <2>1
  <2>3. ASSUME NEW i \in 1..ticks' PROVE editsAt'[i] <= edits /\ \A j \in i..ticks' : editsAt'[i] <= editsAt'[j]
    <3>1. CASE i = ticks'
      BY <1>1, <2>1, <2>2, <3>1
    <3>2. CASE i # ticks'
      <4>1. i \in 1..ticks /\ editsAt'[i] = editsAt[i] /\ editsAt[i] <= edits
        BY <1>1, <2>1, <2>2, <3>2
      <4>2. ASSUME NEW j \in i..ticks' PROVE editsAt'[i] <= editsAt'[j]
        <5>1. CASE j = ticks'
          BY <2>2, <4>1, <5>1
        <5>2. CASE j # ticks'
          <6>1. j \in i..ticks /\ j \in 1..ticks
            BY <1>1, <2>1, <4>1, <5>2
          <6> QED
            BY <1>1, <2>2, <4>1, <6>1
        <5> QED
          BY <5>1, <5>2
      <4> QED
        BY <4>1, <4>2
    <3> QED
      BY <3>1, <3>2
  <2>4. ASSUME NEW m \in flight' \cup arrived' \cup acks' PROVE m.n \in 1..ticks' /\ m.at = editsAt'[m.n]
    <3>1. CASE m \in flight \cup arrived \cup acks
      BY <1>1, <2>1, <2>2, <3>1
    <3>2. CASE m \in flight' \ flight
      <4>1. \E part, delta, cursor : m = Message(part, count, delta, cursor)
        BY <1>4, <3>2 DEF ServerTick
      <4>2. m.n = ticks + 1 /\ m.at = edits
        BY <4>1 DEF Message
      <4> QED
        BY <1>1, <2>1, <2>2, <4>2
    <3> QED
      BY <2>1, <3>1, <3>2
  <2>5. edits' \in Nat /\ entityTicks'.at \in 0..edits'
    BY <1>1, <2>1
  <2> QED
    BY <2>1, <2>2, <2>3, <2>4, <2>5 DEF EditsFit
<1>5. ASSUME NEW m \in acks, TakeAck(m) PROVE EditsFit'
  <2>1. UNCHANGED <<ticks, edits, editsAt, flight, arrived>> /\ acks' \subseteq acks /\ entityTicks' = Acknowledged(m)
    BY <1>5 DEF TakeAck, clientVars
  <2>2. entityTicks'.at \in {entityTicks.at, m.at}
    BY <2>1 DEF Acknowledged
  <2>3. m.at \in 0..edits
    BY <1>1
  <2> QED
    BY <1>1, <1>2, <2>1, <2>2, <2>3
<1>6. ASSUME NEW m \in flight, Receive(m) \/ Lose(m) PROVE EditsFit'
  <2>1. /\ UNCHANGED <<ticks, edits, editsAt, entityTicks>>
        /\ flight' \cup arrived' \cup acks' \subseteq flight \cup arrived \cup acks
    BY <1>6 DEF Receive, Lose, serverVars, clientVars
  <2> QED
    BY <1>1, <1>2, <2>1
<1>7. ASSUME NEW m \in arrived, ApplyMessage(m) PROVE EditsFit'
  <2>1. UNCHANGED <<ticks, edits, editsAt, entityTicks, flight, acks>> /\ arrived' \subseteq arrived
    BY <1>7 DEF ApplyMessage, serverVars, netVars
  <2> QED
    BY <1>1, <1>2, <2>1
<1>8. CASE UNCHANGED vars
  BY <1>8 DEF vars, serverVars, netVars, clientVars, EditsFit
<1> QED
  BY <1>3, <1>4, <1>5, <1>6, <1>7, <1>8 DEF Next

\* A tick that is complete stays so.
LEMMA CompleteLasts ==
  ASSUME NEW n, IsComplete(n), counts'[n] = counts[n], counted \subseteq counted'
  PROVE  IsComplete(n)'
PROOF BY DEF IsComplete

\* The last confirmed tick changes only to one that is complete.
LEMMA ConfirmIsComplete ==
  ASSUME HistoryInv, HistoryInv', NEW m, ApplyMessage(m), mutateTicks'.confirmed # mutateTicks.confirmed
  PROVE  mutateTicks'.confirmed = TickOf(m.n) /\ IsComplete(m.n)'
<1> DEFINE n == m.n
           t == mutateTicks
           isNewer == IsNewer(m.tick, t.last, TickMod)
           slots == IF isNewer THEN PushFront(t.slots, DistanceAfter(m.tick, t.last, TickMod))
                    ELSE t.slots
           lastTick == IF isNewer THEN m.tick ELSE t.last
           ago == DistanceAfter(lastTick, m.tick, TickMod)
           slot == Counted(slots[ago], m.count)
<1>1. /\ n \in 1..ticks /\ n \in 0..MaxTicks /\ m.tick = TickOf(n) /\ ticks \in 0..MaxTicks
      /\ ticks' = ticks /\ counts' = counts /\ counts[n] \in Nat /\ n \in Nat /\ n >= 1
  <2>1. /\ m.n \in 1..ticks /\ m.n \in 0..MaxTicks /\ m.tick = TickOf(m.n) /\ ticks \in 0..MaxTicks
        /\ ticks' = ticks /\ counts' = counts /\ counts[m.n] \in Nat
    BY MessageIsKnown
  <2>2. m.n \in Nat /\ m.n >= 1
    BY <2>1, TickRange
  <2> QED
    BY <2>1, <2>2
<1>2. /\ mutateTicks' = ConfirmMutateTick(m) /\ counted' = counted \cup {<<m.n, m.part>>}
  BY DEF ApplyMessage
<1>3. mutateTicks' = IF ago \notin DOMAIN slots THEN t
        ELSE [slots |-> [slots EXCEPT ![ago] = slot], last |-> lastTick,
              confirmed |-> IF AllReceived(slot) THEN LastConfirmed(t.confirmed, m.tick)
                            ELSE t.confirmed]
  BY <1>2 DEF ConfirmMutateTick
<1> HIDE DEF slots, lastTick, ago, slot, t, isNewer
<1>4. ago \in DOMAIN slots
  BY <1>3 DEF t
<1>5. /\ mutateTicks'.slots = [slots EXCEPT ![ago] = slot] /\ mutateTicks'.last = lastTick
      /\ mutateTicks'.confirmed = IF AllReceived(slot) THEN LastConfirmed(t.confirmed, m.tick) ELSE t.confirmed
  BY <1>3, <1>4
<1>6. mutateTicks'.slots[ago] = slot
  BY <1>4, <1>5
<1>7. PICK last \in 0..ticks :
        /\ IsNewest(last, CountedTicks(counted')) /\ mutateTicks'.last = TickOf(last)
        /\ mutateTicks'.slots = SlotsOf(counts, counted', last)
  BY <1>1 DEF HistoryInv, SlotsFit
<1>8. n <= last
  <2>1. <<m.n, m.part>> \in counted' /\ <<m.n, m.part>>[1] = m.n
    BY <1>2
  <2>2. n \in CountedTicks(counted')
    BY <2>1 DEF CountedTicks
  <2> QED
    BY <1>7, <2>2 DEF IsNewest
<1>9. ago = last - n
  <2>1. last \in 0..MaxTicks
    BY <1>1, TickRange
  <2>2. DistanceAfter(TickOf(last), TickOf(n), TickMod) = last - n
    BY <1>1, <1>8, <2>1, Distances
  <2> QED
    BY <1>1, <1>5, <1>7, <2>2 DEF ago
<1>10. slot = SlotIn(counts, counted', n)
  <2>1. DOMAIN mutateTicks'.slots = DOMAIN slots
    BY <1>5
  <2>2. ago \in 0..(Width - 1)
    BY <1>4, <1>7, <2>1 DEF SlotsOf
  <2>3. last - ago = n
    BY <1>1, <1>8, <1>9
  <2> HIDE DEF n
  <2> QED
    BY <1>6, <1>7, <2>2, <2>3 DEF SlotsOf
<1>11. AllReceived(slot) /\ mutateTicks'.confirmed = m.tick
  BY <1>5 DEF LastConfirmed, t
<1>12. AllReceived(SlotIn(counts, counted', n))
         <=> counts[n] > 0 /\ \A part \in 1..counts[n] : <<n, part>> \in counted'
  BY <1>1, SlotIsFull
<1>13. IsComplete(n)'
  BY <1>1, <1>10, <1>11, <1>12 DEF IsComplete
<1> QED
  BY <1>1, <1>11, <1>13

\* What completes a tick is the last of its messages, and a complete tick stays
\* complete.
LEMMA ConfirmedStep == ConfirmedFits /\ HistoryInv /\ HistoryInv' /\ [Next]_vars => ConfirmedFits'
<1> SUFFICES ASSUME ConfirmedFits, HistoryInv, HistoryInv', [Next]_vars PROVE ConfirmedFits'
  OBVIOUS
<1>1. ticks \in Nat /\ counts \in Seq(Nat) /\ Len(counts) = ticks
  BY TickRange DEF HistoryInv, MessagesFit
<1>2. ASSUME mutateTicks'.confirmed = mutateTicks.confirmed, ticks' \in Nat, ticks <= ticks',
             \A n \in 1..ticks : counts'[n] = counts[n], counted \subseteq counted'
      PROVE  ConfirmedFits'
  <2>1. CASE mutateTicks.confirmed = None
    BY <1>2, <2>1 DEF ConfirmedFits
  <2>2. CASE \E n \in 1..ticks : mutateTicks.confirmed = TickOf(n) /\ IsComplete(n)
    <3>1. PICK n \in 1..ticks : mutateTicks.confirmed = TickOf(n) /\ IsComplete(n)
      BY <2>2
    <3>2. IsComplete(n)'
      BY <1>2, <3>1, CompleteLasts
    <3>3. n \in 1..ticks'
      BY <1>1, <1>2
    <3>4. mutateTicks'.confirmed = TickOf(n)
      BY <1>2, <3>1
    <3> QED
      BY <3>2, <3>3, <3>4 DEF ConfirmedFits
  <2> QED
    BY <2>1, <2>2 DEF ConfirmedFits
<1>3. CASE UNCHANGED <<mutateTicks, ticks, counts, counted>>
  BY <1>1, <1>2, <1>3
<1>4. ASSUME NEW count \in 0..MaxCount, ServerTick(count) PROVE ConfirmedFits'
  <2>1. ticks' = ticks + 1 /\ counts' = Append(counts, count) /\ UNCHANGED <<mutateTicks, counted>> /\ count \in Nat
    BY <1>4, MutationHistoryAssumption DEF ServerTick, clientVars, MutationHistoryAssumption
  <2>2. \A n \in 1..ticks : counts'[n] = counts[n]
    BY <1>1, <2>1
  <2> QED
    BY <1>1, <1>2, <2>1, <2>2
<1>5. ASSUME NEW m \in arrived, ApplyMessage(m) PROVE ConfirmedFits'
  <2>1. UNCHANGED <<ticks, counts>> /\ counted \subseteq counted' /\ m.n \in 1..ticks
    BY <1>5, MessageIsKnown DEF ApplyMessage, serverVars
  <2>2. CASE mutateTicks'.confirmed = mutateTicks.confirmed
    BY <1>1, <1>2, <2>1, <2>2
  <2>3. CASE mutateTicks'.confirmed # mutateTicks.confirmed
    <3>1. mutateTicks'.confirmed = TickOf(m.n) /\ IsComplete(m.n)'
      BY <1>5, <2>3, ConfirmIsComplete
    <3>2. m.n \in 1..ticks'
      BY <2>1
    <3> QED
      BY <3>1, <3>2 DEF ConfirmedFits
  <2> QED
    BY <2>2, <2>3
<1>6. CASE \E sameTick \in BOOLEAN : ApplyDiff(sameTick) \/ ChangeDirectly(sameTick)
  BY <1>3, <1>6 DEF ApplyDiff, ChangeDirectly, clientVars
<1>7. ASSUME NEW m, TakeAck(m) \/ Receive(m) \/ Lose(m) PROVE ConfirmedFits'
  BY <1>3, <1>7 DEF TakeAck, Receive, Lose, serverVars, clientVars
<1>8. CASE UNCHANGED vars
  BY <1>3, <1>8 DEF vars, serverVars, clientVars
<1> QED
  BY <1>4, <1>5, <1>6, <1>7, <1>8 DEF Next

\* A message that is applied has its edits in the component, or a later one
\* had them there before.
LEMMA ApplyReaches ==
  ASSUME HistoryInv, EditsFit, Snapshots, NEW m \in arrived, ApplyMessage(m)
  PROVE  /\ \A last \in applied' : IsNewest(last, applied') => Len(copy'.value) = EditsAt(last)
         /\ Len(copy.value) \in Nat /\ Len(copy'.value) \in Nat /\ Len(copy.value) <= Len(copy'.value)
         /\ IsDelta(m) => m.at <= Len(copy'.value)
<1>1. /\ m.n \in 1..ticks /\ ticks \in 0..MaxTicks /\ m.at = editsAt[m.n]
  BY MessageIsKnown DEF EditsFit
<1>2. /\ editsAt \in Seq(Nat) /\ Len(editsAt) = ticks
      /\ \A i \in 1..ticks : editsAt[i] <= edits /\ \A j \in i..ticks : editsAt[i] <= editsAt[j]
  BY DEF EditsFit
<1>3. PICK last \in 0..ticks :
        /\ IsNewest(last, applied) /\ confirm.last = TickOf(last)
        /\ IsWritten(m, last) \/ IsConsumed(m, last) \/ IsSkipped(m, last)
  BY WhatApplies
<1>4. ticks \in Nat /\ last \in Nat /\ m.n \in Nat /\ m.n >= 1 /\ \A o \in applied : o \in Nat
  BY <1>1, TickRange DEF HistoryInv, MaskFits
<1>5. \A i \in 1..ticks : editsAt[i] \in Nat
  BY <1>2
<1>6. ASSUME NEW n \in 0..ticks PROVE EditsAt(n) \in Nat
  BY <1>5 DEF EditsAt
<1>7. ASSUME NEW i \in 0..ticks, NEW j \in 0..ticks, i <= j PROVE EditsAt(i) <= EditsAt(j)
  <2>1. CASE i = 0
    BY <1>6, <2>1 DEF EditsAt
  <2>2. CASE i # 0
    <3>1. i \in 1..ticks /\ j \in i..ticks /\ j # 0
      BY <1>4, <1>7, <2>2
    <3> QED
      BY <1>2, <3>1 DEF EditsAt
  <2> QED
    BY <2>1, <2>2
<1>8. Len(copy.value) = EditsAt(last) /\ EditsAt(last) \in Nat
  BY <1>3, <1>6 DEF Snapshots, IsNewest
<1>9. m.at = EditsAt(m.n) /\ EditsAt(m.n) \in Nat /\ m.n \in 0..ticks
  BY <1>1, <1>4, <1>6 DEF EditsAt
<1>10. CASE IsWritten(m, last)
  <2>1. last < m.n /\ applied' = applied \cup {m.n} /\ copy' = Written(copy, m.delta) /\ IsDelta(m)
    BY <1>10 DEF IsWritten
  <2>2. m.delta.kind = "Snapshot" /\ m.delta.edits = ValueAfter(m.at)
    BY <2>1 DEF Snapshots
  <2>3. copy'.value = ValueAfter(m.at)
    BY <2>1, <2>2 DEF Written
  <2>4. Len(copy'.value) = EditsAt(m.n)
    <3>1. Len(ValueAfter(m.at)) = m.at
      BY <1>9 DEF ValueAfter
    <3> QED
      BY <1>9, <2>3, <3>1
  <2>5. ASSUME NEW l \in applied', IsNewest(l, applied') PROVE l = m.n
    <3>1. m.n <= l /\ (l = m.n \/ l <= last)
      BY <1>3, <2>1, <2>5 DEF IsNewest
    <3>2. l \in Nat
      BY <1>4, <2>1
    <3> QED
      BY <1>4, <2>1, <3>1, <3>2
  <2>6. EditsAt(last) <= EditsAt(m.n)
    BY <1>4, <1>7, <1>9, <2>1
  <2> QED
    BY <1>8, <1>9, <2>4, <2>5, <2>6
<1>11. CASE IsConsumed(m, last) \/ IsSkipped(m, last)
  <2>1. copy'.value = copy.value
    BY <1>11 DEF IsConsumed, IsSkipped, Consumed
  <2>2. applied' = applied \/ (applied' = applied \cup {m.n} /\ m.n <= last)
    BY <1>11 DEF IsConsumed, IsSkipped
  <2>3. ASSUME NEW l \in applied', IsNewest(l, applied') PROVE l = last
    <3>1. last <= l /\ l <= last
      BY <1>3, <2>2, <2>3 DEF IsNewest
    <3>2. l \in Nat
      BY <1>4, <2>2
    <3> QED
      BY <1>4, <3>1, <3>2
  <2>4. IsDelta(m) => m.n <= last
    BY <1>11 DEF IsConsumed, IsSkipped
  <2>5. IsDelta(m) => EditsAt(m.n) <= EditsAt(last)
    BY <1>7, <1>9, <2>4
  <2> QED
    BY <1>8, <1>9, <2>1, <2>3, <2>5
<1> QED
  BY <1>3, <1>10, <1>11

\* Without a cursor a delta is the whole component.
LEMMA TickSendsSnapshots ==
  ASSUME entityTicks.cursor = None, ~recordsFirst, NEW count \in 0..MaxCount, ServerTick(count),
         NEW m \in flight' \ flight
  PROVE  /\ m.cursor = None /\ m.at = edits /\ m.n = ticks + 1
         /\ IsDelta(m) => m.delta.kind = "Snapshot" /\ m.delta.edits = ValueAfter(m.at)
         /\ edits > entityTicks.at /\ m.part = 1 => IsDelta(m)
<1> DEFINE isChanged == edits > entityTicks.at
           answer == DiffsAfter(diffs, entityTicks.cursor, changed)
           cursor == IF entityTicks.cursor # None \/ recordsFirst THEN answer.index ELSE None
           delta == IF isChanged THEN Delta(answer) ELSE NoDelta
           told == IF isChanged THEN cursor ELSE None
<1>1. flight' = flight \cup {Message(1, count, delta, told) : x \in 1..(IF count > 0 THEN 1 ELSE 0)}
                  \cup {Message(part, count, NoDelta, None) : part \in 2..count}
  BY DEF ServerTick
<1>2. told = None
  OBVIOUS
<1>3. answer.diffs = <<>>
  <2>1. CASE diffs.changed # changed
    <3>1. answer = [history |-> [next |-> Advance(diffs.next, 1, IndexMod), changed |-> changed, diffs |-> <<>>],
                    index |-> diffs.next, diffs |-> <<>>]
      BY <2>1 DEF DiffsAfter
    <3> HIDE DEF answer
    <3> QED
      BY <3>1
  <2>2. CASE diffs.changed = changed
    <3>1. answer = [history |-> diffs, index |-> CurrentIndex(diffs), diffs |-> <<>>]
      BY <2>2 DEF DiffsAfter
    <3> HIDE DEF answer
    <3> QED
      BY <3>1
  <2> QED
    BY <2>1, <2>2
<1> HIDE DEF answer
<1>4. Delta(answer) = [kind |-> "Snapshot", index |-> answer.index, edits |-> ValueAfter(edits)]
  BY <1>3 DEF Delta
<1>5. /\ Delta(answer).kind = "Snapshot" /\ Delta(answer).edits = ValueAfter(edits)
      /\ Delta(answer) # NoDelta
  BY <1>4 DEF NoDelta
<1> HIDE DEF delta, told
<1>6. \/ m = Message(1, count, delta, told)
      \/ \E part \in 2..count : m = Message(part, count, NoDelta, None)
  BY <1>1
<1>7. CASE m = Message(1, count, delta, told)
  <2>1. m.cursor = None /\ m.at = edits /\ m.n = ticks + 1 /\ m.delta = delta
    BY <1>2, <1>7 DEF Message
  <2> QED
    BY <1>5, <2>1 DEF IsDelta, delta
<1>8. CASE \E part \in 2..count : m = Message(part, count, NoDelta, None)
  <2>1. m.cursor = None /\ m.at = edits /\ m.n = ticks + 1 /\ m.delta = NoDelta /\ m.part # 1
    BY <1>8 DEF Message
  <2> QED
    BY <2>1 DEF IsDelta
<1> QED
  BY <1>6, <1>7, <1>8

\* A component without a cursor is sent whole, and the client has the one of the
\* newest tick applied.
LEMMA SnapshotsStep ==
  ASSUME Snapshots, ~recordsFirst, EditsFit, HistoryInv, [Next]_vars
  PROVE  Snapshots'
<1> DEFINE Whole(m) == /\ m.cursor = None
                       /\ IsDelta(m) => m.delta.kind = "Snapshot" /\ m.delta.edits = ValueAfter(m.at)
<1>1. /\ entityTicks.cursor = None /\ \A m \in flight \cup arrived \cup acks : Whole(m)
      /\ \A last \in applied : IsNewest(last, applied) => Len(copy.value) = EditsAt(last)
  BY DEF Snapshots
<1>2. applied \subseteq 0..ticks /\ ticks \in Nat /\ editsAt \in Seq(Nat) /\ Len(editsAt) = ticks
  BY TickRange DEF HistoryInv, MaskFits, MessagesFit, EditsFit
<1>3. ASSUME entityTicks'.cursor = None, \A m \in flight' \cup arrived' \cup acks' : Whole(m),
             \A last \in applied' : IsNewest(last, applied') => Len(copy'.value) = EditsAt(last)'
      PROVE  Snapshots'
  BY <1>3 DEF Snapshots, IsDelta
<1> HIDE DEF Whole
<1>4. ASSUME UNCHANGED <<applied, copy>>, \A i \in 1..ticks : editsAt'[i] = editsAt[i],
             NEW last \in applied', IsNewest(last, applied')
      PROVE  Len(copy'.value) = EditsAt(last)'
  <2>1. last \in 0..ticks /\ Len(copy'.value) = EditsAt(last)
    BY <1>1, <1>2, <1>4
  <2>2. EditsAt(last)' = EditsAt(last)
    BY <1>2, <1>4, <2>1 DEF EditsAt
  <2> QED
    BY <2>1, <2>2
<1>5. CASE UNCHANGED <<applied, copy, editsAt, entityTicks>>
           /\ flight' \cup arrived' \cup acks' \subseteq flight \cup arrived \cup acks
  BY <1>1, <1>3, <1>4, <1>5
<1>6. ASSUME NEW count \in 0..MaxCount, ServerTick(count) PROVE Snapshots'
  <2>1. UNCHANGED <<applied, copy, entityTicks, arrived, acks>> /\ editsAt' = Append(editsAt, edits)
    BY <1>6 DEF ServerTick, clientVars
  <2>2. edits \in Nat
    BY DEF EditsFit
  <2>3. \A i \in 1..ticks : editsAt'[i] = editsAt[i]
    BY <1>2, <2>1, <2>2
  <2>4. \A m \in flight' \ flight : Whole(m)
    BY <1>1, <1>6, TickSendsSnapshots DEF Whole
  <2>5. \A m \in flight' \cup arrived' \cup acks' : Whole(m)
    BY <1>1, <2>1, <2>4
  <2> QED
    BY <1>1, <1>3, <1>4, <2>1, <2>3, <2>5
<1>7. ASSUME NEW m \in acks, TakeAck(m) PROVE Snapshots'
  <2>1. /\ UNCHANGED <<applied, copy, editsAt, flight, arrived>> /\ acks' \subseteq acks
        /\ entityTicks' = Acknowledged(m)
    BY <1>7 DEF TakeAck, clientVars
  <2>2. m.cursor = None
    BY <1>1 DEF Whole
  <2>3. entityTicks'.cursor = None
    BY <1>1, <2>1, <2>2 DEF Acknowledged
  <2> QED
    BY <1>1, <1>3, <1>4, <2>1, <2>3
<1>8. ASSUME NEW m \in flight, Receive(m) \/ Lose(m) PROVE Snapshots'
  <2>1. /\ UNCHANGED <<applied, copy, editsAt, entityTicks>>
        /\ flight' \cup arrived' \cup acks' \subseteq flight \cup arrived \cup acks
    BY <1>8 DEF Receive, Lose, serverVars, clientVars
  <2> QED
    BY <1>5, <2>1
<1>9. ASSUME NEW m \in arrived, ApplyMessage(m) PROVE Snapshots'
  <2>1. UNCHANGED <<editsAt, entityTicks, flight, acks>> /\ arrived' \subseteq arrived
    BY <1>9 DEF ApplyMessage, serverVars, netVars
  <2>2. \A last \in applied' : IsNewest(last, applied') => Len(copy'.value) = EditsAt(last)
    BY <1>9, ApplyReaches
  <2>3. \A last : EditsAt(last)' = EditsAt(last)
    BY <2>1 DEF EditsAt
  <2>4. \A m_1 \in flight' \cup arrived' \cup acks' : Whole(m_1)
    BY <1>1, <2>1
  <2> QED
    BY <1>1, <1>3, <2>1, <2>2, <2>3, <2>4
<1>10. CASE \E sameTick \in BOOLEAN : ApplyDiff(sameTick) \/ ChangeDirectly(sameTick)
  BY <1>5, <1>10 DEF ApplyDiff, ChangeDirectly, netVars, clientVars
<1>11. CASE UNCHANGED vars
  BY <1>5, <1>11 DEF vars, serverVars, netVars, clientVars
<1> QED
  BY <1>6, <1>7, <1>8, <1>9, <1>10, <1>11 DEF Next

\* A number of edits that the component has, or that a delta has which arrived,
\* stays so.
LEMMA ReachedLasts ==
  ASSUME HistoryInv, EditsFit, Snapshots, [Next]_vars,
         NEW n \in Nat, NEW before \in Nat, Reached(copy, arrived, n, before),
         NEW later \in Nat, before <= later
  PROVE  Reached(copy', arrived', n, later)
<1>1. \A m \in arrived : m.n \in Nat
  <2>1. ticks \in 0..MaxTicks /\ \A m \in arrived : m.n \in 1..ticks
    BY DEF HistoryInv, MessagesFit
  <2> QED
    BY <2>1
<1>2. ASSUME copy' = copy, arrived \subseteq arrived' PROVE Reached(copy', arrived', n, later)
  BY <1>1, <1>2 DEF Reached
<1>3. ASSUME NEW m \in arrived, ApplyMessage(m) PROVE Reached(copy', arrived', n, later)
  <2>1. /\ Len(copy.value) \in Nat /\ Len(copy'.value) \in Nat /\ Len(copy.value) <= Len(copy'.value)
        /\ IsDelta(m) => m.at <= Len(copy'.value)
    BY <1>3, ApplyReaches
  <2>2. arrived' = arrived \ {m}
    BY <1>3 DEF ApplyMessage
  <2>3. CASE Len(copy.value) >= n
    BY <2>1, <2>3 DEF Reached
  <2>4. CASE \E o \in arrived : IsDelta(o) /\ o.at = n /\ o.n < before
    <3>1. PICK o \in arrived : IsDelta(o) /\ o.at = n /\ o.n < before
      BY <2>4
    <3>2. o.n \in Nat
      BY <1>1
    <3>3. CASE o = m
      BY <2>1, <3>1, <3>3 DEF Reached
    <3>4. CASE o # m
      BY <2>2, <3>1, <3>2, <3>4 DEF Reached
    <3> QED
      BY <3>3, <3>4
  <2> QED
    BY <2>3, <2>4 DEF Reached
<1>4. CASE \E sameTick \in BOOLEAN : ApplyDiff(sameTick) \/ ChangeDirectly(sameTick)
  BY <1>2, <1>4 DEF ApplyDiff, ChangeDirectly, netVars, clientVars
<1>5. CASE \E count \in 0..MaxCount : ServerTick(count)
  BY <1>2, <1>5 DEF ServerTick, clientVars
<1>6. CASE \E m \in acks : TakeAck(m)
  BY <1>2, <1>6 DEF TakeAck, clientVars
<1>7. CASE \E m \in flight : Receive(m) \/ Lose(m)
  BY <1>2, <1>7 DEF Receive, Lose, clientVars
<1>8. CASE UNCHANGED vars
  BY <1>2, <1>8 DEF vars, clientVars
<1> QED
  BY <1>3, <1>4, <1>5, <1>6, <1>7, <1>8 DEF Next

\* A tick that was not counted is still awaited.
LEMMA AwaitedLasts ==
  ASSUME HistoryInv, EditsFit, Snapshots, ~recordsFirst, [Next]_vars, NEW n \in 1..ticks, Awaited(n)
  PROVE  Awaited(n)' \/ Len(copy'.value) >= editsAt[n]
<1>1. <<n, 1>> \notin counted /\ \A m \in flight \cup arrived : m.n = n /\ m.part = 1 => IsDelta(m)
  BY DEF Awaited
<1>2. ASSUME counted' = counted, flight' \cup arrived' \subseteq flight \cup arrived PROVE Awaited(n)'
  BY <1>1, <1>2 DEF Awaited, IsDelta
<1>3. ASSUME NEW count \in 0..MaxCount, ServerTick(count) PROVE Awaited(n)'
  <2>1. counted' = counted /\ arrived' = arrived
    BY <1>3 DEF ServerTick, clientVars
  <2>2. \A m \in flight' \ flight : m.n # n
    <3>1. ticks \in Nat
      BY TickRange DEF HistoryInv, MessagesFit
    <3>2. \A m \in flight' \ flight : m.n = ticks + 1
      BY <1>3, TickSendsSnapshots DEF Snapshots
    <3> QED
      BY <3>1, <3>2
  <2> QED
    BY <1>1, <2>1, <2>2 DEF Awaited, IsDelta
<1>4. ASSUME NEW m \in arrived, ApplyMessage(m) PROVE Awaited(n)' \/ Len(copy'.value) >= editsAt[n]
  <2>1. counted' = counted \cup {<<m.n, m.part>>} /\ arrived' \subseteq arrived /\ flight' = flight
    BY <1>4 DEF ApplyMessage, netVars
  <2>2. CASE <<m.n, m.part>> = <<n, 1>>
    <3>1. IsDelta(m) /\ m.n = n
      BY <1>1, <2>2
    <3>2. m.at = editsAt[n]
      BY <3>1 DEF EditsFit
    <3>3. m.at <= Len(copy'.value)
      BY <1>4, <3>1, ApplyReaches
    <3> QED
      BY <3>2, <3>3
  <2>3. CASE <<m.n, m.part>> # <<n, 1>>
    BY <1>1, <2>1, <2>3 DEF Awaited, IsDelta
  <2> QED
    BY <2>2, <2>3
<1>5. CASE \E sameTick \in BOOLEAN : ApplyDiff(sameTick) \/ ChangeDirectly(sameTick)
  BY <1>2, <1>5 DEF ApplyDiff, ChangeDirectly, netVars, clientVars
<1>6. CASE \E m \in acks : TakeAck(m)
  BY <1>2, <1>6 DEF TakeAck, clientVars
<1>7. CASE \E m \in flight : Receive(m) \/ Lose(m)
  BY <1>2, <1>7 DEF Receive, Lose, clientVars
<1>8. CASE UNCHANGED vars
  BY <1>2, <1>8 DEF vars, netVars, clientVars
<1> QED
  BY <1>3, <1>4, <1>5, <1>6, <1>7, <1>8 DEF Next

\* The ticks after two ticks are in their order.
LEMMA NextInOrder ==
  ASSUME NEW a \in Nat, NEW b \in Nat, a <= b
  PROVE  a + 1 <= b + 1 /\ a + 1 \in Nat /\ b + 1 \in Nat
PROOF OBVIOUS

\* No step takes back what a tick has reached, and a delta is left out only when
\* what was acknowledged has arrived.
LEMMA FrontierStep ==
  ASSUME FrontierFits, EditsFit, EditsFit', Snapshots, ~recordsFirst, HistoryInv, HistoryInv', [Next]_vars
  PROVE  FrontierFits'
<1>1. /\ ticks \in Nat /\ ticks' \in Nat /\ editsAt \in Seq(Nat) /\ Len(editsAt) = ticks
      /\ entityTicks.at \in Nat /\ edits \in Nat /\ entityTicks.at <= edits
  BY TickRange DEF EditsFit, HistoryInv, MessagesFit
<1>2. \A i \in 1..ticks : editsAt[i] \in Nat
  BY <1>1
<1>3. \A m \in flight \cup arrived \cup acks : m.n \in 1..ticks /\ m.at = editsAt[m.n] /\ m.at \in Nat
  BY <1>2 DEF EditsFit
<1>4. /\ \A n \in 1..ticks : Reached(copy, arrived, editsAt[n], n) \/ Awaited(n)
      /\ Reached(copy, arrived, entityTicks.at, ticks + 1)
      /\ \A m \in acks : IsDelta(m) /\ Reached(copy, arrived, m.at, ticks + 1)
  BY DEF FrontierFits
<1>5. ticks + 1 <= ticks' + 1 /\ ticks + 1 \in Nat /\ ticks' + 1 \in Nat
  <2>1. ticks' \in {ticks, ticks + 1}
    BY DEF Next, ApplyDiff, ChangeDirectly, ServerTick, TakeAck, Receive, Lose, ApplyMessage,
           vars, serverVars
  <2>2. ticks \in Nat /\ ticks' \in Nat
    BY <1>1
  <2>3. ticks <= ticks'
    BY <2>1, <2>2
  <2> QED
    BY <2>2, <2>3, NextInOrder
<1>6. ASSUME NEW n \in Nat, Reached(copy, arrived, n, ticks + 1) PROVE Reached(copy', arrived', n, ticks' + 1)
  BY <1>5, <1>6, ReachedLasts
<1>7. ASSUME NEW n \in 1..ticks
      PROVE  Reached(copy', arrived', editsAt[n], n) \/ Awaited(n)'
  <2>1. n \in Nat /\ editsAt[n] \in Nat
    BY <1>1, <1>2
  <2>2. CASE Reached(copy, arrived, editsAt[n], n)
    BY <2>1, <2>2, ReachedLasts
  <2>3. CASE Awaited(n)
    <3>1. Awaited(n)' \/ Len(copy'.value) >= editsAt[n]
      BY <2>3, AwaitedLasts
    <3> QED
      BY <3>1 DEF Reached
  <2> QED
    BY <1>4, <2>2, <2>3
<1>8. \A m \in acks : IsDelta(m) /\ Reached(copy', arrived', m.at, ticks' + 1)
  BY <1>3, <1>4, <1>6
<1>9. Reached(copy', arrived', entityTicks.at, ticks' + 1)
  BY <1>1, <1>4, <1>6
<1>10. ASSUME UNCHANGED <<ticks, editsAt>>,
              entityTicks'.at = entityTicks.at \/ \E m \in acks : entityTicks'.at = m.at,
              \A m \in acks' \ acks : IsDelta(m) /\ m \in arrived' /\ m.n \in 1..ticks
       PROVE  FrontierFits'
  <2>1. \A m \in acks' : IsDelta(m) /\ Reached(copy', arrived', m.at, ticks' + 1)
    <3>1. \A m \in acks' \ acks : IsDelta(m) /\ m \in arrived' /\ m.n < ticks' + 1
      BY <1>1, <1>10
    <3> QED
      BY <1>8, <3>1 DEF Reached
  <2>2. Reached(copy', arrived', entityTicks'.at, ticks' + 1)
    BY <1>8, <1>9, <1>10
  <2>3. \A n \in 1..ticks' : Reached(copy', arrived', editsAt'[n], n) \/ Awaited(n)'
    BY <1>7, <1>10
  <2> QED
    BY <2>1, <2>2, <2>3 DEF FrontierFits, IsDelta
<1>11. CASE \E sameTick \in BOOLEAN : ApplyDiff(sameTick) \/ ChangeDirectly(sameTick)
  BY <1>10, <1>11 DEF ApplyDiff, ChangeDirectly, netVars
<1>12. ASSUME NEW count \in 0..MaxCount, ServerTick(count) PROVE FrontierFits'
  <2>1. /\ ticks' = ticks + 1 /\ editsAt' = Append(editsAt, edits)
        /\ UNCHANGED <<entityTicks, acks, copy, arrived, counted>>
    BY <1>12 DEF ServerTick, clientVars
  <2>2. editsAt'[ticks + 1] = edits /\ \A i \in 1..ticks : editsAt'[i] = editsAt[i]
    BY <1>1, <2>1
  <2>3. ASSUME NEW n \in 1..ticks', n = ticks + 1
        PROVE  Reached(copy', arrived', editsAt'[n], n) \/ Awaited(n)'
    <3>1. CASE entityTicks.at = edits
      BY <1>4, <2>1, <2>2, <2>3, <3>1
    <3>2. CASE entityTicks.at # edits
      <4>1. edits > entityTicks.at
        BY <1>1, <3>2
      <4>2. \A m \in flight' \ flight : m.part = 1 => IsDelta(m)
        BY <1>12, <4>1, TickSendsSnapshots DEF Snapshots
      <4>3. \A m \in flight \cup arrived : m.n # n
        BY <1>1, <1>3, <2>3
      <4>4. <<n, 1>> \notin counted
        <5> SUFFICES ASSUME <<n, 1>> \in counted PROVE FALSE
          OBVIOUS
        <5>1. PICK k \in 1..ticks : \E part \in 1..counts[k] : <<n, 1>> = <<k, part>>
          BY DEF HistoryInv, MessagesFit
        <5> QED
          BY <1>1, <2>3, <5>1
      <4>5. \A m \in flight' \cup arrived' : m.n = n /\ m.part = 1 => IsDelta(m)
        BY <2>1, <4>2, <4>3
      <4> QED
        BY <2>1, <4>4, <4>5 DEF Awaited, IsDelta
    <3> QED
      BY <3>1, <3>2
  <2>4. ASSUME NEW n \in 1..ticks' PROVE Reached(copy', arrived', editsAt'[n], n) \/ Awaited(n)'
    <3>1. n \in 1..ticks \/ n = ticks + 1
      BY <1>1, <2>1
    <3>2. CASE n \in 1..ticks
      BY <1>7, <2>2, <3>2
    <3>3. CASE n = ticks + 1
      BY <2>3, <3>3
    <3> QED
      BY <3>1, <3>2, <3>3
  <2> QED
    BY <1>8, <1>9, <2>1, <2>4 DEF FrontierFits, IsDelta
<1>13. ASSUME NEW m \in acks, TakeAck(m) PROVE FrontierFits'
  <2>1. UNCHANGED <<ticks, editsAt>> /\ acks' \subseteq acks /\ entityTicks' = Acknowledged(m)
    BY <1>13 DEF TakeAck
  <2>2. entityTicks'.at \in {entityTicks.at, m.at}
    BY <2>1 DEF Acknowledged
  <2> QED
    BY <1>10, <2>1, <2>2
<1>14. ASSUME NEW m \in flight, Receive(m) PROVE FrontierFits'
  <2>1. /\ UNCHANGED <<ticks, editsAt, entityTicks>> /\ arrived' = arrived \cup {m}
        /\ acks' = IF m.delta = NoDelta THEN acks ELSE acks \cup {m}
    BY <1>14 DEF Receive, serverVars
  <2>2. \A o \in acks' \ acks : IsDelta(o) /\ o \in arrived' /\ o.n \in 1..ticks
    BY <1>3, <2>1 DEF IsDelta
  <2> QED
    BY <1>10, <2>1, <2>2
<1>15. CASE (\E m \in flight : Lose(m)) \/ \E m \in arrived : ApplyMessage(m)
  <2>1. UNCHANGED <<ticks, editsAt, entityTicks, acks>>
    BY <1>15 DEF Lose, ApplyMessage, serverVars, netVars
  <2> QED
    BY <1>10, <2>1
<1>16. CASE UNCHANGED vars
  BY <1>10, <1>16 DEF vars, serverVars, netVars
<1> QED
  BY <1>11, <1>12, <1>13, <1>14, <1>15, <1>16 DEF Next

\* No step disturbs the frontier.
LEMMA FrontierInvStep == FrontierInv /\ HistoryInv /\ HistoryInv' /\ [Next]_vars => FrontierInv'
<1> SUFFICES ASSUME FrontierInv, HistoryInv, HistoryInv', [Next]_vars PROVE FrontierInv'
  OBVIOUS
<1>1. EditsFit' /\ ConfirmedFits'
  BY EditsStep, ConfirmedStep DEF FrontierInv
<1>2. recordsFirst' = recordsFirst
  BY DEF Next, ApplyDiff, ChangeDirectly, ServerTick, TakeAck, Receive, Lose, ApplyMessage, vars, serverVars
<1>3. ASSUME ~recordsFirst PROVE Snapshots' /\ FrontierFits'
  BY <1>1, <1>3, SnapshotsStep, FrontierStep DEF FrontierInv
<1> QED
  BY <1>1, <1>2, <1>3 DEF FrontierInv

\* Always: what the server told of a tick is what the client has, has received
\* or has not yet counted (collect_changes, track_mutations and
\* apply_mutate_message).
THEOREM FrontierIsKept == Spec => []FrontierInv
<1>1. Init => FrontierInv
  BY InitFrontier
<1>2. FrontierInv /\ HistoryInv /\ HistoryInv' /\ [Next]_vars => FrontierInv'
  BY FrontierInvStep
<1> QED
  BY <1>1, <1>2, HistoryHolds, PTL DEF Spec

\* A tick that ServerMutateTicks has confirmed is a frontier: the client has the
\* component as it was at that tick or newer, or will have it when what has
\* arrived is applied (FrontierIsReached).
THEOREM FrontierHolds == Spec => []FrontierIsReached
<1>1. HistoryInv /\ FrontierInv => FrontierIsReached
  <2> SUFFICES ASSUME HistoryInv, FrontierInv, NEW n \in 1..ticks,
                      mutateTicks.confirmed = TickOf(n), ~recordsFirst
               PROVE  \/ Len(copy.value) >= editsAt[n]
                      \/ \E m \in arrived : m.n < n /\ m.delta # NoDelta
    BY DEF FrontierIsReached
  <2>1. ticks \in 0..MaxTicks /\ n \in 0..MaxTicks
    BY TickRange DEF HistoryInv, MessagesFit
  <2>2. TickOf(n) # None
    BY <2>1, TickValue, IndexRange, TickRange
  <2>3. PICK k \in 1..ticks : TickOf(n) = TickOf(k) /\ IsComplete(k)
    BY <2>2 DEF FrontierInv, ConfirmedFits
  <2>4. k = n
    BY <2>1, <2>3, Distances, TickRange
  <2>5. <<n, 1>> \in counted
    <3>1. counts[n] > 0 /\ counts[n] \in Nat /\ \A part \in 1..counts[n] : <<n, part>> \in counted
      BY <2>1, <2>3, <2>4 DEF IsComplete, HistoryInv, MessagesFit
    <3> QED
      BY <3>1
  <2>6. Reached(copy, arrived, editsAt[n], n)
    BY <2>5 DEF FrontierInv, FrontierFits, Awaited
  <2> QED
    BY <2>6 DEF Reached, IsDelta
<1> QED
  BY <1>1, HistoryHolds, FrontierIsKept, PTL
=============================================================================
