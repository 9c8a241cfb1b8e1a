--------------------------- MODULE MutationHistory ---------------------------
(***************************************************************************)
(* What the two ends remember of the mutations of one entity that has one  *)
(* component replicated by diffs.                                          *)
(*                                                                         *)
(*   server  DiffHistory: the recorded diffs and the index of the last;    *)
(*           EntityTicks: the acknowledged tick and diff cursor            *)
(*   client  ConfirmHistory: a mask over the last ticks of the entity;     *)
(*           ServerMutateTicks: the messages counted for the last ticks;   *)
(*           DiffBuffer: the index of the component and the diffs that     *)
(*           came too early                                                *)
(*                                                                         *)
(* Mutate messages are lost and reordered; a message is acknowledged when  *)
(* the client has it, and applied when its update message was applied.     *)
(* Ticks and indices wrap.  A mask has Width bits instead of 64.           *)
(***************************************************************************)
EXTENDS Wrapping, Sequences, FiniteSets, SequencesExt, Functions, TLC

CONSTANTS
  TickMod, IndexMod,  \* values of a RepliconTick and of a DiffIndex
  Width,              \* u64::BITS: ticks a client remembers
  HistoryLen,         \* Diffable::HISTORY_LEN
  FirstTick,          \* the tick and the diff index of the spawn
  FirstIndex,
  Modes,              \* what recordsFirst and needHistory may be
  None,
  MaxTicks,           \* bounds: server ticks after the spawn,
  MaxEdits,           \*   changes of the component,
  MaxCount,           \*   mutate messages of one tick,
  MaxInFlight         \*   mutate messages not yet applied

ASSUME MutationHistoryAssumption ==
  /\ TickMod \in Nat /\ IndexMod \in Nat
  /\ Width \in 1..MaxNewerDistance(TickMod)
  /\ HistoryLen \in 1..MaxNewerDistance(IndexMod)
  /\ FirstTick \in 0..(TickMod - 1) /\ FirstIndex \in 0..(IndexMod - 1)
  /\ Modes \subseteq BOOLEAN \X BOOLEAN
  /\ None \notin Nat
  /\ \A b \in {MaxTicks, MaxEdits, MaxCount, MaxInFlight} : b \in Nat
  /\ MaxTicks <= MaxNewerDistance(TickMod) /\ MaxEdits < MaxNewerDistance(IndexMod)

VARIABLES
  \* server
  ticks,              \* ticks since the spawn
  edits,              \* changes of the component since the spawn
  changed,            \* Bevy's change tick of the component: the first change in it
  diffs,              \* DiffHistory: [next, changed, diffs]
  recordsFirst,       \* a cursor is recorded where there is none
  entityTicks,        \* EntityTicks: [tick, at, cursor]
  counts,             \* history: mutate messages of each tick,
  editsAt,            \* history: edits at each tick,
  valueAt,            \* history: the edits a diff index stands for, or None when a
                      \* direct change went unseen
  \* network
  flight,             \* mutate messages on their way
  acks,               \* messages acknowledged but not yet known to the server
  \* client
  arrived,            \* BufferedMutations
  needHistory,        \* the entity has a marker that needs history
  confirm,            \* ConfirmHistory: [mask, last]
  mutateTicks,        \* ServerMutateTicks: [slots, last, confirmed]
  copy,               \* the component and DiffBuffer: [value, applied, pending]
  counted,            \* history: messages <<tick, part>> that were counted
  applied,            \* history: ticks confirmed for the entity
  jumped              \* history: a tick came that was Width or more newer

serverVars == <<ticks, edits, changed, diffs, recordsFirst, entityTicks, counts, editsAt, valueAt>>
netVars == <<flight, acks>>
clientVars == <<arrived, needHistory, confirm, mutateTicks, copy, counted, applied, jumped>>
vars == <<serverVars, netVars, clientVars>>

\* The RepliconTick of the n-th tick after the spawn.
TickOf(n) == Advance(FirstTick, n, TickMod)

\* f with the value y at x.
With(f, x, y) == [z \in {x} \cup DOMAIN f |-> IF z = x THEN y ELSE f[z]]

\* The component is the sequence of the edits applied to it.
ValueAfter(n) == [i \in 1..n |-> i]

NoDelta == [kind |-> "None", index |-> None, edits |-> <<>>]
NoMessages == [count |-> 0, received |-> 0]

\* The entity was spawned with a snapshot, and nothing else is on its way.
Init ==
  /\ ticks = 0 /\ edits = 0 /\ changed = 0
  /\ diffs = [next |-> Advance(FirstIndex, 1, IndexMod), changed |-> 0, diffs |-> <<>>]
  /\ entityTicks = [tick |-> TickOf(0), at |-> 0, cursor |-> None]
  /\ \E mode \in Modes : recordsFirst = mode[1] /\ needHistory = mode[2]
  /\ counts = <<>> /\ editsAt = <<>>
  /\ valueAt = [i \in {FirstIndex} |-> 0]
  /\ flight = {} /\ acks = {}
  /\ arrived = {}
  /\ confirm = [mask |-> {0}, last |-> TickOf(0)]
  /\ mutateTicks = [slots |-> [ago \in 0..(Width - 1) |-> NoMessages], last |-> TickOf(0),
                    confirmed |-> None]
  /\ copy = [value |-> <<>>, applied |-> FirstIndex, pending |-> <<>>]
  /\ counted = {} /\ applied = {0} /\ jumped = FALSE

-----------------------------------------------------------------------------
(* DiffHistory (diff.rs).                                                  *)

CurrentIndex(h) == (h.next - 1) % IndexMod

\* record: a diff of a component whose change tick was another one before it than
\* after the last diff is dropped with the history, and the index skips the
\* unrecorded change.
RecordUnbounded(h, edit, before, after) ==
  IF h.changed # before
  THEN [next |-> Advance(h.next, 2, IndexMod), changed |-> after, diffs |-> <<>>]
  ELSE [next |-> Advance(h.next, 1, IndexMod), changed |-> after, diffs |-> Append(h.diffs, edit)]
Record(h, edit, before, after) ==
  IF h.changed # before
  THEN [next |-> Advance(h.next, 2, IndexMod), changed |-> after, diffs |-> <<>>]
  ELSE [next |-> Advance(h.next, 1, IndexMod), changed |-> after,
        diffs |-> IF Len(h.diffs) < HistoryLen THEN Append(h.diffs, edit)
                  ELSE Append(Tail(h.diffs), edit)]

\* diffs_after: the history afterwards, the index, and the diffs since the
\* cursor, or none when the whole value must be sent.
DiffsAfterUnchecked(h, cursor, last) ==
  LET missing == DistanceAfter(CurrentIndex(h), cursor, IndexMod)
      kept == IF missing < Len(h.diffs) THEN missing ELSE Len(h.diffs)
  IN  [history |-> h, index |-> CurrentIndex(h),
       diffs |-> IF cursor = None THEN <<>>
                 ELSE SubSeq(h.diffs, Len(h.diffs) - kept + 1, Len(h.diffs))]
DiffsAfter(h, cursor, last) ==
  IF h.changed # last
  THEN [history |-> [next |-> Advance(h.next, 1, IndexMod), changed |-> last, diffs |-> <<>>],
        index |-> h.next, diffs |-> <<>>]
  ELSE LET missing == DistanceAfter(CurrentIndex(h), cursor, IndexMod)
           inWindow == cursor # None /\ missing < Len(h.diffs)
       IN  [history |-> h, index |-> CurrentIndex(h),
            diffs |-> IF inWindow THEN SubSeq(h.diffs, Len(h.diffs) - missing + 1, Len(h.diffs))
                      ELSE <<>>]

\* serialize_diff: the whole component when there is no diff to send.
Delta(answer) ==
  IF answer.diffs = <<>>
  THEN [kind |-> "Snapshot", index |-> answer.index, edits |-> ValueAfter(edits)]
  ELSE [kind |-> "Diffs", index |-> answer.index, edits |-> answer.diffs]

-----------------------------------------------------------------------------
(* The server.                                                             *)

\* A change may have the change tick of the one before it, if nothing was sent
\* between them; a system that sends has a change tick of its own.
MayShareTick == edits > IF ticks = 0 THEN 0 ELSE editsAt[ticks]
ChangeTick(sameTick) == IF sameTick THEN changed ELSE edits + 1
IsCurrent(h) == h.changed = changed

ApplyDiff(sameTick) ==
  LET isKnown == IsCurrent(diffs) => valueAt[CurrentIndex(diffs)] # None
  IN  /\ edits < MaxEdits /\ (sameTick => MayShareTick)
      /\ edits' = edits + 1 /\ changed' = ChangeTick(sameTick)
      /\ diffs' = Record(diffs, edits + 1, changed, changed')
      /\ valueAt' = With(valueAt, CurrentIndex(diffs'), IF isKnown THEN edits + 1 ELSE None)
      /\ UNCHANGED <<ticks, recordsFirst, entityTicks, counts, editsAt, netVars, clientVars>>

\* The component is changed without apply_diff.  In the change tick of a recorded
\* diff, the history does not see it.
ChangeDirectly(sameTick) ==
  /\ edits < MaxEdits /\ (sameTick => MayShareTick)
  /\ edits' = edits + 1 /\ changed' = ChangeTick(sameTick)
  /\ valueAt' = IF sameTick /\ IsCurrent(diffs)
                THEN With(valueAt, CurrentIndex(diffs), None) ELSE valueAt
  /\ UNCHANGED <<ticks, diffs, recordsFirst, entityTicks, counts, editsAt, netVars, clientVars>>

\* The mutate messages of a tick.  The entity is in the first when it changed
\* since the acknowledged tick; the cursor goes into MutateInfo only if the
\* client already has one (and, to see diffs at all, when recordsFirst).
Message(part, count, delta, cursor) ==
  [n |-> ticks + 1, tick |-> TickOf(ticks + 1), part |-> part, count |-> count, at |-> edits,
   delta |-> delta, cursor |-> cursor]

ServerTick(count) ==
  LET isChanged == edits > entityTicks.at
      answer == DiffsAfter(diffs, entityTicks.cursor, changed)
      cursor == IF entityTicks.cursor # None \/ recordsFirst THEN answer.index ELSE None
  IN  /\ ticks < MaxTicks
      /\ isChanged => count > 0
      /\ Cardinality(flight \cup arrived) + count <= MaxInFlight
      /\ ticks' = ticks + 1
      /\ counts' = Append(counts, count) /\ editsAt' = Append(editsAt, edits)
      /\ flight' = flight \cup
           {Message(1, count, IF isChanged THEN Delta(answer) ELSE NoDelta,
                    IF isChanged THEN cursor ELSE None) : x \in 1..(IF count > 0 THEN 1 ELSE 0)}
           \cup {Message(part, count, NoDelta, None) : part \in 2..count}
      /\ IF isChanged
         THEN /\ diffs' = answer.history
              /\ valueAt' = IF answer.index \in DOMAIN valueAt THEN valueAt
                            ELSE With(valueAt, answer.index, edits)
         ELSE UNCHANGED <<diffs, valueAt>>
      /\ UNCHANGED <<edits, changed, recordsFirst, entityTicks, acks, clientVars>>

\* ack_mutate_message: an older tick than the acknowledged one says nothing new.
Acknowledged(m) ==
  IF IsNewer(m.tick, entityTicks.tick, TickMod)
  THEN [tick |-> m.tick, at |-> m.at,
        cursor |-> IF m.cursor = None THEN entityTicks.cursor ELSE m.cursor]
  ELSE entityTicks

TakeAck(m) ==
  /\ m \in acks
  /\ acks' = acks \ {m}
  /\ entityTicks' = Acknowledged(m)
  /\ UNCHANGED <<ticks, edits, changed, diffs, recordsFirst, counts, editsAt, valueAt, flight, clientVars>>

-----------------------------------------------------------------------------
(* ConfirmHistory and ServerMutateTicks.                                   *)

\* set_last_tick: wrapping_shl shifts by the distance modulo the width.
SetLastTick(h, tick) ==
  LET shift == DistanceAfter(tick, h.last, TickMod) % Width
  IN  [mask |-> {0} \cup ({b + shift : b \in h.mask} \cap (0..(Width - 1))), last |-> tick]

SetAgoBefore(h, ago) == [h EXCEPT !.mask = @ \cup {ago - 1}]
SetAgo(h, ago) == [h EXCEPT !.mask = @ \cup {ago}]

Confirms(h, tick) ==
  LET ago == DistanceAfter(h.last, tick, TickMod)
  IN  /\ ~IsNewer(tick, h.last, TickMod)
      /\ ago >= Width \/ ago \in h.mask

\* contains_any: the shift that makes the range overflows when it is as wide
\* as the mask, and the range is then empty.
RangeMask(h, start, end) ==
  LET len == DistanceAfter(end, start, TickMod) + 1
      offset == DistanceAfter(h.last, end, TickMod)
  IN  IF len = Width THEN {} ELSE offset..(offset + len - 1)
ConfirmsAny(h, start, end) ==
  LET last == IF IsNewer(h.last, end, TickMod) THEN end ELSE h.last
  IN  /\ ~IsNewer(start, h.last, TickMod)
      /\ \/ IsOlderOrEq(start, (h.last - Width) % TickMod, TickMod)
         \/ h.mask \cap RangeMask(h, start, last) # {}

\* ServerMutateTicks::confirm: newer ticks push the old ones out of the slots,
\* and a message older than all slots is not counted.
AnyReceived(slot) == slot.received # 0
AllReceived(slot) == slot.count # 0 /\ slot.count = slot.received
Counted(slot, count) == [count |-> count, received |-> slot.received + 1]

PushFrontOnce(slots, delta) ==
  [ago \in DOMAIN slots |-> IF ago = 0 THEN NoMessages ELSE slots[ago - 1]]
PushFront(slots, delta) ==
  [ago \in DOMAIN slots |-> IF ago < delta THEN NoMessages ELSE slots[ago - delta]]

\* set_last_confirmed_tick.
LastConfirmed(confirmed, tick) ==
  IF confirmed = None \/ IsNewer(tick, confirmed, TickMod) THEN tick ELSE confirmed

ConfirmMutateTick(m) ==
  LET t == mutateTicks
      isNewer == IsNewer(m.tick, t.last, TickMod)
      slots == IF isNewer THEN PushFront(t.slots, DistanceAfter(m.tick, t.last, TickMod))
               ELSE t.slots
      last == IF isNewer THEN m.tick ELSE t.last
      ago == DistanceAfter(last, m.tick, TickMod)
  IN  IF ago \notin DOMAIN slots THEN t
      ELSE LET slot == Counted(slots[ago], m.count)
           IN  [slots |-> [slots EXCEPT ![ago] = slot], last |-> last,
                confirmed |-> IF AllReceived(slot) THEN LastConfirmed(t.confirmed, m.tick)
                              ELSE t.confirmed]

TickContains(t, tick) ==
  LET ago == DistanceAfter(t.last, tick, TickMod)
  IN  /\ ~IsNewer(tick, t.last, TickMod)
      /\ ago \in DOMAIN t.slots => AllReceived(t.slots[ago])

-----------------------------------------------------------------------------
(* DiffBuffer and the deserialization of a delta.                          *)

\* push: the last edit has the given index; what was already applied is ignored.
Pushed(c, delta) ==
  LET len == Len(delta.edits)
      indexOf(i) == (delta.index - (len - i)) % IndexMod
      new == {i \in 1..len : IsNewer(indexOf(i), c.applied, IndexMod)}
      added == {indexOf(i) : i \in new}
  IN  [x \in added \cup DOMAIN c.pending |->
         IF x \in added THEN delta.edits[CHOOSE i \in new : indexOf(i) = x] ELSE c.pending[x]]

\* drain_ready: the pending diffs that follow the applied index without a gap.
Ready(c) ==
  CHOOSE n \in 0..Cardinality(DOMAIN c.pending) :
    /\ \A i \in 1..n : Advance(c.applied, i, IndexMod) \in DOMAIN c.pending
    /\ Advance(c.applied, n + 1, IndexMod) \notin DOMAIN c.pending

Drained(c) ==
  LET n == Ready(c)
      done == {Advance(c.applied, i, IndexMod) : i \in 1..n}
  IN  [value |-> c.value \o [i \in 1..n |-> c.pending[Advance(c.applied, i, IndexMod)]],
       applied |-> Advance(c.applied, n, IndexMod),
       pending |-> Restrict(c.pending, DOMAIN c.pending \ done)]

\* deserialize_diff_in_place: a snapshot replaces the component and the buffer.
Written(c, delta) ==
  IF delta.kind = "Snapshot"
  THEN [value |-> delta.edits, applied |-> delta.index, pending |-> <<>>]
  ELSE Drained([c EXCEPT !.pending = Pushed(c, delta)])

\* consume_as_deserialize: the value of a snapshot is dropped, but its index
\* is set; diffs are an error.
Consumed(c, delta) ==
  IF delta.kind = "Snapshot"
  THEN [value |-> c.value, applied |-> delta.index, pending |-> <<>>]
  ELSE c

-----------------------------------------------------------------------------
(* The client.                                                             *)

\* buffer_mutate_message: a received message is acknowledged.
Receive(m) ==
  /\ m \in flight
  /\ flight' = flight \ {m}
  /\ arrived' = arrived \cup {m}
  /\ acks' = IF m.delta = NoDelta THEN acks ELSE acks \cup {m}
  /\ UNCHANGED <<serverVars, needHistory, confirm, mutateTicks, copy, counted, applied, jumped>>

Lose(m) ==
  /\ m \in flight
  /\ flight' = flight \ {m}
  /\ UNCHANGED <<serverVars, acks, clientVars>>

\* apply_mutations: a newer tick is written; an outdated one is skipped, or
\* consumed if the entity needs history and its tick is still in the mask.
ApplyMutations(m) ==
  LET ago == DistanceAfter(confirm.last, m.tick, TickMod)
  IN  IF m.delta = NoDelta THEN UNCHANGED <<confirm, copy, applied, jumped>>
      ELSE IF IsNewer(m.tick, confirm.last, TickMod)
      THEN /\ confirm' = SetLastTick(confirm, m.tick)
           /\ copy' = Written(copy, m.delta)
           /\ applied' = applied \cup {m.n}
           /\ jumped' = (jumped \/ DistanceAfter(m.tick, confirm.last, TickMod) >= Width)
      ELSE IF needHistory /\ ago < Width
      THEN /\ confirm' = SetAgo(confirm, ago)
           /\ copy' = Consumed(copy, m.delta)
           /\ applied' = applied \cup {m.n}
           /\ UNCHANGED jumped
      ELSE UNCHANGED <<confirm, copy, applied, jumped>>

\* Messages are applied newest first: the older ones whose update message was
\* applied have arrived too, and follow in the same frame.
ApplyMessage(m) ==
  /\ m \in arrived
  /\ arrived' = arrived \ {m}
  /\ mutateTicks' = ConfirmMutateTick(m)
  /\ counted' = counted \cup {<<m.n, m.part>>}
  /\ ApplyMutations(m)
  /\ UNCHANGED <<serverVars, netVars, needHistory>>

-----------------------------------------------------------------------------
Next ==
  \/ \E sameTick \in BOOLEAN : ApplyDiff(sameTick) \/ ChangeDirectly(sameTick)
  \/ \E count \in 0..MaxCount : ServerTick(count)
  \/ \E m \in acks : TakeAck(m)
  \/ \E m \in flight : Receive(m) \/ Lose(m)
  \/ \E m \in arrived : ApplyMessage(m)

Spec == Init /\ [][Next]_vars

-----------------------------------------------------------------------------
(* Properties.                                                             *)

\* The type of every variable.
TypeOK ==
  /\ ticks \in 0..MaxTicks /\ edits \in 0..MaxEdits
  /\ diffs.next \in 0..(IndexMod - 1) /\ {changed, diffs.changed} \subseteq 0..edits
  /\ diffs.diffs \in Seq(1..MaxEdits) /\ Len(diffs.diffs) <= HistoryLen
  /\ entityTicks.at \in 0..edits /\ entityTicks.cursor \in DOMAIN valueAt \cup {None}
  /\ Cardinality(flight \cup arrived) <= MaxInFlight
  /\ confirm.mask \subseteq 0..(Width - 1) /\ 0 \in confirm.mask
  /\ DOMAIN mutateTicks.slots = 0..(Width - 1)
  /\ \A ago \in DOMAIN mutateTicks.slots :
       mutateTicks.slots[ago].received <= mutateTicks.slots[ago].count
  /\ copy.applied \in DOMAIN valueAt
  /\ applied \subseteq 0..ticks

\* The ticks of the entity that a client may still ask about.
NewestApplied == CHOOSE n \in applied : \A o \in applied : o <= n
NewestCounted == CHOOSE n \in {0} \cup {c[1] : c \in counted} : \A c \in counted : c[1] <= n
IsComplete(n) == counts[n] > 0 /\ \A part \in 1..counts[n] : <<n, part>> \in counted

\* ConfirmHistory::contains knows exactly the ticks of the entity among the
\* last Width, and contains_any the ranges with one of them, whatever the
\* order of arrival and across the wrap, unless the entity was not mutated for
\* Width ticks or more.  A range may not be as wide as the mask.
ConfirmedIsExact ==
  ~jumped =>
    LET newest == NewestApplied
        known == {n \in 0..ticks : Confirms(confirm, TickOf(n))}
    IN  /\ known = {n \in 0..ticks : n \in applied \/ newest - n >= Width}
        /\ \A a \in 0..ticks : \A b \in a..ticks :
             b - a < Width - 1 =>
               (ConfirmsAny(confirm, TickOf(a), TickOf(b)) <=> known \cap (a..b) # {})

\* ServerMutateTicks::contains holds exactly for the ticks all of whose
\* messages were applied, and for those that left the window, the tick of the
\* spawn, which has no messages, included.
MutateTicksAreExact ==
  LET newest == NewestCounted
  IN  \A n \in 0..ticks :
        TickContains(mutateTicks, TickOf(n)) <=>
          newest - n >= Width \/ (n \in 1..newest /\ IsComplete(n))

\* The component is the one its diff index stands for, and what is pending is
\* newer, unless outdated mutations are consumed, or a direct change in the
\* change tick of the diff with this index, or of one before it since the last
\* reset, went unseen: the index then stands for two values.
CopyIsAtIndex ==
  ~needHistory =>
    /\ valueAt[copy.applied] # None => copy.value = ValueAfter(valueAt[copy.applied])
    /\ \A i \in DOMAIN copy.pending : IsNewer(i, copy.applied, IndexMod)

\* diff.rs:40: "You may mutate the component directly, but it won't be recorded as a
\* diff. Doing so will automatically reset the history": a history that is current
\* covers every change.
DirectChangeResets == IsCurrent(diffs) => valueAt[CurrentIndex(diffs)] = edits

\* The last confirmed tick is a frontier: the client has the component as it
\* was at that tick, or newer, when deltas are snapshots.
FrontierIsReached ==
  \A n \in 1..ticks :
    /\ mutateTicks.confirmed = TickOf(n)
    /\ ~recordsFirst
    => \/ Len(copy.value) >= editsAt[n]
       \/ \E m \in arrived : m.n < n /\ m.delta # NoDelta

\* An acknowledged mutation has a diff cursor (EntityTicks::diff_cursors:
\* "Absence means the client has never acknowledged the base value").
AcknowledgedHasCursor == entityTicks.at > 0 => entityTicks.cursor # None

\* A mutation of the entity that never came is not confirmed while it is among
\* the last Width ticks, however far the last tick moved.
UnseenIsNotConfirmed ==
  \A n \in 0..ticks :
    n < NewestApplied /\ NewestApplied - n < Width /\ n \notin applied
    => ~Confirms(confirm, TickOf(n))

\* ConfirmHistory::contains_any is whether any tick of the range is contained.
RangesAreExact ==
  \A a, b \in 0..ticks :
    /\ a <= b
    => (ConfirmsAny(confirm, TickOf(a), TickOf(b))
          <=> \E n \in a..b : Confirms(confirm, TickOf(n)))
=============================================================================
