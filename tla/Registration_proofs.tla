------------------------ MODULE Registration_proofs ------------------------
(***************************************************************************)
(* Proofs about Registration: what an app reads from its channels and      *)
(* FnsIds is a function of what it hashed, so two apps with equal hashes   *)
(* understand each other, whatever and however much they registered.       *)
(***************************************************************************)
EXTENDS Registration, FiniteSetTheorems, SequenceTheorems, WellFoundedInduction, TLAPS

Components == UNION {ToSet(rule) : rule \in Rules}
Message == [kind : Kinds, type : Types \cup Handshake, channel : Nat, independent : BOOLEAN]

\* What the hash has to determine of an app.
Contents == [channels : [Apps -> Nat], messages : Seq(Message), fns : Seq(Components)]
ContentsOf(app) == [channels |-> app.channels, messages |-> app.messages, fns |-> app.fns]
Empty == [channels |-> [direction \in Apps |-> ReservedChannels(direction)],
          messages |-> <<>>, fns |-> <<>>]

\* A registration is a function of what was hashed for it.
Adds(c, kind, type) ==
  [channels |-> [c.channels EXCEPT ![Direction(kind)] = @ + 1],
   messages |-> Append(c.messages, [kind |-> kind, type |-> type,
                                    channel |-> c.channels[Direction(kind)],
                                    independent |-> FALSE]),
   fns |-> c.fns]

Marked(m, kind, type) ==
  IF m.kind = kind /\ m.type = type THEN [m EXCEPT !.independent = TRUE] ELSE m

Marks(c, kind, type) ==
  [channels |-> c.channels,
   messages |-> [i \in DOMAIN c.messages |-> Marked(c.messages[i], kind, type)],
   fns |-> c.fns]

Grows(c, rule) ==
  [channels |-> c.channels, messages |-> c.messages, fns |-> c.fns \o rule]

Reads(c, part) ==
  IF part.part \in Kinds THEN Adds(c, part.part, part.name[1])
  ELSE IF part.part = "IndependentMessage" THEN Marks(c, "ServerMessage", part.name[1])
  ELSE IF part.part = "IndependentEvent" THEN Marks(c, "ServerEvent", part.name[1])
  ELSE IF part.part \in {"Replicate", "ReplicateBundle"} THEN Grows(c, part.name)
  ELSE c

\* The contents after each of the parts, and after all of them.
Reading(tr, parts) ==
  /\ tr = [n \in 0 .. Len(parts) |-> tr[n]]
  /\ tr[0] = Empty
  /\ \A n \in 1 .. Len(parts) : tr[n] = Reads(tr[n - 1], parts[n])

ReadsTo(parts, c) == \E tr : Reading(tr, parts) /\ tr[Len(parts)] = c

-----------------------------------------------------------------------------
(* The parts determine the contents.                                       *)

\* A nonempty set of naturals has a least element.
LEMMA LeastOf ==
  ASSUME NEW T \in SUBSET Nat, T # {}
  PROVE  \E t \in T : \A s \in T : t <= s
<1>1. PICK t \in T : \A s \in T : <<s, t>> \notin OpToRel(<, Nat)
  BY WFMin, NatLessThanWellFounded
<1>2. ASSUME NEW s \in T PROVE t <= s
  <2>1. ~(s < t)
    BY <1>1 DEF OpToRel
  <2> QED
    BY <2>1
<1> QED
  BY <1>2

\* An app that hashed nothing has the reserved channels only.
LEMMA NothingIsRead == ReadsTo(<<>>, Empty)
<1>1. Reading([n \in 0 .. 0 |-> Empty], <<>>)
  BY DEF Reading
<1> QED
  BY <1>1 DEF ReadsTo

\* What is registered next is read next.
LEMMA NextIsRead ==
  ASSUME NEW S, NEW parts \in Seq(S), NEW part \in S, NEW c, ReadsTo(parts, c)
  PROVE  ReadsTo(Append(parts, part), Reads(c, part))
<1>1. PICK tr : Reading(tr, parts) /\ tr[Len(parts)] = c
  BY DEF ReadsTo
<1> DEFINE more == Append(parts, part)
           next == Reads(c, part)
           longer == [n \in 0 .. Len(more) |-> IF n = Len(more) THEN next ELSE tr[n]]
<1>2. /\ Len(parts) \in Nat /\ Len(more) = Len(parts) + 1 /\ more[Len(parts) + 1] = part
      /\ \A n \in 1 .. Len(parts) : more[n] = parts[n]
  OBVIOUS
<1>3. Reading(longer, more)
  <2> HIDE DEF more, next
  <2>1. longer[0] = Empty
    BY <1>1, <1>2 DEF Reading
  <2>2. ASSUME NEW n \in 1 .. Len(more) PROVE longer[n] = Reads(longer[n - 1], more[n])
    <3>1. CASE n = Len(more)
      <4>1. longer[n] = next /\ longer[n - 1] = c /\ more[n] = part
        BY <1>1, <1>2, <3>1
      <4> QED
        BY <4>1 DEF next
    <3>2. CASE n # Len(more)
      <4>1. n \in 1 .. Len(parts) /\ longer[n] = tr[n] /\ longer[n - 1] = tr[n - 1]
        BY <1>2, <3>2
      <4> QED
        BY <1>1, <1>2, <4>1 DEF Reading
    <3> QED
      BY <3>1, <3>2
  <2> QED
    BY <2>1, <2>2 DEF Reading
<1>4. longer[Len(more)] = next
  <2> HIDE DEF more, next
  <2> QED
    BY <1>2
<1> QED
  BY <1>3, <1>4 DEF ReadsTo

\* Equal parts are read the same way.
LEMMA ReadingIsUnique ==
  ASSUME NEW S, NEW parts \in Seq(S), NEW c, NEW d, ReadsTo(parts, c), ReadsTo(parts, d)
  PROVE  c = d
<1>1. PICK p : Reading(p, parts) /\ p[Len(parts)] = c
  BY DEF ReadsTo
<1>2. PICK q : Reading(q, parts) /\ q[Len(parts)] = d
  BY DEF ReadsTo
<1> DEFINE T == {n \in 0 .. Len(parts) : p[n] # q[n]}
<1>3. Len(parts) \in Nat
  OBVIOUS
<1>4. CASE T = {}
  BY <1>1, <1>2, <1>3, <1>4
<1>5. CASE T # {}
  <2>1. PICK t \in T : \A s \in T : t <= s
    <3>1. T \in SUBSET Nat
      BY <1>3
    <3> QED
      BY <1>5, <3>1, LeastOf
  <2>2. t # 0
    BY <1>1, <1>2, <2>1 DEF Reading
  <2>3. t \in 1 .. Len(parts) /\ p[t - 1] = q[t - 1]
    BY <1>3, <2>1, <2>2
  <2> QED
    BY <1>1, <1>2, <2>1, <2>3 DEF Reading
<1> QED
  BY <1>4, <1>5

-----------------------------------------------------------------------------
(* Channels.                                                               *)

\* Every message has a channel of its own, none is reserved or left out.
Of(messages, direction) == {i \in DOMAIN messages : Direction(messages[i].kind) = direction}

OwnChannels(c) ==
  \A i, j \in DOMAIN c.messages :
    /\ Direction(c.messages[i].kind) = Direction(c.messages[j].kind)
    /\ c.messages[i].channel = c.messages[j].channel
    => i = j

ChannelsUsed(c) ==
  \A direction \in Apps :
    /\ ReservedChannels(direction) <= c.channels[direction]
    /\ {c.messages[i].channel : i \in Of(c.messages, direction)}
         = ReservedChannels(direction) .. c.channels[direction] - 1
    /\ IsFiniteSet(Of(c.messages, direction))
    /\ Cardinality(Of(c.messages, direction))
         = c.channels[direction] - ReservedChannels(direction)

ContentsInv(c) == c \in Contents /\ OwnChannels(c) /\ ChannelsUsed(c)

\* Types of what is constant.
LEMMA DirectionType ==
  /\ \A kind \in Kinds : Direction(kind) \in Apps
  /\ \A direction \in Apps : ReservedChannels(direction) \in Nat
  BY DEF Direction, Apps, ReservedChannels

\* No message, no channel in use.
LEMMA EmptyInv == ContentsInv(Empty)
<1>1. Empty \in Contents
  BY DirectionType, EmptySeq DEF Empty, Contents
<1>2. OwnChannels(Empty)
  BY DEF OwnChannels, Empty
<1>3. ASSUME NEW direction \in Apps
      PROVE  /\ ReservedChannels(direction) <= Empty.channels[direction]
             /\ {Empty.messages[i].channel : i \in Of(Empty.messages, direction)}
                  = ReservedChannels(direction) .. Empty.channels[direction] - 1
             /\ IsFiniteSet(Of(Empty.messages, direction))
             /\ Cardinality(Of(Empty.messages, direction))
                  = Empty.channels[direction] - ReservedChannels(direction)
  <2>1. Of(Empty.messages, direction) = {}
    BY DEF Of, Empty
  <2>2. Empty.channels[direction] = ReservedChannels(direction)
    BY DEF Empty
  <2> QED
    BY <2>1, <2>2, DirectionType, FS_EmptySet
<1> QED
  BY <1>1, <1>2, <1>3 DEF ContentsInv, ChannelsUsed

\* The next channel is free.
LEMMA AddsInv ==
  ASSUME NEW c, ContentsInv(c), NEW kind \in Kinds, NEW type \in Types \cup Handshake
  PROVE  ContentsInv(Adds(c, kind, type))
<1> DEFINE dir == Direction(kind)
           new == [kind |-> kind, type |-> type, channel |-> c.channels[dir],
                   independent |-> FALSE]
           old == c.messages
           msgs == Append(old, new)
           n == Len(old) + 1
           channels == [c.channels EXCEPT ![dir] = @ + 1]
           d == Adds(c, kind, type)
<1>1. /\ c \in Contents /\ OwnChannels(c) /\ ChannelsUsed(c)
      /\ old \in Seq(Message) /\ c.channels \in [Apps -> Nat] /\ dir \in Apps
      /\ new \in Message
  BY DirectionType DEF ContentsInv, Contents, Message
<1>2. d.channels = channels /\ d.messages = msgs /\ d.fns = c.fns
  BY DEF Adds
<1>3. d \in Contents
  BY <1>1, <1>2 DEF Adds, Contents
<1>4. /\ Len(old) \in Nat /\ DOMAIN old = 1 .. Len(old) /\ n \notin DOMAIN old
      /\ DOMAIN msgs = DOMAIN old \cup {n} /\ msgs[n] = new
      /\ \A i \in DOMAIN old : msgs[i] = old[i] /\ old[i] \in Message
  <2> HIDE DEF new
  <2> QED
    BY <1>1
<1>5. \A i \in DOMAIN old : Direction(old[i].kind) = dir => old[i].channel # c.channels[dir]
  <2>1. TAKE i \in DOMAIN old
  <2>2. HAVE Direction(old[i].kind) = dir
  <2>3. i \in Of(old, dir)
    BY <2>2 DEF Of
  <2>4. old[i].channel \in ReservedChannels(dir) .. c.channels[dir] - 1
    BY <1>1, <2>3 DEF ChannelsUsed
  <2>5. c.channels[dir] \in Nat /\ ReservedChannels(dir) \in Nat
    BY <1>1, DirectionType
  <2> QED
    BY <2>4, <2>5
<1>6. OwnChannels(d)
  <2> SUFFICES ASSUME NEW i \in DOMAIN msgs, NEW j \in DOMAIN msgs,
                      Direction(msgs[i].kind) = Direction(msgs[j].kind),
                      msgs[i].channel = msgs[j].channel
               PROVE  i = j
    BY <1>2 DEF OwnChannels
  <2>1. new.kind = kind /\ new.channel = c.channels[dir]
    OBVIOUS
  <2> HIDE DEF new, msgs, n
  <2>2. CASE i \in DOMAIN old /\ j \in DOMAIN old
    BY <1>1, <1>4, <2>2 DEF OwnChannels
  <2>3. CASE i = n \/ j = n
    BY <1>4, <1>5, <2>1, <2>3
  <2> QED
    BY <1>4, <2>2, <2>3
<1>7. ASSUME NEW direction \in Apps
      PROVE  /\ ReservedChannels(direction) <= channels[direction]
             /\ {msgs[i].channel : i \in Of(msgs, direction)}
                  = ReservedChannels(direction) .. channels[direction] - 1
             /\ IsFiniteSet(Of(msgs, direction))
             /\ Cardinality(Of(msgs, direction))
                  = channels[direction] - ReservedChannels(direction)
  <2>1. /\ ReservedChannels(direction) <= c.channels[direction]
        /\ {old[i].channel : i \in Of(old, direction)}
             = ReservedChannels(direction) .. c.channels[direction] - 1
        /\ IsFiniteSet(Of(old, direction))
        /\ Cardinality(Of(old, direction))
             = c.channels[direction] - ReservedChannels(direction)
        /\ c.channels[direction] \in Nat /\ ReservedChannels(direction) \in Nat
    BY <1>1, DirectionType DEF ChannelsUsed
  <2>2. new.kind = kind /\ new.channel = c.channels[dir]
    OBVIOUS
  <2> HIDE DEF new, msgs, n
  <2>3. CASE direction # dir
    <3>1. Of(msgs, direction) = Of(old, direction)
      BY <1>4, <2>2, <2>3 DEF Of
    <3>2. {msgs[i].channel : i \in Of(old, direction)} = {old[i].channel : i \in Of(old, direction)}
      BY <1>4 DEF Of
    <3>3. channels[direction] = c.channels[direction]
      BY <1>1, <2>3
    <3> QED
      BY <2>1, <3>1, <3>2, <3>3
  <2>4. CASE direction = dir
    <3>1. Of(msgs, direction) = Of(old, direction) \cup {n} /\ n \notin Of(old, direction)
      BY <1>4, <2>2, <2>4 DEF Of
    <3>2. {msgs[i].channel : i \in Of(old, direction) \cup {n}}
            = {old[i].channel : i \in Of(old, direction)} \cup {c.channels[dir]}
      BY <1>4, <2>2 DEF Of
    <3>3. channels[direction] = c.channels[direction] + 1
      BY <1>1, <2>4
    <3>4. /\ IsFiniteSet(Of(msgs, direction))
          /\ Cardinality(Of(msgs, direction)) = Cardinality(Of(old, direction)) + 1
      BY <2>1, <3>1, FS_AddElement
    <3>5. ReservedChannels(direction) .. c.channels[direction] - 1 \cup {c.channels[direction]}
            = ReservedChannels(direction) .. c.channels[direction]
      BY <2>1
    <3>6. {msgs[i].channel : i \in Of(msgs, direction)}
            = ReservedChannels(direction) .. c.channels[direction]
      BY <2>1, <2>4, <3>1, <3>2, <3>5
    <3>7. c.channels[direction] + 1 - 1 = c.channels[direction]
      BY <2>1
    <3> QED
      BY <2>1, <3>3, <3>4, <3>6, <3>7
  <2> QED
    BY <2>3, <2>4
<1> QED
  <2> HIDE DEF msgs, channels, d
  <2>1. ChannelsUsed(d)
    BY <1>2, <1>7 DEF ChannelsUsed
  <2> QED
    BY <1>3, <1>6, <2>1 DEF ContentsInv, d

\* A mark leaves kinds, types and channels alone.
LEMMA MarksInv ==
  ASSUME NEW c, ContentsInv(c), NEW kind, NEW type
  PROVE  ContentsInv(Marks(c, kind, type))
<1> DEFINE d == Marks(c, kind, type)
           old == c.messages
           msgs == [i \in DOMAIN old |-> Marked(old[i], kind, type)]
<1>1. /\ c \in Contents /\ OwnChannels(c) /\ ChannelsUsed(c) /\ old \in Seq(Message)
      /\ \A i \in DOMAIN old : old[i] \in Message
  BY DEF ContentsInv, Contents
<1>2. d.channels = c.channels /\ d.messages = msgs /\ d.fns = c.fns /\ d \in Contents
  <2>1. \A m \in Message : Marked(m, kind, type) \in Message
    BY DEF Marked, Message
  <2>2. msgs \in Seq(Message)
    <3> HIDE DEF old
    <3> QED
      BY <1>1, <2>1
  <2> HIDE DEF msgs
  <2>3. d = [channels |-> c.channels, messages |-> msgs, fns |-> c.fns]
    BY DEF Marks, msgs
  <2> QED
    BY <1>1, <2>2, <2>3 DEF Contents
<1>3. \A i \in DOMAIN old : msgs[i].kind = old[i].kind /\ msgs[i].channel = old[i].channel
  BY <1>1 DEF Marked, Message
<1>4. DOMAIN msgs = DOMAIN old
  OBVIOUS
<1> HIDE DEF msgs, d
<1>5. OwnChannels(d)
  BY <1>1, <1>2, <1>3, <1>4 DEF OwnChannels
<1>6. ChannelsUsed(d)
  <2>1. \A direction : Of(msgs, direction) = Of(old, direction)
    BY <1>3, <1>4 DEF Of
  <2>2. \A direction : {msgs[i].channel : i \in Of(old, direction)}
                         = {old[i].channel : i \in Of(old, direction)}
    BY <1>3 DEF Of
  <2> HIDE DEF old
  <2>3. \A direction \in Apps :
          /\ ReservedChannels(direction) <= c.channels[direction]
          /\ {old[i].channel : i \in Of(old, direction)}
               = ReservedChannels(direction) .. c.channels[direction] - 1
          /\ IsFiniteSet(Of(old, direction))
          /\ Cardinality(Of(old, direction))
               = c.channels[direction] - ReservedChannels(direction)
    BY <1>1 DEF ChannelsUsed, old
  <2>4. \A direction \in Apps :
          {msgs[i].channel : i \in Of(msgs, direction)}
            = ReservedChannels(direction) .. c.channels[direction] - 1
    BY <2>1, <2>2, <2>3
  <2> QED
    BY <1>2, <2>1, <2>3, <2>4 DEF ChannelsUsed
<1> QED
  BY <1>2, <1>5, <1>6 DEF ContentsInv, d

\* Rules have no channels.
LEMMA GrowsInv ==
  ASSUME NEW c, ContentsInv(c), NEW rule \in Seq(Components)
  PROVE  ContentsInv(Grows(c, rule))
<1>1. c \in Contents /\ OwnChannels(c) /\ ChannelsUsed(c)
  BY DEF ContentsInv
<1>2. /\ Grows(c, rule).channels = c.channels /\ Grows(c, rule).messages = c.messages
      /\ Grows(c, rule) \in Contents
  BY <1>1 DEF Grows, Contents
<1> QED
  BY <1>1, <1>2 DEF ContentsInv, OwnChannels, ChannelsUsed

-----------------------------------------------------------------------------
(* An app and what it hashed.                                              *)

Names == Types \cup Handshake \cup Components \cup Markers \cup CustomValues
PartKinds == Kinds \cup {"IndependentMessage", "IndependentEvent", "Replicate",
                         "ReplicateBundle", "ReceiveMarker", "Custom"}
Part == [part : PartKinds, fields : Seq(Priorities \cup BOOLEAN), name : Seq(Names)]

App == [auth : AuthMethods, calls : 0 .. MaxCalls, parts : Seq(Part),
        channels : [Apps -> Nat], messages : Seq(Message), fns : Seq(Components)]

\* The contents of an app are what its parts are read to.
Hashes(app) ==
  /\ app \in App
  /\ ContentsInv(ContentsOf(app))
  /\ ReadsTo(app.parts, ContentsOf(app))

AppOf(auth, calls, parts, channels, messages, fns) ==
  [auth |-> auth, calls |-> calls, parts |-> parts, channels |-> channels,
   messages |-> messages, fns |-> fns]

\* An app after a registration that is hashed as a part.
Extended(app, part) ==
  AppOf(app.auth, app.calls, Append(app.parts, part),
        Reads(ContentsOf(app), part).channels,
        Reads(ContentsOf(app), part).messages,
        Reads(ContentsOf(app), part).fns)

\* An app is its fields.
LEMMA AppIs ==
  ASSUME NEW app \in App
  PROVE  app = AppOf(app.auth, app.calls, app.parts, app.channels, app.messages, app.fns)
  BY DEF App, AppOf

\* The fields of an app that is given by its fields.
LEMMA AppFields ==
  ASSUME NEW auth, NEW calls, NEW parts, NEW channels, NEW messages, NEW fns,
         NEW app, app = AppOf(auth, calls, parts, channels, messages, fns)
  PROVE  /\ app.auth = auth /\ app.calls = calls /\ app.parts = parts
         /\ app.channels = channels /\ app.messages = messages /\ app.fns = fns
  BY DEF AppOf

\* Hashing changes the parts alone.
LEMMA HashedIs ==
  ASSUME NEW app \in App, NEW part, NEW fields, NEW name
  PROVE  Hashed(app, part, fields, name)
           = AppOf(app.auth, app.calls,
                   Append(app.parts, [part |-> part, fields |-> fields, name |-> name]),
                   app.channels, app.messages, app.fns)
<1> DEFINE parts == Append(app.parts, [part |-> part, fields |-> fields, name |-> name])
<1>1. Hashed(app, part, fields, name) = [app EXCEPT !.parts = parts]
  BY DEF Hashed
<1> HIDE DEF parts
<1>2. [app EXCEPT !.parts = parts]
        = AppOf(app.auth, app.calls, parts, app.channels, app.messages, app.fns)
  BY AppIs DEF AppOf
<1> QED
  BY <1>1, <1>2 DEF parts

\* An app before any registration.
LEMMA NewAppHashes ==
  ASSUME NEW auth \in AuthMethods
  PROVE  Hashes(NewApp(auth))
<1>1. ContentsOf(NewApp(auth)) = Empty
  BY DEF ContentsOf, NewApp, Empty
<1>2. NewApp(auth) \in App
  BY DirectionType, EmptySeq, RegistrationAssumption DEF NewApp, App
<1> QED
  BY <1>1, <1>2, NothingIsRead, EmptyInv DEF Hashes, NewApp

\* A registration that does what its part is read to.
LEMMA ExtendedHashes ==
  ASSUME NEW app, Hashes(app), NEW part \in Part, ContentsInv(Reads(ContentsOf(app), part))
  PROVE  /\ Hashes(Extended(app, part))
         /\ ContentsOf(Extended(app, part)) = Reads(ContentsOf(app), part)
<1> DEFINE c == Reads(ContentsOf(app), part)
           next == Extended(app, part)
<1> USE DEF Hashes
<1>1. /\ app.auth \in AuthMethods /\ app.parts \in Seq(Part) /\ app.calls \in 0 .. MaxCalls
      /\ ReadsTo(app.parts, ContentsOf(app))
  BY DEF App
<1>2. c \in Contents
  BY DEF ContentsInv
<1> HIDE DEF c
<1>3. next = AppOf(app.auth, app.calls, Append(app.parts, part), c.channels, c.messages, c.fns)
  BY DEF Extended, c
<1>4. next \in App
  <2>1. Append(app.parts, part) \in Seq(Part)
    BY <1>1
  <2> QED
    BY <1>1, <1>2, <1>3, <2>1 DEF App, AppOf, Contents
<1>5. ContentsOf(next) = c
  <2>1. next.channels = c.channels /\ next.messages = c.messages /\ next.fns = c.fns
    BY <1>3 DEF AppOf
  <2>2. c = [channels |-> c.channels, messages |-> c.messages, fns |-> c.fns]
    BY <1>2 DEF Contents
  <2> QED
    BY <2>1, <2>2 DEF ContentsOf
<1>6. ReadsTo(Append(app.parts, part), c)
  BY <1>1, NextIsRead DEF c
<1>7. next.parts = Append(app.parts, part)
  BY <1>3 DEF AppOf
<1> HIDE DEF next
<1> QED
  BY <1>4, <1>5, <1>6, <1>7 DEF c, next

\* The number of calls is not hashed.
LEMMA CallsAreNotHashed ==
  ASSUME NEW app, Hashes(app), NEW calls \in 0 .. MaxCalls
  PROVE  /\ Hashes([app EXCEPT !.calls = calls])
         /\ [app EXCEPT !.calls = calls].messages = app.messages
         /\ [app EXCEPT !.calls = calls].auth = app.auth
<1> DEFINE next == [app EXCEPT !.calls = calls]
<1>1. app \in App /\ next \in App
  BY DEF Hashes, App
<1>2. /\ next.auth = app.auth /\ next.parts = app.parts /\ next.channels = app.channels
      /\ next.messages = app.messages /\ next.fns = app.fns
  BY <1>1 DEF App
<1> HIDE DEF next
<1>3. ContentsOf(next) = ContentsOf(app)
  BY <1>2 DEF ContentsOf
<1>4. Hashes(next)
  BY <1>1, <1>2, <1>3 DEF Hashes
<1> QED
  BY <1>2, <1>4 DEF next

-----------------------------------------------------------------------------
(* What each registration hashes.                                          *)

\* A message is hashed as its kind and type.
LEMMA AddMessageExtends ==
  ASSUME NEW app \in App, NEW kind \in Kinds, NEW type \in Types \cup Handshake
  PROVE  \E part \in Part :
           /\ AddMessage(app, kind, type) = Extended(app, part)
           /\ Reads(ContentsOf(app), part) = Adds(ContentsOf(app), kind, type)
<1> DEFINE part == [part |-> kind, fields |-> <<>>, name |-> <<type>>]
           c == ContentsOf(app)
<1>1. part \in Part
  BY DEF Part, PartKinds, Names
<1>2. Reads(c, part) = Adds(c, kind, type)
  <2>1. part.part = kind /\ part.name[1] = type
    OBVIOUS
  <2> HIDE DEF part
  <2> QED
    BY <2>1 DEF Reads
<1> DEFINE dir == Direction(kind)
           entry == [kind |-> kind, type |-> type, channel |-> app.channels[dir],
                     independent |-> FALSE]
           hashed == Hashed(app, kind, <<>>, <<type>>)
           wide == [hashed EXCEPT !.channels[dir] = app.channels[dir] + 1]
           parts == Append(app.parts, part)
           channels == [app.channels EXCEPT ![dir] = app.channels[dir] + 1]
<1>3. hashed = AppOf(app.auth, app.calls, parts, app.channels, app.messages, app.fns)
  BY HashedIs
<1>4. AddMessage(app, kind, type) = [wide EXCEPT !.messages = Append(app.messages, entry)]
  <2>1. hashed.channels = app.channels /\ hashed.messages = app.messages
    BY <1>3, AppFields
  <2>2. AddMessage(app, kind, type)
          = [hashed EXCEPT !.channels[dir] = hashed.channels[dir] + 1,
                           !.messages = Append(hashed.messages, entry)]
    BY DEF AddMessage
  <2> HIDE DEF hashed, entry
  <2> QED
    BY <2>1, <2>2
<1>5. AddMessage(app, kind, type)
        = AppOf(app.auth, app.calls, parts, channels, Append(app.messages, entry), app.fns)
  <2> HIDE DEF hashed, entry, parts, channels
  <2>1. wide = AppOf(app.auth, app.calls, parts, channels, app.messages, app.fns)
    BY <1>3 DEF AppOf, channels
  <2> HIDE DEF wide
  <2> QED
    BY <1>4, <2>1 DEF AppOf
<1>6. /\ Adds(c, kind, type).channels = channels /\ Adds(c, kind, type).fns = app.fns
      /\ Adds(c, kind, type).messages = Append(app.messages, entry)
  BY DEF Adds, ContentsOf
<1> QED
  BY <1>1, <1>2, <1>5, <1>6 DEF Extended

\* The mark is hashed as its kind and type, too.
LEMMA MakeIndependentExtends ==
  ASSUME NEW app \in App, NEW kind \in ServerKinds, NEW type \in Types \cup Handshake
  PROVE  \E part \in Part :
           /\ MakeIndependent(app, kind, type) = Extended(app, part)
           /\ Reads(ContentsOf(app), part) = Marks(ContentsOf(app), kind, type)
<1> DEFINE part == [part |-> IF kind = "ServerMessage" THEN "IndependentMessage"
                             ELSE "IndependentEvent",
                    fields |-> <<>>, name |-> <<type>>]
           c == ContentsOf(app)
<1>1. part \in Part
  BY DEF Part, PartKinds, Names
<1>2. Reads(c, part) = Marks(c, kind, type)
  <2>1. /\ part.part = IF kind = "ServerMessage" THEN "IndependentMessage" ELSE "IndependentEvent"
        /\ part.name[1] = type
    OBVIOUS
  <2> HIDE DEF part
  <2>2. kind = "ServerMessage" \/ kind = "ServerEvent"
    BY DEF ServerKinds
  <2> QED
    BY <2>1, <2>2 DEF Reads, Kinds, ServerKinds, ClientKinds
<1> DEFINE hashed == Hashed(app, IF kind = "ServerMessage" THEN "IndependentMessage"
                                 ELSE "IndependentEvent", <<>>, <<type>>)
           parts == Append(app.parts, part)
           msgs == [i \in DOMAIN app.messages |-> Marked(app.messages[i], kind, type)]
<1>3. hashed = AppOf(app.auth, app.calls, parts, app.channels, app.messages, app.fns)
  BY HashedIs
<1>4. MakeIndependent(app, kind, type) = [hashed EXCEPT !.messages = msgs]
  <2>1. hashed.messages = app.messages
    BY <1>3, AppFields
  <2>2. MakeIndependent(app, kind, type)
          = [hashed EXCEPT !.messages =
               [i \in DOMAIN hashed.messages |-> Marked(hashed.messages[i], kind, type)]]
    BY DEF MakeIndependent, Marked
  <2> HIDE DEF hashed
  <2> QED
    BY <2>1, <2>2
<1>5. MakeIndependent(app, kind, type)
        = AppOf(app.auth, app.calls, parts, app.channels, msgs, app.fns)
  <2> HIDE DEF hashed, parts, msgs
  <2> QED
    BY <1>3, <1>4 DEF AppOf
<1>6. /\ Marks(c, kind, type).channels = app.channels /\ Marks(c, kind, type).fns = app.fns
      /\ Marks(c, kind, type).messages = msgs
  BY DEF Marks, ContentsOf
<1> QED
  BY <1>1, <1>2, <1>5, <1>6 DEF Extended

\* A rule is hashed with its components in order, which are its FnsIds.
LEMMA RuleExtends ==
  ASSUME NEW app \in App, NEW rule \in Rules, NEW next,
         \/ \E priority \in Priorities : next = Replicate(app, rule, priority)
         \/ next = ReplicateBundle(app, rule)
  PROVE  \E part \in Part :
           /\ next = Extended(app, part)
           /\ Reads(ContentsOf(app), part) = Grows(ContentsOf(app), rule)
           /\ rule \in Seq(Components)
<1> DEFINE c == ContentsOf(app)
<1>1. PICK part : /\ next = [Hashed(app, part.part, part.fields, part.name) EXCEPT !.fns = @ \o rule]
                  /\ part \in [part : {"Replicate", "ReplicateBundle"},
                               fields : Seq(Priorities \cup BOOLEAN), name : {rule}]
  <2>1. CASE \E priority \in Priorities : next = Replicate(app, rule, priority)
    <3>1. PICK priority \in Priorities : next = Replicate(app, rule, priority)
      BY <2>1
    <3> WITNESS [part |-> "Replicate", fields |-> <<priority>>, name |-> rule]
    <3> QED
      BY <3>1 DEF Replicate
  <2>2. CASE next = ReplicateBundle(app, rule)
    <3> WITNESS [part |-> "ReplicateBundle", fields |-> <<>>, name |-> rule]
    <3> QED
      BY <2>2 DEF ReplicateBundle
  <2> QED
    BY <2>1, <2>2
<1>2. rule \in Seq(Components)
  <2>1. rule \in Seq(ToSet(rule)) /\ ToSet(rule) \subseteq Components
    BY RegistrationAssumption DEF Components
  <2> QED
    BY <2>1, SeqMonotonic
<1>3. part \in Part
  <2>1. Components \subseteq Names
    BY DEF Names
  <2>2. rule \in Seq(Names)
    BY <1>2, <2>1, SeqMonotonic
  <2> QED
    BY <1>1, <2>2 DEF Part, PartKinds
<1>4. Reads(c, part) = Grows(c, rule)
  BY <1>1 DEF Reads, Kinds, ServerKinds, ClientKinds
<1> DEFINE hashed == Hashed(app, part.part, part.fields, part.name)
           parts == Append(app.parts, part)
<1>5. hashed = AppOf(app.auth, app.calls, parts, app.channels, app.messages, app.fns)
  <2>1. part = [part |-> part.part, fields |-> part.fields, name |-> part.name]
    BY <1>1
  <2> QED
    BY <2>1, HashedIs
<1>6. next = Extended(app, part)
  <2>1. next = [hashed EXCEPT !.fns = app.fns \o rule]
    <3>1. hashed.fns = app.fns
      BY <1>5, AppFields
    <3> QED
      BY <1>1, <3>1
  <2>2. next = AppOf(app.auth, app.calls, parts, app.channels, app.messages, app.fns \o rule)
    <3> HIDE DEF hashed, parts
    <3> QED
      BY <1>5, <2>1 DEF AppOf
  <2>3. /\ Grows(c, rule).channels = app.channels /\ Grows(c, rule).messages = app.messages
        /\ Grows(c, rule).fns = app.fns \o rule
    BY DEF Grows, ContentsOf
  <2> QED
    BY <1>4, <2>2, <2>3 DEF Extended
<1> QED
  BY <1>2, <1>3, <1>4, <1>6

\* Markers and custom values are hashed, and read to nothing.
LEMMA OthersExtend ==
  ASSUME NEW app \in App, NEW next,
         \/ \E marker \in Markers, priority \in Priorities, needHistory \in BOOLEAN :
              next = RegisterMarker(app, marker, priority, needHistory)
         \/ \E value \in CustomValues : next = AddCustom(app, value)
  PROVE  \E part \in Part :
           /\ next = Extended(app, part)
           /\ Reads(ContentsOf(app), part) = ContentsOf(app)
<1> DEFINE c == ContentsOf(app)
<1>1. PICK part \in Part : /\ next = Hashed(app, part.part, part.fields, part.name)
                           /\ part.part \in {"ReceiveMarker", "Custom"}
  <2>1. CASE \E marker \in Markers, priority \in Priorities, needHistory \in BOOLEAN :
               next = RegisterMarker(app, marker, priority, needHistory)
    <3>1. PICK marker \in Markers, priority \in Priorities, needHistory \in BOOLEAN :
            next = RegisterMarker(app, marker, priority, needHistory)
      BY <2>1
    <3> DEFINE part == [part |-> "ReceiveMarker", fields |-> <<priority, needHistory>>,
                        name |-> <<marker>>]
    <3>2. part \in Part
      BY DEF Part, PartKinds, Names
    <3>3. next = Hashed(app, part.part, part.fields, part.name)
      BY <3>1 DEF RegisterMarker
    <3> QED
      BY <3>2, <3>3
  <2>2. CASE \E value \in CustomValues : next = AddCustom(app, value)
    <3>1. PICK value \in CustomValues : next = AddCustom(app, value)
      BY <2>2
    <3> DEFINE part == [part |-> "Custom", fields |-> <<>>, name |-> <<value>>]
    <3>2. part \in Part
      BY DEF Part, PartKinds, Names
    <3>3. next = Hashed(app, part.part, part.fields, part.name)
      BY <3>1 DEF AddCustom
    <3> QED
      BY <3>2, <3>3
  <2> QED
    BY <2>1, <2>2
<1>2. Reads(c, part) = c
  BY <1>1 DEF Reads, Kinds, ServerKinds, ClientKinds
<1>3. next = AppOf(app.auth, app.calls, Append(app.parts, part), app.channels, app.messages,
                   app.fns)
  <2>1. part = [part |-> part.part, fields |-> part.fields, name |-> part.name]
    BY DEF Part
  <2> QED
    BY <1>1, <2>1, HashedIs
<1>4. next = Extended(app, part)
  BY <1>2, <1>3 DEF Extended, ContentsOf
<1> QED
  BY <1>2, <1>4

-----------------------------------------------------------------------------
(* The messages of the protocol check come first.                          *)

HashMessage == [kind |-> "ClientEvent", type |-> "ProtocolHash", channel |-> 1,
                independent |-> FALSE]
MismatchMessage == [kind |-> "ServerEvent", type |-> "ProtocolMismatch", channel |-> 2,
                    independent |-> TRUE]
DependentMismatch == [kind |-> "ServerEvent", type |-> "ProtocolMismatch", channel |-> 2,
                      independent |-> FALSE]

HandshakeFirst(auth, messages) ==
  /\ auth = "ProtocolCheck" =>
       /\ 1 \in DOMAIN messages /\ 2 \in DOMAIN messages
       /\ messages[1] = HashMessage /\ messages[2] = MismatchMessage
  /\ \A i \in DOMAIN messages :
       messages[i].type \in Handshake => auth = "ProtocolCheck" /\ i \in {1, 2}

AppInv(app) == Hashes(app) /\ HandshakeFirst(app.auth, app.messages)

\* So a new message keeps the contents those of the hash,
LEMMA AddMessageHashes ==
  ASSUME NEW app, Hashes(app), NEW kind \in Kinds, NEW type \in Types \cup Handshake
  PROVE  /\ Hashes(AddMessage(app, kind, type))
         /\ ContentsOf(AddMessage(app, kind, type)) = Adds(ContentsOf(app), kind, type)
         /\ AddMessage(app, kind, type).auth = app.auth
         /\ AddMessage(app, kind, type).calls = app.calls
<1>1. app \in App /\ ContentsInv(ContentsOf(app))
  BY DEF Hashes
<1>2. PICK part \in Part :
        /\ AddMessage(app, kind, type) = Extended(app, part)
        /\ Reads(ContentsOf(app), part) = Adds(ContentsOf(app), kind, type)
  BY <1>1, AddMessageExtends
<1>3. ContentsInv(Reads(ContentsOf(app), part))
  BY <1>1, <1>2, AddsInv
<1>4. Extended(app, part).auth = app.auth /\ Extended(app, part).calls = app.calls
  BY DEF Extended, AppOf
<1> QED
  BY <1>2, <1>3, <1>4, ExtendedHashes

\* and so does a mark.
LEMMA MakeIndependentHashes ==
  ASSUME NEW app, Hashes(app), NEW kind \in ServerKinds, NEW type \in Types \cup Handshake
  PROVE  /\ Hashes(MakeIndependent(app, kind, type))
         /\ ContentsOf(MakeIndependent(app, kind, type)) = Marks(ContentsOf(app), kind, type)
         /\ MakeIndependent(app, kind, type).auth = app.auth
         /\ MakeIndependent(app, kind, type).calls = app.calls
<1>1. app \in App /\ ContentsInv(ContentsOf(app))
  BY DEF Hashes
<1>2. PICK part \in Part :
        /\ MakeIndependent(app, kind, type) = Extended(app, part)
        /\ Reads(ContentsOf(app), part) = Marks(ContentsOf(app), kind, type)
  BY <1>1, MakeIndependentExtends
<1>3. ContentsInv(Reads(ContentsOf(app), part))
  BY <1>1, <1>2, MarksInv
<1>4. Extended(app, part).auth = app.auth /\ Extended(app, part).calls = app.calls
  BY DEF Extended, AppOf
<1> QED
  BY <1>2, <1>3, <1>4, ExtendedHashes

\* What RepliconSharedPlugin::build registers comes first.
LEMMA SharedPluginInv ==
  ASSUME NEW auth \in AuthMethods
  PROVE  AppInv(WithSharedPlugin(auth))
<1>1. CASE auth # "ProtocolCheck"
  <2>1. WithSharedPlugin(auth) = NewApp(auth) /\ NewApp(auth).messages = <<>>
    BY <1>1 DEF WithSharedPlugin, NewApp
  <2> QED
    BY <1>1, <2>1, NewAppHashes DEF AppInv, HandshakeFirst, NewApp
<1>2. CASE auth = "ProtocolCheck"
  <2> DEFINE one == NewApp(auth)
             two == AddMessage(one, "ClientEvent", "ProtocolHash")
             three == AddMessage(two, "ServerEvent", "ProtocolMismatch")
             four == MakeIndependent(three, "ServerEvent", "ProtocolMismatch")
  <2>1. /\ "ProtocolHash" \in Types \cup Handshake /\ "ProtocolMismatch" \in Types \cup Handshake
        /\ "ClientEvent" \in Kinds /\ "ServerEvent" \in Kinds /\ "ServerEvent" \in ServerKinds
    BY DEF Handshake, Kinds, ServerKinds, ClientKinds
  <2>2. WithSharedPlugin(auth) = four
    BY <1>2 DEF WithSharedPlugin
  <2>3. Hashes(one) /\ ContentsOf(one) = Empty /\ one.auth = auth
    BY NewAppHashes DEF NewApp, ContentsOf, Empty
  <2> HIDE DEF one
  <2>4. Hashes(two) /\ two.auth = auth /\ ContentsOf(two) = Adds(Empty, "ClientEvent", "ProtocolHash")
    BY <2>1, <2>3, AddMessageHashes
  <2> HIDE DEF two
  <2>5. /\ Hashes(three) /\ three.auth = auth
        /\ ContentsOf(three) = Adds(ContentsOf(two), "ServerEvent", "ProtocolMismatch")
    BY <2>1, <2>4, AddMessageHashes
  <2> HIDE DEF three
  <2>6. /\ Hashes(four) /\ four.auth = auth
        /\ ContentsOf(four) = Marks(ContentsOf(three), "ServerEvent", "ProtocolMismatch")
    BY <2>1, <2>5, MakeIndependentHashes
  <2> HIDE DEF four
  <2>7. Empty.channels["Client"] = 1 /\ Empty.channels["Server"] = 2 /\ Empty.messages = <<>>
    BY DEF Empty, Apps, ReservedChannels
  <2>8. ContentsOf(two).messages = <<HashMessage>> /\ ContentsOf(two).channels["Server"] = 2
    <3> DEFINE dir == Direction("ClientEvent")
               new == [kind |-> "ClientEvent", type |-> "ProtocolHash",
                       channel |-> Empty.channels[dir], independent |-> FALSE]
    <3>1. /\ dir = "Client"
          /\ Empty.channels \in [Apps -> Nat] /\ "Client" \in Apps /\ "Server" \in Apps
      BY DirectionType DEF Direction, ServerKinds, Empty, Apps
    <3>2. ContentsOf(two).messages = Append(Empty.messages, new)
      BY <2>4 DEF Adds
    <3>3. new = HashMessage
      BY <2>7, <3>1 DEF HashMessage
    <3>4. ContentsOf(two).channels["Server"] = 2
      BY <2>4, <2>7, <3>1 DEF Adds
    <3> HIDE DEF new
    <3> QED
      BY <2>7, <3>2, <3>3, <3>4
  <2>9. ContentsOf(three).messages = <<HashMessage, DependentMismatch>>
    <3> DEFINE dir == Direction("ServerEvent")
               new == [kind |-> "ServerEvent", type |-> "ProtocolMismatch",
                       channel |-> ContentsOf(two).channels[dir], independent |-> FALSE]
    <3>1. dir = "Server"
      BY DEF Direction, ServerKinds
    <3>2. ContentsOf(three).messages = Append(ContentsOf(two).messages, new)
      BY <2>5 DEF Adds
    <3>3. new = DependentMismatch
      BY <2>8, <3>1 DEF DependentMismatch
    <3> HIDE DEF new
    <3>4. ASSUME NEW x, NEW y PROVE Append(<<x>>, y) = <<x, y>>
      <4>1. <<x>> \in Seq({x, y}) /\ <<x, y>> \in Seq({x, y}) /\ Len(<<x>>) = 1 /\ Len(<<x, y>>) = 2
        OBVIOUS
      <4>2. Append(<<x>>, y) \in Seq({x, y}) /\ Len(Append(<<x>>, y)) = 2
        BY <4>1
      <4> DEFINE p == Append(<<x>>, y)
                 q == <<x, y>>
      <4>3. p[1] = x /\ p[2] = y /\ q[1] = x /\ q[2] = y
        BY <4>1
      <4> HIDE DEF p, q
      <4>4. \A i \in 1 .. Len(p) : p[i] = q[i]
        BY <4>2, <4>3 DEF p
      <4>5. p \in Seq({x, y}) /\ q \in Seq({x, y}) /\ Len(p) = Len(q)
        BY <4>1, <4>2 DEF p, q
      <4> QED
        BY <4>4, <4>5, SeqEqual DEF p, q
    <3> QED
      BY <2>8, <3>2, <3>3, <3>4
  <2>10. /\ DOMAIN four.messages = {1, 2}
         /\ four.messages[1] = HashMessage /\ four.messages[2] = MismatchMessage
    <3> DEFINE msgs == ContentsOf(three).messages
    <3>1. DOMAIN msgs = {1, 2} /\ msgs[1] = HashMessage /\ msgs[2] = DependentMismatch
      <4>1. DOMAIN <<HashMessage, DependentMismatch>> = {1, 2}
        OBVIOUS
      <4> QED
        BY <2>9, <4>1
    <3>2. four.messages = [i \in DOMAIN msgs |-> Marked(msgs[i], "ServerEvent", "ProtocolMismatch")]
      BY <2>6 DEF Marks, ContentsOf
    <3>3. Marked(HashMessage, "ServerEvent", "ProtocolMismatch") = HashMessage
      BY DEF Marked, HashMessage
    <3>4. Marked(DependentMismatch, "ServerEvent", "ProtocolMismatch") = MismatchMessage
      BY DEF Marked, DependentMismatch, MismatchMessage
    <3> HIDE DEF msgs
    <3> QED
      BY <3>1, <3>2, <3>3, <3>4
  <2>11. HandshakeFirst(four.auth, four.messages)
    BY <1>2, <2>6, <2>10 DEF HandshakeFirst
  <2> QED
    BY <2>2, <2>6, <2>11 DEF AppInv
<1> QED
  BY <1>1, <1>2

\* A registration of the app's own types leaves them there.
LEMMA RegisterInv ==
  ASSUME NEW app, AppInv(app), NEW next, NEW calls \in 0 .. MaxCalls,
         \/ \E kind \in Kinds, type \in Types : next = AddMessage(app, kind, type)
         \/ \E kind \in ServerKinds, type \in Types : next = MakeIndependent(app, kind, type)
         \/ \E rule \in Rules, priority \in Priorities : next = Replicate(app, rule, priority)
         \/ \E rule \in Rules : next = ReplicateBundle(app, rule)
         \/ \E marker \in Markers, priority \in Priorities, needHistory \in BOOLEAN :
              next = RegisterMarker(app, marker, priority, needHistory)
         \/ \E value \in CustomValues : next = AddCustom(app, value)
  PROVE  AppInv([next EXCEPT !.calls = calls]) /\ next.auth = app.auth
<1>1. /\ app \in App /\ Hashes(app) /\ HandshakeFirst(app.auth, app.messages)
      /\ ContentsInv(ContentsOf(app)) /\ app.messages \in Seq(Message)
      /\ ContentsOf(app).messages = app.messages
  BY DEF AppInv, Hashes, App, ContentsOf
<1>2. SUFFICES Hashes(next) /\ HandshakeFirst(next.auth, next.messages) /\ next.auth = app.auth
  BY CallsAreNotHashed DEF AppInv
<1>3. \A type \in Types : type \notin Handshake
  BY RegistrationAssumption DEF Handshake
<1>4. CASE \E kind \in Kinds, type \in Types : next = AddMessage(app, kind, type)
  <2>1. PICK kind \in Kinds, type \in Types : next = AddMessage(app, kind, type)
    BY <1>4
  <2>2. /\ Hashes(next) /\ next.auth = app.auth
        /\ ContentsOf(next) = Adds(ContentsOf(app), kind, type)
    BY <1>1, <2>1, AddMessageHashes
  <2> DEFINE new == [kind |-> kind, type |-> type,
                     channel |-> ContentsOf(app).channels[Direction(kind)],
                     independent |-> FALSE]
  <2>3. next.messages = Append(app.messages, new)
    <3>1. ContentsOf(next).messages = next.messages
      BY DEF ContentsOf
    <3>2. Adds(ContentsOf(app), kind, type).messages = Append(app.messages, new)
      BY <1>1 DEF Adds
    <3> QED
      BY <2>2, <3>1, <3>2
  <2>4. new.type = type
    OBVIOUS
  <2> HIDE DEF new
  <2>5. \A i \in DOMAIN next.messages :
          \/ i \in DOMAIN app.messages /\ next.messages[i] = app.messages[i]
          \/ next.messages[i].type = type
    BY <1>1, <2>3, <2>4
  <2>6. \A i \in DOMAIN app.messages :
          i \in DOMAIN next.messages /\ next.messages[i] = app.messages[i]
    BY <1>1, <2>3
  <2> QED
    BY <1>1, <1>3, <2>2, <2>5, <2>6 DEF HandshakeFirst
<1>5. CASE \E kind \in ServerKinds, type \in Types : next = MakeIndependent(app, kind, type)
  <2>1. PICK kind \in ServerKinds, type \in Types : next = MakeIndependent(app, kind, type)
    BY <1>5
  <2>2. /\ Hashes(next) /\ next.auth = app.auth
        /\ ContentsOf(next) = Marks(ContentsOf(app), kind, type)
    BY <1>1, <2>1, MakeIndependentHashes
  <2>3. next.messages = [i \in DOMAIN app.messages |-> Marked(app.messages[i], kind, type)]
    <3>1. ContentsOf(next).messages = next.messages
      BY DEF ContentsOf
    <3> QED
      BY <1>1, <2>2, <3>1 DEF Marks
  <2>4. \A m \in Message : Marked(m, kind, type).type = m.type
    BY DEF Marked, Message
  <2>5. \A m : m.type # type => Marked(m, kind, type) = m
    BY DEF Marked
  <2>6. DOMAIN next.messages = DOMAIN app.messages
    BY <2>3
  <2>7. \A i \in DOMAIN app.messages :
          /\ next.messages[i] = Marked(app.messages[i], kind, type)
          /\ app.messages[i] \in Message
    BY <1>1, <2>3
  <2>8. HashMessage.type # type /\ MismatchMessage.type # type
    BY <1>3 DEF HashMessage, MismatchMessage, Handshake
  <2>9. ASSUME app.auth = "ProtocolCheck"
        PROVE  next.messages[1] = HashMessage /\ next.messages[2] = MismatchMessage
    BY <1>1, <2>5, <2>7, <2>8, <2>9 DEF HandshakeFirst
  <2>10. \A i \in DOMAIN next.messages : next.messages[i].type = app.messages[i].type
    BY <2>4, <2>6, <2>7
  <2> QED
    BY <1>1, <2>2, <2>6, <2>9, <2>10 DEF HandshakeFirst
<1>6. CASE \/ \E rule \in Rules, priority \in Priorities : next = Replicate(app, rule, priority)
           \/ \E rule \in Rules : next = ReplicateBundle(app, rule)
  <2>1. PICK rule \in Rules : \/ \E priority \in Priorities : next = Replicate(app, rule, priority)
                              \/ next = ReplicateBundle(app, rule)
    BY <1>6
  <2>2. PICK part \in Part :
          /\ next = Extended(app, part)
          /\ Reads(ContentsOf(app), part) = Grows(ContentsOf(app), rule)
          /\ rule \in Seq(Components)
    BY <1>1, <2>1, RuleExtends
  <2>3. ContentsInv(Reads(ContentsOf(app), part))
    BY <1>1, <2>2, GrowsInv
  <2>4. /\ Extended(app, part).auth = app.auth
        /\ Extended(app, part).messages = Reads(ContentsOf(app), part).messages
    BY DEF Extended, AppOf
  <2>5. Grows(ContentsOf(app), rule).messages = app.messages
    BY <1>1 DEF Grows
  <2> QED
    BY <1>1, <2>2, <2>3, <2>4, <2>5, ExtendedHashes
<1>7. CASE \/ \E marker \in Markers, priority \in Priorities, needHistory \in BOOLEAN :
                next = RegisterMarker(app, marker, priority, needHistory)
           \/ \E value \in CustomValues : next = AddCustom(app, value)
  <2>1. PICK part \in Part :
          /\ next = Extended(app, part)
          /\ Reads(ContentsOf(app), part) = ContentsOf(app)
    BY <1>1, <1>7, OthersExtend
  <2>2. /\ Extended(app, part).auth = app.auth
        /\ Extended(app, part).messages = Reads(ContentsOf(app), part).messages
    BY DEF Extended, AppOf
  <2> QED
    BY <1>1, <2>1, <2>2, ExtendedHashes
<1> QED
  BY <1>4, <1>5, <1>6, <1>7

-----------------------------------------------------------------------------
(* Two apps.                                                               *)

\* An authorized client hashed what the server hashed.
Agreed ==
  link = "Authorized" /\ apps["Server"].auth = "ProtocolCheck"
  => apps["Server"].parts = apps["Client"].parts

RegistrationInv ==
  /\ apps = [a \in Apps |-> apps[a]] /\ \A a \in Apps : AppInv(apps[a])
  /\ link \in {"Disconnected", "Connected", "Authorized", "Mismatched", "Closed"}
  /\ link = "Disconnected" => last = None
  /\ Agreed
  /\ Understood

\* What uses the channel of a message is the message.
LEMMA OnItsChannel ==
  ASSUME NEW a \in Apps, AppInv(apps[a]), NEW m \in ToSet(apps[a].messages)
  PROVE  OnChannel(a, Direction(m.kind), m.channel) = m
<1> DEFINE messages == apps[a].messages
           found == {x \in ToSet(messages) :
                       Direction(x.kind) = Direction(m.kind) /\ x.channel = m.channel}
<1>1. OwnChannels(ContentsOf(apps[a])) /\ ContentsOf(apps[a]).messages = messages
  BY DEF AppInv, Hashes, ContentsInv, ContentsOf
<1>2. m \in found
  OBVIOUS
<1>3. ASSUME NEW x \in found PROVE x = m
  <2>1. PICK i \in DOMAIN messages : m = messages[i]
    BY DEF ToSet
  <2>2. PICK j \in DOMAIN messages : x = messages[j]
    BY DEF ToSet
  <2> QED
    BY <1>1, <1>3, <2>1, <2>2 DEF OwnChannels
<1>4. OnChannel(a, Direction(m.kind), m.channel) = IF found = {} THEN None ELSE CHOOSE x \in found : TRUE
  BY DEF OnChannel
<1> HIDE DEF found
<1>5. (CHOOSE x \in found : TRUE) \in found
  BY <1>2
<1> QED
  BY <1>2, <1>3, <1>4, <1>5

\* Equal hashes, equal contents.
LEMMA AgreedContents ==
  ASSUME NEW p, NEW q, AppInv(p), AppInv(q), p.parts = q.parts
  PROVE  p.messages = q.messages /\ p.fns = q.fns
<1>1. ContentsOf(p) = ContentsOf(q)
  <2>1. p.parts \in Seq(Part) /\ ReadsTo(p.parts, ContentsOf(p)) /\ ReadsTo(p.parts, ContentsOf(q))
    BY DEF AppInv, Hashes, App
  <2> QED
    BY <2>1, ReadingIsUnique
<1> QED
  BY <1>1 DEF ContentsOf

-----------------------------------------------------------------------------
(* The invariant holds.                                                    *)

\* Before the first registration of the app.
LEMMA InitRegistration == Init => RegistrationInv
<1> SUFFICES ASSUME Init PROVE RegistrationInv
  OBVIOUS
<1>1. \A a \in Apps : \E auth \in AuthMethods : apps[a] = WithSharedPlugin(auth)
  BY DEF Init
<1>2. \A a \in Apps : AppInv(apps[a])
  BY <1>1, SharedPluginInv
<1>3. apps = [a \in Apps |-> apps[a]] /\ link = "Disconnected" /\ last = None
  BY DEF Init
<1> QED
  BY <1>2, <1>3 DEF RegistrationInv, Agreed, Understood

\* Only the step itself counts the call.
LEMMA CallsAreKept ==
  ASSUME NEW app, AppInv(app), NEW next,
         \/ \E kind \in Kinds, type \in Types : next = AddMessage(app, kind, type)
         \/ \E kind \in ServerKinds, type \in Types : next = MakeIndependent(app, kind, type)
         \/ \E rule \in Rules, priority \in Priorities : next = Replicate(app, rule, priority)
         \/ \E rule \in Rules : next = ReplicateBundle(app, rule)
         \/ \E marker \in Markers, priority \in Priorities, needHistory \in BOOLEAN :
              next = RegisterMarker(app, marker, priority, needHistory)
         \/ \E value \in CustomValues : next = AddCustom(app, value)
  PROVE  next.calls = app.calls
<1>1. app \in App /\ Hashes(app)
  BY DEF AppInv, Hashes
<1>2. CASE \E kind \in Kinds, type \in Types : next = AddMessage(app, kind, type)
  BY <1>1, <1>2, AddMessageHashes
<1>3. CASE \E kind \in ServerKinds, type \in Types : next = MakeIndependent(app, kind, type)
  BY <1>1, <1>3, MakeIndependentHashes
<1>4. \A part : Extended(app, part).calls = app.calls
  BY DEF Extended, AppOf
<1>5. CASE \/ \E rule \in Rules, priority \in Priorities : next = Replicate(app, rule, priority)
           \/ \E rule \in Rules : next = ReplicateBundle(app, rule)
  <2>1. PICK rule \in Rules : \/ \E priority \in Priorities : next = Replicate(app, rule, priority)
                              \/ next = ReplicateBundle(app, rule)
    BY <1>5
  <2>2. PICK part \in Part : next = Extended(app, part)
    BY <1>1, <2>1, RuleExtends
  <2> QED
    BY <1>4, <2>2
<1>6. CASE \/ \E marker \in Markers, priority \in Priorities, needHistory \in BOOLEAN :
                next = RegisterMarker(app, marker, priority, needHistory)
           \/ \E value \in CustomValues : next = AddCustom(app, value)
  BY <1>1, <1>4, <1>6, OthersExtend
<1> QED
  BY <1>2, <1>3, <1>5, <1>6

\* Registrations come before the connection.
LEMMA RegisterKeeps ==
  ASSUME RegistrationInv, NEW a \in Apps, Register(a)
  PROVE  RegistrationInv'
<1>1. PICK next :
        /\ Registers(a, next)
        /\ \/ \E kind \in Kinds, type \in Types : next = AddMessage(apps[a], kind, type)
           \/ \E kind \in ServerKinds, type \in Types : next = MakeIndependent(apps[a], kind, type)
           \/ \E rule \in Rules, priority \in Priorities : next = Replicate(apps[a], rule, priority)
           \/ \E rule \in Rules : next = ReplicateBundle(apps[a], rule)
           \/ \E marker \in Markers, priority \in Priorities, needHistory \in BOOLEAN :
                next = RegisterMarker(apps[a], marker, priority, needHistory)
           \/ \E value \in CustomValues : next = AddCustom(apps[a], value)
  BY DEF Register
<1>2. /\ AppInv(apps[a]) /\ apps = [b \in Apps |-> apps[b]] /\ \A b \in Apps : AppInv(apps[b])
      /\ link = "Disconnected" /\ last = None
  BY <1>1 DEF RegistrationInv, Registers
<1>3. next.calls + 1 \in 0 .. MaxCalls
  <2>1. apps[a].calls \in 0 .. MaxCalls /\ apps[a].calls < MaxCalls
    BY <1>1, <1>2 DEF Registers, AppInv, Hashes, App
  <2>2. next.calls = apps[a].calls
    BY <1>1, <1>2, CallsAreKept
  <2> QED
    BY <2>1, <2>2, RegistrationAssumption
<1>4. AppInv([next EXCEPT !.calls = next.calls + 1])
  BY <1>1, <1>2, <1>3, RegisterInv
<1>5. apps' = [apps EXCEPT ![a] = [next EXCEPT !.calls = next.calls + 1]]
  BY <1>1 DEF Registers
<1>6. apps' = [b \in Apps |-> apps'[b]] /\ \A b \in Apps : AppInv(apps'[b])
  BY <1>2, <1>4, <1>5
<1>7. link' = "Disconnected" /\ last' = None
  BY <1>1, <1>2 DEF Registers
<1> QED
  BY <1>6, <1>7 DEF RegistrationInv, Agreed, Understood

\* A message of either app, once their hashes are equal, and one of the check
\* if both check the protocol, is on the same channel of the other app.
LEMMA ReceivedIsUnderstood ==
  ASSUME RegistrationInv, NEW from \in Apps, NEW m \in ToSet(apps[from].messages),
         Receives(from, m), apps' = apps
  PROVE  Understood'
<1>1. SUFFICES ASSUME apps["Server"].auth = "ProtocolCheck",
                      \/ link = "Authorized"
                      \/ m.type \in Handshake /\ apps["Client"].auth = "ProtocolCheck"
               PROVE  OnChannel(Peer(from), Direction(m.kind), m.channel) = m
  <2>1. last'.sent = m /\ last'.link = link
    BY DEF Receives
  <2>2. last'.as = OnChannel(Peer(from), Direction(m.kind), m.channel)
    BY DEF Receives
  <2>3. IsHandshake(m) => m.type \in Handshake
    BY DEF IsHandshake
  <2> QED
    BY <2>1, <2>2, <2>3 DEF Understood
<1>2. /\ "Server" \in Apps /\ "Client" \in Apps /\ Peer(from) \in Apps
      /\ AppInv(apps["Server"]) /\ AppInv(apps["Client"]) /\ AppInv(apps[Peer(from)])
      /\ \/ from = "Server" /\ Peer(from) = "Client"
         \/ from = "Client" /\ Peer(from) = "Server"
  BY DEF RegistrationInv, Apps, Peer
<1>3. m \in ToSet(apps[Peer(from)].messages)
  <2>1. CASE link = "Authorized"
    <3>1. apps["Server"].parts = apps["Client"].parts
      BY <1>1, <2>1 DEF RegistrationInv, Agreed
    <3>2. apps["Server"].messages = apps["Client"].messages
      BY <1>2, <3>1, AgreedContents
    <3> QED
      BY <1>2, <3>2
  <2>2. CASE m.type \in Handshake /\ apps["Client"].auth = "ProtocolCheck"
    <3>1. PICK i \in DOMAIN apps[from].messages : m = apps[from].messages[i]
      BY DEF ToSet
    <3>2. i \in {1, 2} /\ apps[from].auth = "ProtocolCheck" /\ apps[Peer(from)].auth = "ProtocolCheck"
      BY <1>1, <1>2, <2>2, <3>1 DEF RegistrationInv, AppInv, HandshakeFirst
    <3>3. i \in DOMAIN apps[Peer(from)].messages /\ m = apps[Peer(from)].messages[i]
      BY <1>2, <3>1, <3>2 DEF RegistrationInv, AppInv, HandshakeFirst
    <3> QED
      BY <3>3 DEF ToSet
  <2> QED
    BY <1>1, <2>1, <2>2
<1> QED
  BY <1>2, <1>3, OnItsChannel

\* A message that is received leaves what the apps registered alone.
LEMMA ReceiveKeeps ==
  ASSUME RegistrationInv, apps' = apps, Understood', Agreed', link' # "Disconnected",
         link' \in {"Connected", "Authorized", "Mismatched", "Closed"}
  PROVE  RegistrationInv'
  BY DEF RegistrationInv

\* Messages of the app.
LEMMA SendMessageKeeps ==
  ASSUME RegistrationInv, NEW from \in Apps, NEW i \in DOMAIN apps[from].messages,
         SendMessage(from, i)
  PROVE  RegistrationInv'
<1> DEFINE m == apps[from].messages[i]
<1>1. m \in ToSet(apps[from].messages)
  BY DEF ToSet
<1>2. Receives(from, m) /\ apps' = apps /\ link \in {"Connected", "Authorized"}
  BY DEF SendMessage, MaySend
<1>3. link' = link \/ link' = "Mismatched"
  BY DEF SendMessage
<1> HIDE DEF m
<1>4. Understood'
  BY <1>1, <1>2, ReceivedIsUnderstood
<1>5. Agreed'
  BY <1>2, <1>3 DEF RegistrationInv, Agreed
<1>6. link' \in {"Connected", "Authorized", "Mismatched", "Closed"}
  BY <1>2, <1>3
<1> QED
  BY <1>2, <1>4, <1>5, <1>6, ReceiveKeeps

\* The server authorizes a client whose hash is its own.
LEMMA SendHashKeeps ==
  ASSUME RegistrationInv, SendHash
  PROVE  RegistrationInv'
<1> DEFINE m == apps["Client"].messages[1]
<1>1. m \in ToSet(apps["Client"].messages)
  <2>1. AppInv(apps["Client"]) /\ apps["Client"].auth = "ProtocolCheck"
    BY DEF RegistrationInv, SendHash, Apps
  <2>2. 1 \in DOMAIN apps["Client"].messages
    BY <2>1 DEF AppInv, HandshakeFirst
  <2> QED
    BY <2>2 DEF ToSet
<1>2. Receives("Client", m) /\ apps' = apps /\ link = "Connected" /\ "Client" \in Apps
  BY DEF SendHash, Apps
<1>3. \/ link' = "Authorized" /\ apps["Client"].parts = apps["Server"].parts
      \/ link' \in {"Connected", "Mismatched"}
  BY DEF SendHash, ProtocolHash
<1> HIDE DEF m
<1>4. Understood'
  BY <1>1, <1>2, ReceivedIsUnderstood
<1>5. Agreed'
  BY <1>2, <1>3 DEF Agreed
<1>6. link' \in {"Connected", "Authorized", "Mismatched", "Closed"}
  BY <1>3
<1> QED
  BY <1>2, <1>4, <1>5, <1>6, ReceiveKeeps

\* The mismatch is a message of the check.
LEMMA NotifyMismatchKeeps ==
  ASSUME RegistrationInv, NotifyMismatch
  PROVE  RegistrationInv'
<1> DEFINE messages == apps["Server"].messages
           m == CHOOSE x \in ToSet(messages) : x.type = "ProtocolMismatch"
<1>1. Receives("Server", m) /\ apps' = apps /\ link' = "Closed" /\ "Server" \in Apps
  BY DEF NotifyMismatch, Apps
<1>2. Understood'
  <2>1. CASE apps["Server"].auth = "ProtocolCheck"
    <3>1. AppInv(apps["Server"])
      BY <1>1 DEF RegistrationInv
    <3>2. 2 \in DOMAIN messages /\ messages[2].type = "ProtocolMismatch"
      BY <2>1, <3>1 DEF AppInv, HandshakeFirst, MismatchMessage
    <3>3. messages[2] \in ToSet(messages)
      BY <3>2 DEF ToSet
    <3> HIDE DEF messages
    <3>4. m \in ToSet(messages)
      BY <3>2, <3>3
    <3> HIDE DEF m
    <3> QED
      BY <1>1, <3>4, ReceivedIsUnderstood DEF messages
  <2>2. CASE apps["Server"].auth # "ProtocolCheck"
    BY <1>1, <2>2 DEF Understood
  <2> QED
    BY <2>1, <2>2
<1>3. Agreed' /\ link' \in {"Connected", "Authorized", "Mismatched", "Closed"}
  BY <1>1 DEF Agreed
<1> QED
  BY <1>1, <1>2, <1>3, ReceiveKeeps

\* Equal FnsIds are of equal components.
LEMMA SendComponentKeeps ==
  ASSUME RegistrationInv, NEW i, SendComponent(i)
  PROVE  RegistrationInv'
<1>1. apps' = apps /\ link = "Authorized" /\ link' = link
  BY DEF SendComponent
<1>2. Understood'
  <2>1. CASE apps["Server"].auth = "ProtocolCheck"
    <3>1. /\ AppInv(apps["Server"]) /\ AppInv(apps["Client"])
          /\ apps["Server"].parts = apps["Client"].parts
      BY <1>1, <2>1 DEF RegistrationInv, Agreed, Apps
    <3>2. apps["Server"].fns = apps["Client"].fns
      BY <3>1, AgreedContents
    <3>3. ComponentOf("Server", i) = ComponentOf("Client", i)
      BY <3>2 DEF ComponentOf
    <3>4. last'.sent = ComponentOf("Server", i) /\ last'.as = ComponentOf("Client", i)
      BY DEF SendComponent
    <3> QED
      BY <3>3, <3>4 DEF Understood
  <2>2. CASE apps["Server"].auth # "ProtocolCheck"
    BY <1>1, <2>2 DEF Understood
  <2> QED
    BY <2>1, <2>2
<1>3. Agreed' /\ link' \in {"Connected", "Authorized", "Mismatched", "Closed"}
  BY <1>1 DEF RegistrationInv, Agreed
<1> QED
  BY <1>1, <1>2, <1>3, ReceiveKeeps

\* Authorization without a check of the protocol.
LEMMA ConnectionKeeps ==
  ASSUME RegistrationInv, Connect \/ Authorize
  PROVE  RegistrationInv'
<1>1. apps' = apps /\ last' = last
  BY DEF Connect, Authorize
<1>2. \/ link' = "Connected"
      \/ link' = "Authorized" /\ apps["Server"].auth # "ProtocolCheck"
  BY DEF Connect, Authorize
<1>3. Agreed'
  BY <1>1, <1>2 DEF Agreed
<1>4. Understood'
  BY <1>1 DEF RegistrationInv, Understood
<1>5. link' \in {"Connected", "Authorized", "Mismatched", "Closed"}
  BY <1>2
<1> QED
  BY <1>1, <1>3, <1>4, <1>5, ReceiveKeeps

\* Every step keeps the invariant.
LEMMA NextKeepsRegistration ==
  ASSUME RegistrationInv, [Next]_vars
  PROVE  RegistrationInv'
<1>1. CASE \E a \in Apps : Register(a)
  BY <1>1, RegisterKeeps
<1>2. CASE Connect \/ Authorize
  BY <1>2, ConnectionKeeps
<1>3. CASE SendHash
  BY <1>3, SendHashKeeps
<1>4. CASE NotifyMismatch
  BY <1>4, NotifyMismatchKeeps
<1>5. CASE \E a \in Apps : \E i \in DOMAIN apps[a].messages : SendMessage(a, i)
  BY <1>5, SendMessageKeeps
<1>6. CASE \E i \in DOMAIN apps["Server"].fns : SendComponent(i)
  BY <1>6, SendComponentKeeps
<1>7. CASE UNCHANGED vars
  BY <1>7 DEF vars, RegistrationInv, Agreed, Understood
<1> QED
  BY <1>1, <1>2, <1>3, <1>4, <1>5, <1>6, <1>7 DEF Next

\* Whatever the two apps register, in any number and order, and however they
\* connect, their channels and FnsIds are those their hashes stand for.
THEOREM RegistrationHolds == Spec => []RegistrationInv
<1>1. Init => RegistrationInv
  BY InitRegistration
<1>2. RegistrationInv /\ [Next]_vars => RegistrationInv'
  BY NextKeepsRegistration
<1> QED
  BY <1>1, <1>2, PTL DEF Spec

\* What a client and a server with equal hashes exchange is read as what was
\* sent, and so are the messages of the check itself (check_protocol).
THEOREM SentIsUnderstood == Spec => []Understood
<1>1. RegistrationInv => Understood
  BY DEF RegistrationInv
<1> QED
  BY <1>1, RegistrationHolds, PTL

\* The channels of a direction are used by one message each, without gaps
\* (create_server_channel, create_client_channel).
THEOREM RegistrationTypes == Spec => []TypeOK
<1>1. RegistrationInv => TypeOK
  <2> SUFFICES ASSUME RegistrationInv PROVE TypeOK
    OBVIOUS
  <2>1. ASSUME NEW a \in Apps
        PROVE  /\ apps[a].auth \in AuthMethods /\ apps[a].calls \in 0 .. MaxCalls
               /\ apps[a].fns \in Seq(UNION {ToSet(rule) : rule \in Rules})
               /\ \A direction \in Apps :
                    /\ {apps[a].messages[i].channel : i \in Entries(a, direction)}
                         = ReservedChannels(direction) .. (apps[a].channels[direction] - 1)
                    /\ Cardinality(Entries(a, direction))
                         = apps[a].channels[direction] - ReservedChannels(direction)
    <3>1. apps[a] \in App /\ ChannelsUsed(ContentsOf(apps[a]))
      BY DEF RegistrationInv, AppInv, Hashes, ContentsInv
    <3>2. /\ ContentsOf(apps[a]).messages = apps[a].messages
          /\ ContentsOf(apps[a]).channels = apps[a].channels
      BY DEF ContentsOf
    <3>3. \A direction : Entries(a, direction) = Of(apps[a].messages, direction)
      BY DEF Entries, Of
    <3> QED
      BY <3>1, <3>2, <3>3 DEF ChannelsUsed, App, Components
  <2> QED
    BY <2>1 DEF TypeOK, RegistrationInv
<1> QED
  BY <1>1, RegistrationHolds, PTL
=============================================================================
