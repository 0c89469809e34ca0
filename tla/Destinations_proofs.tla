------------------------- MODULE Destinations_proofs -------------------------
(***************************************************************************)
(* Proofs about destinations, for any number of devices, changes, requests *)
(* and events on their way.                                                *)
(*                                                                         *)
(* The events that the loop has not handled yet are one line: the one it   *)
(* is at and those in the channel. What observers know, what is in the     *)
(* line and what the manager shows are related device by device.           *)
(***************************************************************************)
EXTENDS Destinations, SequenceTheorems, TLAPS

Kinds == {"detected", "unrecognized", "failed", "removed"}
Arrivals == {"detected", "unrecognized"}
Events == [kind : Kinds, dev : Devices, token : Nat]

Line == (IF handling = <<>> THEN <<>> ELSE <<handling[1].event>>) \o channel

-----------------------------------------------------------------------------
(* Types.                                                                  *)
IsRequest(r, now) ==
  /\ r = [target |-> r.target, token |-> r.token, seen |-> r.seen]
  /\ r.token \in 1 .. now /\ r.seen \subseteq Devices
IsHandling(h, now) ==
  \E e \in Events, t \in Nat :
    /\ h = [event |-> e, token |-> t]
    /\ IF e.kind = "removed" THEN t \in 1 .. now ELSE t = e.token
Types ==
  /\ present \in SUBSET Devices /\ managed \in SUBSET Devices /\ issues \in SUBSET Devices
  /\ clock \in Nat /\ latest \in 0 .. clock
  /\ observer \in [Devices -> [token : Nat, known : BOOLEAN, failed : BOOLEAN,
                               probing : BOOLEAN]]
  /\ \A d \in Devices : observer[d].token = 0 => observer[d] = Unseen
  /\ channel \in Seq(Events) /\ Len(channel) <= MaxChannel
  /\ handling = <<>> \/ \E h : handling = <<h>> /\ IsHandling(h, clock)
  /\ connected \in [Devices -> Nat] /\ pending \in [Devices -> Nat]
  /\ \A r \in requests : IsRequest(r, clock)
  /\ setup \subseteq [dev : Devices, id : Nat \ {0}, written : BOOLEAN]
  /\ older \subseteq Devices
  /\ changes \in 0 .. MaxChanges /\ choices \in 0 .. MaxChoices

(* Between two arrivals of a device there is its removal, whether they are *)
(* in the line, shown by the manager (at 0) or still to come (at the end). *)
Arrives(d, line, shown, open, n) ==
  IF n = 0 THEN shown
  ELSE IF n = Len(line) + 1 THEN open ELSE line[n].dev = d /\ line[n].kind \in Arrivals
Leaves(d, line, n) == line[n].dev = d /\ line[n].kind = "removed"
Alternates(d, line, shown, open) ==
  \A i, j \in 0 .. Len(line) + 1 :
    i < j /\ Arrives(d, line, shown, open, i) /\ Arrives(d, line, shown, open, j)
    => \E k \in i + 1 .. j - 1 : Leaves(d, line, k)
Open(d) == ~observer[d].known \/ observer[d].probing
Paired == \A d \in Devices : Alternates(d, Line, Shown(d), Open(d))

(* The dates of the arrivals that are known of, device by device.          *)
Dates(d) ==
  ({connected[d], pending[d], observer[d].token}
     \cup {Line[n].token : n \in {m \in 1 .. Len(Line) : Line[m].dev = d}}) \ {0}
Dated ==
  /\ \A d \in Devices : Dates(d) \subseteq 1 .. clock
  /\ \A d, e \in Devices : d # e => Dates(d) \cap Dates(e) = {}
  /\ \A n \in 1 .. Len(Line) : Line[n].token # 0

(* Nothing comes after the removal of an arrival that names it.            *)
Ends ==
  \A n \in 1 .. Len(Line) : Line[n].kind = "removed" =>
    /\ \A m \in n + 1 .. Len(Line) : Line[m].token # Line[n].token
    /\ \A d \in Devices : observer[d].token # Line[n].token
Buried == gone \subseteq 1 .. clock /\ \A d \in Devices : Dates(d) \cap gone = {}

(* What observers knew when a token was taken is older than it.            *)
Knew(seen, token) ==
  \A d \in seen : observer[d].token # 0 /\ \A t \in Dates(d) : t <= token
Yields == Knew(older, latest) /\ \A r \in requests : Knew(r.seen, r.token)

Standing ==
  /\ Types /\ Paired /\ Dated /\ Ends /\ Buried /\ Yields
  /\ SelectionStands /\ OneEntry

-----------------------------------------------------------------------------
(* The line.                                                               *)
LEMMA LineIs ==
  ASSUME Types
  PROVE  /\ Line \in Seq(Events)
         /\ handling = <<>> => Line = channel
         /\ handling # <<>> =>
              /\ Len(Line) = Len(channel) + 1 /\ Line[1] = handling[1].event
              /\ \A n \in 1 .. Len(channel) : Line[n + 1] = channel[n]
<1>1. channel \in Seq(Events)
  BY DEF Types
<1>2. CASE handling = <<>>
  <2>1. Line = <<>> \o channel
    BY <1>2 DEF Line
  <2>2. Line = channel
    BY <1>1, <2>1, ConcatEmptySeq
  <2> QED BY <1>1, <1>2, <2>2
<1>3. CASE handling # <<>>
  <2>1. PICK h : handling = <<h>> /\ IsHandling(h, clock)
    BY <1>3 DEF Types
  <2>2. h.event \in Events
    BY <2>1 DEF IsHandling
  <2>3. Line = <<h.event>> \o channel
    BY <1>3, <2>1 DEF Line
  <2>4. <<h.event>> \in Seq(Events) /\ Len(<<h.event>>) = 1 /\ <<h.event>>[1] = h.event
    BY <2>2
  <2> DEFINE s == <<h.event>>
  <2> HIDE DEF s
  <2>5. /\ s \o channel \in Seq(Events) /\ Len(s \o channel) = 1 + Len(channel)
        /\ \A i \in 1 .. 1 + Len(channel) :
             (s \o channel)[i] = IF i <= 1 THEN s[1] ELSE channel[i - 1]
    <3>1. s \in Seq(Events) /\ Len(s) = 1
      BY <2>4 DEF s
    <3>2. /\ s \o channel \in Seq(Events) /\ Len(s \o channel) = Len(s) + Len(channel)
          /\ \A i \in 1 .. Len(s) + Len(channel) :
               (s \o channel)[i] = IF i <= Len(s) THEN s[i] ELSE channel[i - Len(s)]
      BY <1>1, <3>1, ConcatProperties
    <3> QED BY <1>1, <3>1, <3>2
  <2>6. Line = s \o channel /\ handling[1] = h
    BY <2>1, <2>3 DEF s
  <2>7. Len(channel) \in Nat
    BY <1>1
  <2> QED BY <1>3, <2>4, <2>5, <2>6, <2>7 DEF s
<1> QED BY <1>2, <1>3

LEMMA LineKept == ASSUME UNCHANGED loopVars PROVE Line' = Line
BY DEF Line, loopVars

LEMMA LineGrows ==
  ASSUME Types, NEW e \in Events, channel' = Append(channel, e), handling' = handling
  PROVE  Line' = Append(Line, e)
<1> DEFINE s == IF handling = <<>> THEN <<>> ELSE <<handling[1].event>>
<1>1. s \in Seq(Events)
  BY DEF Types, IsHandling
<1>2. channel \in Seq(Events) /\ <<e>> \in Seq(Events)
  BY DEF Types
<1>3. Line = s \o channel /\ Line' = s \o Append(channel, e)
  BY DEF Line
<1> HIDE DEF s
<1>4. Append(channel, e) = channel \o <<e>> /\ s \o channel \in Seq(Events)
  BY <1>1, <1>2, AppendIsConcat, ConcatProperties
<1>5. s \o (channel \o <<e>>) = (s \o channel) \o <<e>>
  BY <1>1, <1>2, ConcatAssociative
<1>6. (s \o channel) \o <<e>> = Append(s \o channel, e)
  BY <1>4, AppendIsConcat
<1> QED BY <1>3, <1>4, <1>5, <1>6

LEMMA LineServed ==
  ASSUME Types, handling # <<>>, handling' = <<>>, channel' = channel
  PROVE  Line # <<>> /\ Head(Line) = handling[1].event /\ Line' = Tail(Line)
<1>1. channel \in Seq(Events) /\ Len(channel) \in Nat
  BY DEF Types
<1>2. /\ Line \in Seq(Events) /\ Len(Line) = Len(channel) + 1 /\ Line[1] = handling[1].event
      /\ \A n \in 1 .. Len(channel) : Line[n + 1] = channel[n]
  BY LineIs
<1>3. Line # <<>>
  BY <1>1, <1>2
<1>4. Tail(Line) \in Seq(Events) /\ Len(Tail(Line)) = Len(channel)
      /\ \A n \in 1 .. Len(channel) : Tail(Line)[n] = channel[n]
  BY <1>1, <1>2, <1>3, HeadTailProperties
<1>5. Tail(Line) = channel
  BY <1>1, <1>4, SeqEqual
<1>6. Line' = <<>> \o channel
  BY DEF Line
<1>7. Line' = channel
  BY <1>1, <1>6, ConcatEmptySeq
<1>8. Head(Line) = Line[1]
  BY <1>2, <1>3
<1> QED BY <1>2, <1>3, <1>5, <1>7, <1>8

LEMMA LineTaken ==
  ASSUME Types, handling = <<>>, channel # <<>>, channel' = Tail(channel),
         NEW t, handling' = <<[event |-> Head(channel), token |-> t]>>
  PROVE  Line' = Line
<1>1. channel \in Seq(Events)
  BY DEF Types
<1>2. Line = channel
  BY LineIs
<1>3. Line' = <<Head(channel)>> \o Tail(channel)
  BY DEF Line
<1>4. /\ Head(channel) \in Events /\ Head(channel) = channel[1]
      /\ Tail(channel) \in Seq(Events) /\ Len(Tail(channel)) = Len(channel) - 1
      /\ \A n \in 1 .. Len(Tail(channel)) : Tail(channel)[n] = channel[n + 1]
  BY <1>1, HeadTailProperties
<1> DEFINE s == <<Head(channel)>>
           r == Tail(channel)
<1>5. s \in Seq(Events) /\ Len(s) = 1 /\ s[1] = channel[1]
  BY <1>4
<1>6. Len(channel) \in Nat \ {0} /\ r \in Seq(Events) /\ Len(r) = Len(channel) - 1
      /\ \A n \in 1 .. Len(r) : r[n] = channel[n + 1]
  BY <1>1, <1>4, EmptySeq
<1> HIDE DEF s, r
<1>7. /\ s \o r \in Seq(Events) /\ Len(s \o r) = Len(s) + Len(r)
      /\ \A i \in 1 .. Len(s) + Len(r) :
           (s \o r)[i] = IF i <= Len(s) THEN s[i] ELSE r[i - Len(s)]
  BY <1>5, <1>6, ConcatProperties
<1>8. Len(s \o r) = Len(channel) /\ \A i \in 1 .. Len(channel) : (s \o r)[i] = channel[i]
  BY <1>5, <1>6, <1>7
<1>9. s \o r = channel
  BY <1>1, <1>7, <1>8, SeqEqual
<1> QED BY <1>2, <1>3, <1>9 DEF s, r

LEMMA LineDropped ==
  ASSUME Types, handling = <<>>, channel # <<>>, channel' = Tail(channel), handling' = <<>>
  PROVE  Line # <<>> /\ Head(Line) = Head(channel) /\ Line' = Tail(Line)
<1>1. channel \in Seq(Events) /\ Tail(channel) \in Seq(Events)
  BY HeadTailProperties DEF Types
<1>2. Line = channel
  BY LineIs
<1>3. Line' = <<>> \o Tail(channel)
  BY DEF Line
<1> QED BY <1>1, <1>2, <1>3, ConcatEmptySeq

-----------------------------------------------------------------------------
(* Alternation, through what can happen to a line.                         *)
LEMMA AlternatesAppended ==
  ASSUME NEW d, NEW line \in Seq(Events), NEW e \in Events, NEW shown \in BOOLEAN,
         NEW open \in BOOLEAN, NEW open2 \in BOOLEAN, Alternates(d, line, shown, open),
         \/ open /\ ~open2 /\ e.kind # "removed"
         \/ open2 = open /\ (e.dev # d \/ e.kind \notin Arrivals)
         \/ e.dev = d /\ e.kind = "removed"
  PROVE  Alternates(d, Append(line, e), shown, open2)
<1> DEFINE s == Append(line, e)
           l == Len(line)
<1>1. /\ s \in Seq(Events) /\ Len(s) = l + 1 /\ l \in Nat /\ s[l + 1] = e
      /\ \A n \in 1 .. l : s[n] = line[n]
  BY AppendProperties
<1> HIDE DEF s
<1> SUFFICES ASSUME NEW i \in 0 .. l + 2, NEW j \in 0 .. l + 2, i < j,
                    Arrives(d, s, shown, open2, i), Arrives(d, s, shown, open2, j)
             PROVE  \E k \in i + 1 .. j - 1 : Leaves(d, s, k)
  BY <1>1 DEF Alternates, s
<1>2. ASSUME NEW k \in 1 .. l, Leaves(d, line, k) PROVE Leaves(d, s, k)
  BY <1>1, <1>2 DEF Leaves
<1>3. CASE e.dev = d /\ e.kind = "removed"
  <2>1. Leaves(d, s, l + 1) /\ ~Arrives(d, s, shown, open2, l + 1)
    BY <1>1, <1>3 DEF Leaves, Arrives, Arrivals
  <2>2. CASE j = l + 2
    BY <1>1, <2>1, <2>2
  <2>3. CASE j <= l
    <3>1. Arrives(d, line, shown, open, i) /\ Arrives(d, line, shown, open, j)
      BY <1>1, <2>3 DEF Arrives
    <3>2. PICK k \in i + 1 .. j - 1 : Leaves(d, line, k)
      BY <1>1, <2>3, <3>1 DEF Alternates
    <3> QED BY <1>1, <1>2, <2>3, <3>2
  <2> QED BY <1>1, <2>1, <2>2, <2>3
<1>4. CASE ~(e.dev = d /\ e.kind = "removed")
  <2> DEFINE m == IF j = l + 2 THEN l + 1 ELSE j
  <2>1. i <= l /\ m \in 0 .. l + 1 /\ i < m /\ m - 1 <= j - 1 /\ m - 1 <= l
    BY <1>1, <1>4 DEF Arrives, Arrivals
  <2>2. Arrives(d, line, shown, open, i) /\ Arrives(d, line, shown, open, m)
    BY <1>1, <1>4, <2>1 DEF Arrives, Arrivals
  <2>3. PICK k \in i + 1 .. m - 1 : Leaves(d, line, k)
    BY <1>1, <2>1, <2>2 DEF Alternates
  <2> QED BY <1>1, <1>2, <2>1, <2>3
<1> QED BY <1>3, <1>4

LEMMA AlternatesServed ==
  ASSUME NEW d, NEW line \in Seq(Events), line # <<>>, NEW shown \in BOOLEAN,
         NEW shown2 \in BOOLEAN, NEW open \in BOOLEAN, Alternates(d, line, shown, open),
         \/ Head(line).dev = d /\ Head(line).kind \in Arrivals
         \/ shown2 = shown /\ (Head(line).dev # d \/ Head(line).kind # "removed")
         \/ ~shown2
  PROVE  Alternates(d, Tail(line), shown2, open)
<1> DEFINE s == Tail(line)
           l == Len(line)
<1>1. /\ s \in Seq(Events) /\ Len(s) = l - 1 /\ l \in Nat \ {0} /\ Head(line) = line[1]
      /\ \A n \in 1 .. l - 1 : s[n] = line[n + 1]
  BY HeadTailProperties, EmptySeq
<1> HIDE DEF s
<1> SUFFICES ASSUME NEW i \in 0 .. l, NEW j \in 0 .. l, i < j,
                    Arrives(d, s, shown2, open, i), Arrives(d, s, shown2, open, j)
             PROVE  \E k \in i + 1 .. j - 1 : Leaves(d, s, k)
  BY <1>1 DEF Alternates, s
<1>2. ASSUME NEW k \in 2 .. l, Leaves(d, line, k) PROVE Leaves(d, s, k - 1)
  BY <1>1, <1>2 DEF Leaves
<1>3. j + 1 \in 0 .. l + 1 /\ Arrives(d, line, shown, open, j + 1)
  BY <1>1 DEF Arrives
<1>4. CASE i # 0 \/ (Head(line).dev = d /\ Head(line).kind \in Arrivals)
  <2>1. i + 1 \in 0 .. l + 1 /\ i + 1 < j + 1 /\ Arrives(d, line, shown, open, i + 1)
    BY <1>1, <1>4 DEF Arrives
  <2>2. PICK k \in i + 2 .. j : Leaves(d, line, k)
    BY <1>1, <1>3, <2>1 DEF Alternates
  <2> QED BY <1>1, <1>2, <2>2
<1>5. CASE i = 0 /\ ~(Head(line).dev = d /\ Head(line).kind \in Arrivals)
  <2>1. shown /\ Arrives(d, line, shown, open, 0)
    BY <1>5 DEF Arrives
  <2>2. PICK k \in 1 .. j : Leaves(d, line, k)
    <3>1. 0 \in 0 .. l + 1 /\ 0 < j + 1
      BY <1>1
    <3>2. \E k \in 0 + 1 .. (j + 1) - 1 : Leaves(d, line, k)
      BY <1>3, <2>1, <3>1 DEF Alternates
    <3>3. 0 + 1 = 1 /\ (j + 1) - 1 = j
      OBVIOUS
    <3> QED BY <3>2, <3>3
  <2>3. k # 1
    BY <1>1, <1>5, <2>2 DEF Leaves, Arrives
  <2> QED BY <1>1, <1>2, <1>5, <2>2, <2>3
<1> QED BY <1>4, <1>5

(* What is shown is not at the head of the line as well.                   *)
LEMMA AlternatesShown ==
  ASSUME NEW d, NEW line \in Seq(Events), line # <<>>, NEW shown \in BOOLEAN,
         NEW open \in BOOLEAN, Alternates(d, line, shown, open),
         Head(line).dev = d, Head(line).kind \in Arrivals
  PROVE  ~shown
<1>1. Len(line) \in Nat \ {0} /\ Head(line) = line[1]
  BY EmptySeq
<1>2. Arrives(d, line, shown, open, 1)
  BY <1>1 DEF Arrives
<1>3. shown => Arrives(d, line, shown, open, 0)
  BY DEF Arrives
<1> QED BY <1>1, <1>2, <1>3 DEF Alternates

LEMMA AlternatesLess ==
  ASSUME NEW d, NEW line \in Seq(Events), NEW shown \in BOOLEAN, NEW open \in BOOLEAN,
         NEW shown2 \in BOOLEAN, NEW open2 \in BOOLEAN, Alternates(d, line, shown, open),
         shown2 => shown, open2 => open
  PROVE  Alternates(d, line, shown2, open2)
<1>1. ASSUME NEW n \in 0 .. Len(line) + 1, Arrives(d, line, shown2, open2, n)
      PROVE  Arrives(d, line, shown, open, n)
  BY <1>1 DEF Arrives
<1> QED BY <1>1 DEF Alternates

-----------------------------------------------------------------------------
(* Types.                                                                  *)
LEMMA EventTyped ==
  ASSUME Types, NEW d \in Devices, NEW kind \in Kinds PROVE Event(kind, d) \in Events
BY DEF Types, Event, Events

LEMMA EmitTyped ==
  ASSUME Types, NEW e \in Events, Emit(e), MaxChannel \in Nat
  PROVE  channel' \in Seq(Events) /\ Len(channel') <= MaxChannel
BY AppendProperties DEF Types, Emit, Room

LEMMA RequestsTyped ==
  ASSUME Types, clock' \in Nat, clock' >= clock, NEW r, IsRequest(r, clock)
  PROVE  r.token \in 1 .. clock' /\ r.seen \subseteq Devices
BY DEF Types, IsRequest

LEMMA ForgetTyped ==
  ASSUME Types, NEW d \in Devices, Forget(d), clock' = clock
  PROVE  /\ observer' \in [Devices -> [token : Nat, known : BOOLEAN, failed : BOOLEAN,
                                       probing : BOOLEAN]]
         /\ \A x \in Devices : observer'[x].token = 0 => observer'[x] = Unseen
         /\ \A r \in requests' : IsRequest(r, clock')
         /\ older' \subseteq Devices
<1>1. observer' = [observer EXCEPT ![d] = Unseen] /\ older' = older \ {d}
  BY DEF Forget
<1>2. Unseen \in [token : Nat, known : BOOLEAN, failed : BOOLEAN, probing : BOOLEAN]
  BY DEF Unseen
<1>3. ASSUME NEW r \in requests' PROVE IsRequest(r, clock')
  <2>1. PICK q \in requests : r = [q EXCEPT !.seen = @ \ {d}]
    BY <1>3 DEF Forget
  <2>2. IsRequest(q, clock)
    BY DEF Types
  <2>3. q = [target |-> q.target, token |-> q.token, seen |-> q.seen]
    BY <2>2 DEF IsRequest
  <2>4. r = [target |-> q.target, token |-> q.token, seen |-> q.seen \ {d}]
    BY <2>1, <2>3
  <2> QED BY <2>2, <2>4 DEF IsRequest
<1> QED BY <1>1, <1>2, <1>3 DEF Types

LEMMA HandlingTyped ==
  ASSUME Types, handling # <<>>
  PROVE  /\ handling[1].event \in Events /\ Dev \in Devices /\ Token \in Nat
         /\ IF handling[1].event.kind = "removed" THEN Token \in 1 .. clock
            ELSE Token = handling[1].event.token
<1>1. PICK h : handling = <<h>> /\ IsHandling(h, clock)
  BY DEF Types
<1>2. handling[1] = h
  BY <1>1
<1> QED BY <1>1, <1>2 DEF IsHandling, Dev, Token, Events

(* The event at hand is dated by then: Dates is of the line it heads.      *)
LEMMA TokenDated ==
  ASSUME Types, Dated, handling # <<>>
  PROVE  /\ Token \in 1 .. clock
         /\ handling[1].event.token \in Dates(Dev) /\ handling[1].event.token \in 1 .. clock
<1>1. /\ Len(Line) = Len(channel) + 1 /\ Line[1] = handling[1].event /\ Len(channel) \in Nat
  BY LineIs DEF Types
<1>2. 1 \in 1 .. Len(Line)
  BY <1>1
<1>3. Line[1].token # 0 /\ Line[1].dev = Dev
  BY <1>1, <1>2 DEF Dated, Dev
<1>4. Line[1].token \in Dates(Dev)
  BY <1>2, <1>3 DEF Dates
<1>5. Line[1].token \in 1 .. clock
  BY <1>4, HandlingTyped DEF Dated
<1> QED BY <1>1, <1>4, <1>5, HandlingTyped DEF Types

(* The bounds are numbers.                                                 *)
Bounds == MaxChanges \in Nat /\ MaxChoices \in Nat /\ MaxChannel \in Nat

LEMMA WorldTyped ==
  ASSUME Bounds, Types, NEW d \in Devices, Plug(d) \/ Unplug(d) PROVE Types'
<1>1. /\ UNCHANGED <<managed, besidesWorld>> /\ present' \in SUBSET Devices
      /\ changes' \in 0 .. MaxChanges
  BY DEF Bounds, Plug, Unplug, Change, Types
<1>2. /\ clock' = clock /\ observer' = observer /\ channel' = channel /\ handling' = handling
      /\ connected' = connected /\ pending' = pending /\ issues' = issues /\ latest' = latest
      /\ requests' = requests /\ setup' = setup /\ choices' = choices /\ older' = older
      /\ managed' = managed
  BY <1>1 DEF besidesWorld, loopVars, managerVars, windowVars
<1> QED BY <1>1, <1>2 DEF Types, IsHandling, IsRequest

LEMMA ObserverTyped ==
  ASSUME Bounds, Types, NEW d \in Devices, LoseStorage(d) \/ Observe(d) PROVE Types'
<1>1. CASE Vanish(d) \/ LoseStorage(d)
  <2>1. /\ Forget(d) /\ clock' = clock /\ handling' = handling /\ present' = present
        /\ managed' = managed /\ connected' = connected /\ pending' = pending
        /\ issues' = issues /\ latest' = latest /\ setup' = setup /\ choices' = choices
    BY <1>1 DEF Vanish, LoseStorage, worldVars, managerVars
  <2>2. changes' \in 0 .. MaxChanges
    BY <1>1 DEF Vanish, LoseStorage, worldVars, Change, Bounds, Types
  <2>3. channel' \in Seq(Events) /\ Len(channel') <= MaxChannel
    <3>1. Event("removed", d) \in Events
      BY EventTyped DEF Kinds
    <3>2. Emit(Event("removed", d)) \/ channel' = channel
      BY <1>1 DEF Vanish, LoseStorage
    <3> QED BY <3>1, <3>2, EmitTyped DEF Bounds, Types
  <2> QED BY <2>1, <2>2, <2>3, ForgetTyped DEF Types, IsHandling
<1>2. CASE Notice(d)
  <2> DEFINE fresh == observer[d].token = 0
  <2>1. /\ clock' \in Nat /\ clock' >= clock /\ (fresh => clock' = clock + 1)
        /\ channel' = channel /\ handling' = handling /\ present' = present
        /\ managed' = managed /\ connected' = connected /\ pending' = pending
        /\ issues' = issues /\ latest' = latest /\ setup' = setup /\ choices' = choices
        /\ requests' = requests /\ older' = older /\ changes' = changes
    BY <1>2 DEF Notice, besidesObserver, worldVars, managerVars, windowVars, Tick, NextToken,
                Types
  <2>2. observer' = [observer EXCEPT ![d].token = IF fresh THEN NextToken ELSE @,
                                     ![d].known = d \notin Mtp, ![d].probing = TRUE]
    BY <1>2 DEF Notice
  <2>3. /\ observer' \in [Devices -> [token : Nat, known : BOOLEAN, failed : BOOLEAN,
                                      probing : BOOLEAN]]
        /\ observer'[d].token # 0 /\ \A x \in Devices \ {d} : observer'[x] = observer[x]
    <3> DEFINE t == IF fresh THEN NextToken ELSE observer[d].token
               o == [observer[d] EXCEPT !.token = t, !.known = d \notin Mtp, !.probing = TRUE]
    <3>1. t \in Nat \ {0} /\ observer[d] \in [token : Nat, known : BOOLEAN, failed : BOOLEAN,
                                              probing : BOOLEAN]
      BY DEF Types, NextToken
    <3>2. observer' = [observer EXCEPT ![d] = o]
      BY <2>2 DEF Types
    <3> HIDE DEF t
    <3>3. o \in [token : Nat, known : BOOLEAN, failed : BOOLEAN, probing : BOOLEAN] /\ o.token # 0
      BY <3>1
    <3> HIDE DEF o
    <3> QED BY <3>2, <3>3 DEF Types
  <2>4. \A r \in requests' : IsRequest(r, clock')
    BY <2>1 DEF Types, IsRequest
  <2>5. handling' = <<>> \/ \E h : handling' = <<h>> /\ IsHandling(h, clock')
    <3>1. \A h : IsHandling(h, clock) => IsHandling(h, clock')
      BY <2>1 DEF Types, IsHandling
    <3> QED BY <2>1, <3>1 DEF Types
  <2>6. latest' \in 0 .. clock'
    BY <2>1 DEF Types
  <2> QED BY <2>1, <2>3, <2>4, <2>5, <2>6 DEF Types
<1>3. CASE Identify(d)
  <2>1. PICK kind \in Kinds : Probed(d, kind) /\ (UNCHANGED changes \/ Change)
    BY <1>3 DEF Identify, Kinds
  <2>2. /\ clock' = clock /\ handling' = handling /\ present' = present
        /\ managed' = managed /\ connected' = connected /\ pending' = pending
        /\ issues' = issues /\ latest' = latest /\ setup' = setup /\ choices' = choices
        /\ requests' = requests /\ older' = older
    BY <2>1 DEF Probed, managerVars, windowVars
  <2>3. changes' \in 0 .. MaxChanges
    BY <2>1 DEF Change, Bounds, Types
  <2>4. channel' \in Seq(Events) /\ Len(channel') <= MaxChannel
    BY <2>1, EventTyped, EmitTyped DEF Bounds, Probed
  <2>5. observer' = [observer EXCEPT ![d].known = kind # "failed", ![d].failed = kind = "failed",
                                     ![d].probing = FALSE]
    BY <2>1 DEF Probed
  <2>6. observer[d].token # 0
    BY <2>1 DEF Probed, Types, Unseen
  <2>7. /\ observer' \in [Devices -> [token : Nat, known : BOOLEAN, failed : BOOLEAN,
                                      probing : BOOLEAN]]
        /\ observer'[d].token # 0 /\ \A x \in Devices \ {d} : observer'[x] = observer[x]
    <3> DEFINE o == [observer[d] EXCEPT !.known = kind # "failed", !.failed = kind = "failed",
                                        !.probing = FALSE]
    <3>1. observer[d] \in [token : Nat, known : BOOLEAN, failed : BOOLEAN, probing : BOOLEAN]
      BY DEF Types
    <3>2. observer' = [observer EXCEPT ![d] = o]
      BY <2>5 DEF Types
    <3>3. o \in [token : Nat, known : BOOLEAN, failed : BOOLEAN, probing : BOOLEAN] /\ o.token # 0
      BY <2>6, <3>1
    <3> HIDE DEF o
    <3> QED BY <3>2, <3>3 DEF Types
  <2> QED BY <2>2, <2>3, <2>4, <2>7 DEF Types, IsHandling, IsRequest
<1> QED BY <1>1, <1>2, <1>3 DEF Observe

(* A handled event is out of the line, the manager has it.                 *)
LEMMA HandledTyped ==
  ASSUME Types, handling # <<>>, handling' = <<>>, UNCHANGED <<besidesManager, clock>>,
         connected' \in [Devices -> Nat], pending' \in [Devices -> Nat],
         issues' \in SUBSET Devices, latest' \in 0 .. clock, older' \subseteq Devices
  PROVE  Types'
<1>1. /\ observer' = observer /\ present' = present /\ managed' = managed /\ channel' = channel
      /\ setup' = setup /\ choices' = choices /\ requests' = requests /\ changes' = changes
      /\ clock' = clock
  BY DEF besidesManager, worldVars, windowVars
<1>2. \A r \in requests' : IsRequest(r, clock')
  BY <1>1 DEF Types, IsRequest
<1> QED BY <1>1, <1>2 DEF Types

LEMMA TableTyped ==
  ASSUME NEW f \in [Devices -> Nat], NEW d \in Devices, NEW v \in Nat
  PROVE  [f EXCEPT ![d] = v] \in [Devices -> Nat]
OBVIOUS

LEMMA LoopTyped == ASSUME Bounds, Types, Dated, Loop PROVE Types'
<1>1. CASE Take
  <2>1. /\ clock' \in Nat /\ clock' >= clock /\ observer' = observer /\ present' = present
        /\ managed' = managed /\ connected' = connected /\ pending' = pending
        /\ issues' = issues /\ latest' = latest /\ setup' = setup /\ choices' = choices
        /\ requests' = requests /\ older' = older /\ changes' = changes
        /\ channel # <<>> /\ channel' = Tail(channel)
    BY <1>1 DEF Take, worldVars, managerVars, windowVars, Tick, NextToken, Types
  <2>2. channel' \in Seq(Events) /\ Len(channel') <= MaxChannel /\ Head(channel) \in Events
    <3>1. channel \in Seq(Events) /\ Len(channel) <= MaxChannel /\ Len(channel) \in Nat
      BY DEF Types
    <3>2. Head(channel) \in Events /\ Tail(channel) \in Seq(Events)
          /\ Len(Tail(channel)) = Len(channel) - 1
      BY <2>1, <3>1, HeadTailProperties
    <3> QED BY <2>1, <3>1, <3>2 DEF Bounds
  <2>3. handling' = <<>> \/ \E h : handling' = <<h>> /\ IsHandling(h, clock')
    <3> DEFINE e == Head(channel)
    <3>1. CASE e.kind = "removed"
      <4> DEFINE h == [event |-> e, token |-> NextToken]
      <4>1. handling' = <<h>> /\ clock' = clock + 1
        BY <1>1, <3>1 DEF Take, Tick, NextToken
      <4>2. NextToken \in Nat /\ NextToken \in 1 .. clock'
        BY <4>1 DEF NextToken, Types
      <4>3. IsHandling(h, clock')
        BY <2>2, <3>1, <4>2 DEF IsHandling, NextToken
      <4> QED BY <4>1, <4>3
    <3>2. CASE e.kind # "removed"
      <4> DEFINE h == [event |-> e, token |-> e.token]
      <4>1. handling' = <<>> \/ handling' = <<h>>
        BY <1>1, <3>2 DEF Take
      <4>2. e.token \in Nat
        BY <2>2 DEF Events
      <4>3. IsHandling(h, clock')
        BY <2>2, <3>2, <4>2 DEF IsHandling
      <4> QED BY <4>1, <4>3
    <3> QED BY <3>1, <3>2
  <2>4. \A r \in requests' : IsRequest(r, clock')
    BY <2>1 DEF Types, IsRequest
  <2>5. latest' \in 0 .. clock'
    BY <2>1 DEF Types
  <2> QED BY <2>1, <2>2, <2>3, <2>4, <2>5 DEF Types
<1>2. CASE ~Take
  <2>1. handling # <<>> /\ handling' = <<>> /\ UNCHANGED <<besidesManager, clock>>
    BY <1>2 DEF Loop, HandleDetected, HandleUnrecognized, ReportDiscoveryFailure,
                HandleRemoved, Handling
  <2>2. Dev \in Devices /\ Token \in 1 .. clock
    BY <2>1, HandlingTyped, TokenDated
  <2>3. connected' \in [Devices -> Nat] /\ pending' \in [Devices -> Nat]
    <3>1. connected \in [Devices -> Nat] /\ pending \in [Devices -> Nat] /\ Token \in Nat
      BY <2>1, HandlingTyped DEF Types
    <3>2. /\ \/ connected' = connected
             \/ \E v \in {0, Token} : connected' = [connected EXCEPT ![Dev] = v]
          /\ \/ pending' = pending
             \/ \E v \in {0, Token} : pending' = [pending EXCEPT ![Dev] = v]
      BY <1>2 DEF Loop, HandleDetected, HandleUnrecognized, ReportDiscoveryFailure,
                  HandleRemoved
    <3> QED BY <2>2, <3>1, <3>2, TableTyped
  <2>4. issues' \in SUBSET Devices /\ older' \subseteq Devices
    BY <1>2, <2>2 DEF Loop, HandleDetected, HandleUnrecognized, ReportDiscoveryFailure,
                HandleRemoved, Types
  <2>5. latest' \in 0 .. clock
    BY <1>2, <2>2 DEF Loop, HandleDetected, HandleUnrecognized, ReportDiscoveryFailure,
                HandleRemoved, Follow, Types
  <2> QED BY <2>1, <2>3, <2>4, <2>5, HandledTyped
<1> QED BY <1>1, <1>2

LEMMA WindowTyped ==
  ASSUME Bounds, Types, Dated,
         \/ \E target \in Targets : Request(target)
         \/ \E r \in requests : Select(r)
         \/ \E d \in Devices : Reserve(d)
  PROVE  Types'
<1>1. /\ present' = present /\ managed' = managed /\ changes' = changes /\ observer' = observer
      /\ channel' = channel /\ handling' = handling /\ connected' = connected
      /\ pending' = pending /\ issues' = issues
      /\ clock' \in Nat /\ clock' >= clock
  BY DEF Request, Select, Reserve, besidesChoice, worldVars, loopVars, Tick, NextToken, Types
<1>2. handling' = <<>> \/ \E h : handling' = <<h>> /\ IsHandling(h, clock')
  <2>1. \A h : IsHandling(h, clock) => IsHandling(h, clock')
    BY <1>1 DEF Types, IsHandling
  <2> QED BY <1>1, <2>1 DEF Types
<1>3. CASE \E target \in Targets : Request(target)
  <2>1. PICK target : Request(target)
    BY <1>3
  <2>2. \A r \in requests' : IsRequest(r, clock')
    <3> DEFINE seen == {d \in Devices : observer[d] # Unseen}
               q == [target |-> target, token |-> NextToken, seen |-> seen]
    <3>1. requests' = requests \cup {q} /\ clock' = clock + 1
      BY <2>1 DEF Request, Tick, NextToken
    <3>2. IsRequest(q, clock')
      BY <3>1 DEF IsRequest, NextToken, Types
    <3>3. \A r \in requests : IsRequest(r, clock')
      BY <1>1 DEF Types, IsRequest
    <3> QED BY <3>1, <3>2, <3>3
  <2>3. /\ choices' \in 0 .. MaxChoices /\ setup' = setup /\ older' = older /\ latest' = latest
    BY <2>1 DEF Request, Bounds, Types
  <2> QED BY <1>1, <1>2, <2>2, <2>3 DEF Types
<1>4. CASE \E r \in requests : Select(r)
  <2>1. PICK r \in requests : Select(r)
    BY <1>4
  <2>2. IsRequest(r, clock) /\ clock' = clock /\ requests' \subseteq requests
        /\ setup' = setup /\ choices' = choices
    BY <2>1 DEF Select, Types
  <2>3. latest' \in 0 .. clock /\ older' \subseteq Devices
    BY <2>1, <2>2 DEF Select, Types, IsRequest
  <2>4. \A q \in requests' : IsRequest(q, clock')
    BY <2>2 DEF Types, IsRequest
  <2> QED BY <1>1, <1>2, <2>2, <2>3, <2>4 DEF Types
<1>5. CASE \E d \in Devices : Reserve(d)
  <2>1. PICK d \in Devices : Reserve(d)
    BY <1>5
  <2>2. /\ clock' = clock /\ requests' = requests /\ older' = older /\ latest' = latest
        /\ choices' \in 0 .. MaxChoices
    BY <2>1 DEF Reserve, Bounds, Types
  <2>3. setup' \subseteq [dev : Devices, id : Nat \ {0}, written : BOOLEAN]
    <3>1. pending[d] \in Nat \ {0}
      BY <2>1 DEF Reserve, Types
    <3>2. [dev |-> d, id |-> pending[d], written |-> FALSE]
            \in [dev : Devices, id : Nat \ {0}, written : BOOLEAN]
      BY <3>1
    <3> QED BY <2>1, <3>2 DEF Reserve, Types
  <2>4. \A q \in requests' : IsRequest(q, clock')
    BY <2>2 DEF Types, IsRequest
  <2> QED BY <1>1, <1>2, <2>2, <2>3, <2>4 DEF Types
<1> QED BY <1>3, <1>4, <1>5

LEMMA SetupTyped == ASSUME Bounds, Types, NEW i \in setup, Initialize(i) PROVE Types'
<1>1. /\ present' = present /\ observer' = observer /\ clock' = clock /\ requests' = requests
      /\ channel' = channel /\ handling' = handling /\ choices' = choices /\ older' = older
      /\ issues' = issues /\ latest' = latest
  BY DEF Initialize, WriteManifest, Connect, GiveUp, besidesSetup, loopVars, managerVars
<1>2. i \in [dev : Devices, id : Nat \ {0}, written : BOOLEAN]
  BY DEF Types
<1>3. setup' \subseteq [dev : Devices, id : Nat \ {0}, written : BOOLEAN]
  <2>1. [i EXCEPT !.written = TRUE] \in [dev : Devices, id : Nat \ {0}, written : BOOLEAN]
    BY <1>2
  <2> QED BY <2>1 DEF Initialize, WriteManifest, Connect, GiveUp, Types
<1>4. connected' \in [Devices -> Nat] /\ pending' \in [Devices -> Nat]
  <2>1. i.dev \in Devices /\ i.id \in Nat
    BY <1>2
  <2>2. \/ connected' = connected /\ pending' = pending
        \/ /\ connected' = [connected EXCEPT ![i.dev] = i.id]
           /\ pending' = [pending EXCEPT ![i.dev] = 0]
    BY DEF Initialize, WriteManifest, Connect, GiveUp, managerVars
  <2>3. connected \in [Devices -> Nat] /\ pending \in [Devices -> Nat]
    BY DEF Types
  <2> QED BY <2>1, <2>2, <2>3, TableTyped
<1>5. managed' \in SUBSET Devices /\ changes' \in 0 .. MaxChanges
  BY <1>2 DEF Initialize, WriteManifest, Connect, GiveUp, Change, Bounds, Types
<1>6. /\ \A r \in requests' : IsRequest(r, clock')
      /\ \A h : IsHandling(h, clock) => IsHandling(h, clock')
  BY <1>1 DEF Types, IsRequest, IsHandling
<1> QED BY <1>1, <1>3, <1>4, <1>5, <1>6 DEF Types

LEMMA TypesKept == ASSUME Bounds, Types, Dated, [DestNext]_destVars PROVE Types'
<1>1. CASE UNCHANGED destVars
  BY <1>1 DEF destVars, worldVars, loopVars, managerVars, windowVars, Types, IsHandling, IsRequest
<1> QED BY <1>1, WorldTyped, ObserverTyped, LoopTyped, WindowTyped, SetupTyped DEF DestNext

-----------------------------------------------------------------------------
(* Between two arrivals there is a removal.                                *)
LEMMA Truths ==
  ASSUME Types, NEW d \in Devices PROVE Shown(d) \in BOOLEAN /\ Open(d) \in BOOLEAN
BY DEF Types, Shown, Open

LEMMA PairedSame ==
  ASSUME Paired, Line' = Line,
         \A d \in Devices : (Shown(d)' <=> Shown(d)) /\ (Open(d)' <=> Open(d))
  PROVE  Paired'
<1> SUFFICES ASSUME NEW d \in Devices PROVE Alternates(d, Line', Shown(d)', Open(d)')
  BY DEF Paired
<1>1. Shown(d)' = Shown(d) /\ Open(d)' = Open(d)
  BY DEF Shown, Open
<1> QED BY <1>1 DEF Paired

LEMMA PairedAppended ==
  ASSUME Types, Types', Paired, NEW d \in Devices, NEW kind \in Kinds,
         Emit(Event(kind, d)), handling' = handling,
         connected' = connected, pending' = pending,
         \A x \in Devices \ {d} : observer'[x] = observer[x],
         \/ kind = "removed"
         \/ kind = "failed" /\ (Open(d)' <=> Open(d))
         \/ kind \in Arrivals /\ Open(d) /\ ~Open(d)'
  PROVE  Paired'
<1> DEFINE e == Event(kind, d)
<1>1. e \in Events /\ e.dev = d /\ e.kind = kind
  BY EventTyped DEF Event
<1>2. Line' = Append(Line, e) /\ Line \in Seq(Events)
  BY <1>1, LineGrows, LineIs DEF Emit
<1> HIDE DEF e
<1> SUFFICES ASSUME NEW x \in Devices PROVE Alternates(x, Append(Line, e), Shown(x)', Open(x)')
  BY <1>2 DEF Paired
<1>3. Shown(x)' = Shown(x) /\ Shown(x) \in BOOLEAN /\ Open(x) \in BOOLEAN /\ Open(x)' \in BOOLEAN
  BY Truths DEF Shown, Open, Types
<1>4. Alternates(x, Line, Shown(x), Open(x))
  BY DEF Paired
<1>5. x # d => Open(x)' = Open(x)
  BY DEF Open
<1> DEFINE s == Shown(x)
           o == Open(x)
           p == Open(x)'
<1>6. \/ o /\ ~p /\ e.kind # "removed"
      \/ p = o /\ (e.dev # x \/ e.kind \notin Arrivals)
      \/ e.dev = x /\ e.kind = "removed"
  <2>1. CASE x # d
    BY <1>1, <1>5, <2>1
  <2>2. CASE x = d
    <3>1. p \in BOOLEAN /\ o \in BOOLEAN
      BY <1>3
    <3> QED BY <1>1, <2>2, <3>1 DEF Arrivals
  <2> QED BY <2>1, <2>2
<1>7. s \in BOOLEAN /\ o \in BOOLEAN /\ p \in BOOLEAN /\ Alternates(x, Line, s, o)
  BY <1>3, <1>4
<1> HIDE DEF s, o, p
<1>8. Alternates(x, Append(Line, e), s, p)
  BY <1>1, <1>2, <1>6, <1>7, AlternatesAppended
<1> QED BY <1>3, <1>8 DEF s, p

LEMMA PairedServed ==
  ASSUME Types, Types', Paired, Line # <<>>, Line' = Tail(Line), observer' = observer,
         \A x \in Devices :
           \/ Head(Line).dev = x /\ Head(Line).kind \in Arrivals
           \/ Head(Line).dev = x /\ Head(Line).kind = "removed" /\ ~Shown(x)'
           \/ /\ Head(Line).dev # x \/ Head(Line).kind # "removed"
              /\ connected'[x] = connected[x] /\ pending'[x] = pending[x]
  PROVE  Paired'
<1> SUFFICES ASSUME NEW x \in Devices PROVE Alternates(x, Tail(Line), Shown(x)', Open(x)')
  BY DEF Paired
<1>1. /\ Shown(x)' \in BOOLEAN /\ Shown(x) \in BOOLEAN /\ Open(x) \in BOOLEAN
      /\ Open(x)' = Open(x) /\ Line \in Seq(Events)
  BY Truths, LineIs DEF Shown, Open, Types
<1>2. Alternates(x, Line, Shown(x), Open(x))
  BY DEF Paired
<1> DEFINE s == Shown(x)
           t == Shown(x)'
           o == Open(x)
<1>3. \/ Head(Line).dev = x /\ Head(Line).kind \in Arrivals
      \/ t = s /\ (Head(Line).dev # x \/ Head(Line).kind # "removed")
      \/ ~t
  BY DEF Shown
<1>4. s \in BOOLEAN /\ t \in BOOLEAN /\ o \in BOOLEAN /\ Alternates(x, Line, s, o)
  BY <1>1, <1>2
<1> HIDE DEF s, t, o
<1>5. Alternates(x, Tail(Line), t, o)
  BY <1>1, <1>3, <1>4, AlternatesServed
<1> QED BY <1>1, <1>5 DEF t, o

(* An arrival at the head of the line is of a device that is not shown.    *)
LEMMA HeadIsNew ==
  ASSUME Types, Paired, Line # <<>>, Head(Line).dev \in Devices, Head(Line).kind \in Arrivals
  PROVE  ~Shown(Head(Line).dev)
<1> DEFINE d == Head(Line).dev
           s == Shown(d)
           o == Open(d)
<1>1. s \in BOOLEAN /\ o \in BOOLEAN /\ Line \in Seq(Events) /\ Alternates(d, Line, s, o)
  BY Truths, LineIs DEF Paired
<1> HIDE DEF s, o
<1>2. ~s
  BY <1>1, AlternatesShown
<1> QED BY <1>2 DEF s

LEMMA PairedKept == ASSUME Bounds, Types, Types', Paired, [DestNext]_destVars PROVE Paired'
<1>1. ASSUME UNCHANGED loopVars, UNCHANGED <<observer, connected, pending>> PROVE Paired'
  BY <1>1, LineKept, PairedSame DEF Shown, Open
<1>2. CASE UNCHANGED destVars
  BY <1>1, <1>2 DEF destVars, managerVars
<1>3. ASSUME NEW d \in Devices, Plug(d) \/ Unplug(d) \/ Reserve(d) PROVE Paired'
  BY <1>1, <1>3 DEF Plug, Unplug, Reserve, besidesWorld, besidesChoice, managerVars
<1>4. CASE (\E target \in Targets : Request(target)) \/ (\E r \in requests : Select(r))
  BY <1>1, <1>4 DEF Request, Select, besidesChoice
<1>5. ASSUME NEW d \in Devices, LoseStorage(d) PROVE Paired'
  <2>1. /\ Emit(Event("removed", d)) /\ handling' = handling /\ connected' = connected
        /\ pending' = pending /\ observer' = [observer EXCEPT ![d] = Unseen]
    BY <1>5 DEF LoseStorage, Forget, managerVars
  <2> QED BY <2>1, PairedAppended DEF Kinds, Types
<1>6. ASSUME NEW d \in Devices, Vanish(d) PROVE Paired'
  <2>1. /\ handling' = handling /\ connected' = connected /\ pending' = pending
        /\ observer' = [observer EXCEPT ![d] = Unseen]
    BY <1>6 DEF Vanish, Forget, managerVars
  <2>2. CASE Told(d)
    BY <1>6, <2>1, <2>2, PairedAppended DEF Vanish, Kinds, Types
  <2>3. CASE ~Told(d)
    <3>1. UNCHANGED loopVars /\ Line' = Line
      BY <1>6, <2>1, <2>3, LineKept DEF Vanish, loopVars
    <3>2. \A x \in Devices : (Shown(x)' <=> Shown(x)) /\ (Open(x)' <=> Open(x))
      BY <2>1, <2>3 DEF Shown, Open, Told, Unseen, Types
    <3> QED BY <3>1, <3>2, PairedSame
  <2> QED BY <2>2, <2>3
<1>7. ASSUME NEW d \in Devices, Notice(d) PROVE Paired'
  <2>1. /\ UNCHANGED loopVars /\ connected' = connected /\ pending' = pending
        /\ \A x \in Devices \ {d} : observer'[x] = observer[x]
        /\ observer'[d].probing /\ ~observer[d].known
    BY <1>7 DEF Notice, besidesObserver, loopVars, managerVars, Types
  <2>2. \A x \in Devices : (Shown(x)' <=> Shown(x)) /\ (Open(x)' <=> Open(x))
    BY <2>1 DEF Shown, Open
  <2> QED BY <2>1, <2>2, LineKept, PairedSame
<1>8. ASSUME NEW d \in Devices, Identify(d) PROVE Paired'
  <2>1. PICK kind \in Kinds \ {"removed"} : Probed(d, kind)
    BY <1>8 DEF Identify, Kinds
  <2>2. /\ Emit(Event(kind, d)) /\ handling' = handling /\ connected' = connected
        /\ pending' = pending /\ \A x \in Devices \ {d} : observer'[x] = observer[x]
        /\ observer[d].probing
    BY <2>1 DEF Probed, managerVars, Types
  <2>3. (observer'[d].known <=> kind # "failed") /\ ~observer'[d].probing
    BY <2>1 DEF Probed, Types
  <2>4. \/ kind = "failed" /\ (Open(d)' <=> Open(d))
        \/ kind \in Arrivals /\ Open(d) /\ ~Open(d)'
    BY <2>1, <2>2, <2>3 DEF Open, Kinds, Arrivals
  <2> QED BY <2>1, <2>2, <2>4, PairedAppended
<1>9. CASE Take
  <2>1. /\ handling = <<>> /\ channel # <<>> /\ channel' = Tail(channel) /\ observer' = observer
        /\ connected' = connected /\ pending' = pending
        /\ \/ \E t : handling' = <<[event |-> Head(channel), token |-> t]>>
           \/ /\ handling' = <<>> /\ Head(channel).kind = "detected"
              /\ connected[Head(channel).dev] # 0
    BY <1>9 DEF Take, managerVars
  <2>2. CASE \E t : handling' = <<[event |-> Head(channel), token |-> t]>>
    <3>1. Line' = Line
      BY <2>1, <2>2, LineTaken
    <3> QED BY <2>1, <3>1, PairedSame DEF Shown, Open
  <2>3. CASE handling' = <<>> /\ Head(channel).kind = "detected"
    <3>1. Line # <<>> /\ Head(Line) = Head(channel) /\ Line' = Tail(Line)
      BY <2>1, <2>3, LineDropped
    <3>2. Head(Line).dev \in Devices
      <4>1. Head(Line) \in Events
        BY <3>1, LineIs, HeadTailProperties
      <4> QED BY <4>1 DEF Events
    <3> QED BY <2>1, <2>3, <3>1, <3>2, PairedServed DEF Arrivals
  <2> QED BY <2>1, <2>2, <2>3
<1>10. CASE Loop /\ ~Take
  <2>1. /\ handling # <<>> /\ handling' = <<>> /\ channel' = channel /\ observer' = observer
    BY <1>10 DEF Loop, HandleDetected, HandleUnrecognized, ReportDiscoveryFailure,
                HandleRemoved, Handling, besidesManager
  <2>2. Line # <<>> /\ Head(Line) = handling[1].event /\ Line' = Tail(Line)
    BY <2>1, LineServed
  <2>3. Dev \in Devices /\ Head(Line).dev = Dev
    BY <2>1, <2>2, HandlingTyped DEF Dev
  <2>4. CASE HandleDetected \/ HandleUnrecognized
    BY <2>1, <2>2, <2>3, <2>4, PairedServed
       DEF HandleDetected, HandleUnrecognized, Handling, Arrivals, Types
  <2>5. CASE ReportDiscoveryFailure
    BY <2>1, <2>2, <2>3, <2>5, PairedServed DEF ReportDiscoveryFailure, Handling
  <2>6. CASE HandleRemoved
    <3>1. Head(Line).kind = "removed" /\ connected' = [connected EXCEPT ![Dev] = 0]
          /\ pending' = [pending EXCEPT ![Dev] = 0]
      BY <2>2, <2>6 DEF HandleRemoved, Handling
    <3>2. \A x \in Devices : IF x = Dev THEN ~Shown(x)'
                           ELSE connected'[x] = connected[x] /\ pending'[x] = pending[x]
      BY <2>3, <3>1 DEF Shown, Types
    <3> QED BY <2>1, <2>2, <2>3, <3>1, <3>2, PairedServed
  <2> QED BY <1>10, <2>4, <2>5, <2>6 DEF Loop
<1>11. ASSUME NEW i \in setup, Initialize(i) PROVE Paired'
  <2>1. UNCHANGED loopVars /\ observer' = observer
    BY <1>11 DEF Initialize, WriteManifest, Connect, GiveUp, besidesSetup
  <2>2. i.dev \in Devices /\ i.id # 0
    BY DEF Types
  <2>3. \/ connected' = connected /\ pending' = pending
        \/ /\ connected' = [connected EXCEPT ![i.dev] = i.id]
           /\ pending' = [pending EXCEPT ![i.dev] = 0] /\ pending[i.dev] = i.id
    BY <1>11 DEF Initialize, WriteManifest, Connect, GiveUp, managerVars, Entry
  <2>4. \A x \in Devices : (Shown(x)' <=> Shown(x)) /\ (Open(x)' <=> Open(x))
    BY <2>1, <2>2, <2>3 DEF Shown, Open, Types
  <2> QED BY <2>1, <2>4, LineKept, PairedSame
<1> QED BY <1>2, <1>3, <1>4, <1>5, <1>6, <1>7, <1>8, <1>9, <1>10, <1>11 DEF DestNext, Observe

-----------------------------------------------------------------------------
(* Dates.                                                                  *)
LEMMA DatesFrom ==
  ASSUME Types, NEW d \in Devices,
         connected'[d] \in Dates(d) \cup {0}, pending'[d] \in Dates(d) \cup {0},
         observer'[d].token \in Dates(d) \cup {0},
         \/ Line' = Line
         \/ Line # <<>> /\ Line' = Tail(Line)
         \/ \E e \in Events : /\ Line' = Append(Line, e)
                              /\ e.dev = d => e.token \in Dates(d) \cup {0}
  PROVE  Dates(d)' \subseteq Dates(d)
<1>1. Line \in Seq(Events)
  BY LineIs
<1>2. ASSUME NEW n \in 1 .. Len(Line'), Line'[n].dev = d
      PROVE  Line'[n].token \in Dates(d) \cup {0}
  <2>1. CASE Line' = Line
    BY <1>2, <2>1 DEF Dates
  <2>2. CASE Line # <<>> /\ Line' = Tail(Line)
    <3>1. n + 1 \in 1 .. Len(Line) /\ Line'[n] = Line[n + 1]
      BY <1>1, <2>2, HeadTailProperties, EmptySeq
    <3> QED BY <1>2, <3>1 DEF Dates
  <2>3. CASE \E e \in Events : /\ Line' = Append(Line, e)
                               /\ e.dev = d => e.token \in Dates(d) \cup {0}
    <3>1. PICK e \in Events : /\ Line' = Append(Line, e)
                              /\ e.dev = d => e.token \in Dates(d) \cup {0}
      BY <2>3
    <3>2. /\ Len(Line') = Len(Line) + 1 /\ Line'[Len(Line) + 1] = e /\ Len(Line) \in Nat
          /\ \A m \in 1 .. Len(Line) : Line'[m] = Line[m]
      BY <1>1, <3>1, AppendProperties
    <3>3. CASE n = Len(Line) + 1
      BY <1>2, <3>1, <3>2, <3>3
    <3>4. CASE n \in 1 .. Len(Line)
      BY <1>2, <3>2, <3>4 DEF Dates
    <3> QED BY <3>2, <3>3, <3>4
  <2> QED BY <2>1, <2>2, <2>3
<1> QED BY <1>2 DEF Dates

(* How a step changes the line.                                            *)
LineStep ==
  \/ Line' = Line
  \/ Line # <<>> /\ Line' = Tail(Line)
  \/ \E d \in Devices, kind \in Kinds :
       /\ Line' = Append(Line, Event(kind, d)) /\ observer[d].token # 0
       /\ \A x \in Devices : observer'[x].token \in {observer[x].token, 0}
       /\ kind = "removed" => observer'[d].token = 0

(* How it changes the dates.                                               *)
Fresh(d) ==
  /\ Line' = Line /\ clock' = clock + 1 /\ gone' = gone
  /\ observer[d].token = 0 /\ observer'[d].token = clock + 1
  /\ \A x \in Devices \ {d} : observer'[x] = observer[x] /\ Dates(x)' \subseteq Dates(x)
  /\ Dates(d)' \subseteq Dates(d) \cup {clock + 1}
Stale ==
  /\ LineStep /\ clock' >= clock
  /\ \A d \in Devices : /\ Dates(d)' \subseteq Dates(d)
                        /\ observer'[d].token \in {observer[d].token, 0}

LEMMA StaleIf ==
  ASSUME Types, LineStep, clock' >= clock,
         \A d \in Devices : /\ connected'[d] \in Dates(d) \cup {0}
                            /\ pending'[d] \in Dates(d) \cup {0}
                            /\ observer'[d].token \in {observer[d].token, 0}
  PROVE  Stale
<1> SUFFICES ASSUME NEW d \in Devices PROVE Dates(d)' \subseteq Dates(d)
  BY DEF Stale
<1>1. observer'[d].token \in Dates(d) \cup {0}
  BY DEF Dates
<1>2. CASE Line' = Line \/ (Line # <<>> /\ Line' = Tail(Line))
  BY <1>1, <1>2, DatesFrom
<1>3. ASSUME NEW x \in Devices, NEW kind \in Kinds, Line' = Append(Line, Event(kind, x))
      PROVE  Dates(d)' \subseteq Dates(d)
  <2> DEFINE e == Event(kind, x)
  <2>1. e \in Events /\ e.dev = x /\ e.token = observer[x].token
    BY EventTyped DEF Event
  <2>2. e.dev = d => e.token \in Dates(d) \cup {0}
    BY <2>1 DEF Dates
  <2>3. Line' = Append(Line, e)
    BY <1>3
  <2> HIDE DEF e
  <2> QED BY <1>1, <2>1, <2>2, <2>3, DatesFrom
<1> QED BY <1>2, <1>3 DEF LineStep

LEMMA OldDates ==
  ASSUME Types, NEW d \in Devices
  PROVE  connected[d] \in Dates(d) \cup {0} /\ pending[d] \in Dates(d) \cup {0}
BY DEF Dates

LEMMA KeptDates ==
  ASSUME Types, connected' = connected, pending' = pending, clock' = clock
  PROVE  clock' >= clock /\ \A d \in Devices : /\ connected'[d] \in Dates(d) \cup {0}
                                               /\ pending'[d] \in Dates(d) \cup {0}
<1>1. clock \in Nat
  BY DEF Types
<1>2. \A d \in Devices : connected[d] \in Dates(d) \cup {0} /\ pending[d] \in Dates(d) \cup {0}
  BY OldDates
<1> QED BY <1>1, <1>2

LEMMA LineOfEmit ==
  ASSUME Types, NEW d \in Devices, NEW kind \in Kinds, Emit(Event(kind, d)),
         handling' = handling
  PROVE  Line' = Append(Line, Event(kind, d))
BY EventTyped, LineGrows DEF Emit

LEMMA DatesStep ==
  ASSUME Bounds, Types, Dated, [DestNext]_destVars
  PROVE  Stale \/ \E d \in Devices : Fresh(d)
<1>1. ASSUME UNCHANGED loopVars, UNCHANGED <<observer, connected, pending>>, clock' >= clock
      PROVE  Stale
  BY <1>1, LineKept, StaleIf, OldDates DEF LineStep
<1>2. CASE UNCHANGED destVars
  BY <1>1, <1>2 DEF destVars, managerVars, Types
<1>3. ASSUME NEW d \in Devices, Plug(d) \/ Unplug(d) \/ Reserve(d) PROVE Stale
  BY <1>1, <1>3
     DEF Plug, Unplug, Reserve, besidesWorld, besidesChoice, managerVars, Tick, NextToken, Types
<1>4. CASE (\E target \in Targets : Request(target)) \/ (\E r \in requests : Select(r))
  BY <1>1, <1>4 DEF Request, Select, besidesChoice, Tick, NextToken, Types
<1>5. ASSUME NEW d \in Devices, LoseStorage(d) \/ Vanish(d) PROVE Stale
  <2>1. /\ handling' = handling /\ connected' = connected /\ clock' = clock
        /\ pending' = pending /\ observer' = [observer EXCEPT ![d] = Unseen]
        /\ Emit(Event("removed", d)) \/ channel' = channel
    BY <1>5 DEF LoseStorage, Vanish, Forget, managerVars
  <2>2. /\ \A x \in Devices : observer'[x].token \in {observer[x].token, 0}
        /\ observer'[d].token = 0 /\ observer[d].token # 0
    BY <1>5, <2>1 DEF Types, Unseen, LoseStorage, Vanish
  <2>3. LineStep
    BY <2>1, <2>2, LineOfEmit, LineKept DEF LineStep, Kinds, loopVars
  <2>4. clock' >= clock /\ \A x \in Devices : /\ connected'[x] \in Dates(x) \cup {0}
                                             /\ pending'[x] \in Dates(x) \cup {0}
    BY <2>1, KeptDates
  <2> QED BY <2>2, <2>3, <2>4, StaleIf
<1>6. ASSUME NEW d \in Devices, Notice(d) PROVE Stale \/ Fresh(d)
  <2>1. /\ UNCHANGED loopVars /\ connected' = connected /\ pending' = pending /\ gone' = gone
        /\ \A x \in Devices \ {d} : observer'[x] = observer[x]
    BY <1>6 DEF Notice, besidesObserver, loopVars, managerVars, Types
  <2>2. CASE observer[d].token = 0
    <3>1. clock' = clock + 1 /\ observer'[d].token = clock + 1
      BY <1>6, <2>2 DEF Notice, Tick, NextToken, Types
    <3>2. Line' = Line
      BY <2>1, LineKept
    <3>3. \A x \in Devices \ {d} : Dates(x)' \subseteq Dates(x)
      BY <2>1, <3>2 DEF Dates
    <3>4. Dates(d)' \subseteq Dates(d) \cup {clock + 1}
      BY <2>1, <3>1, <3>2 DEF Dates
    <3> QED BY <2>1, <2>2, <3>1, <3>2, <3>3, <3>4 DEF Fresh
  <2>3. CASE observer[d].token # 0
    <3>1. clock' = clock /\ observer'[d].token = observer[d].token
      BY <1>6, <2>3 DEF Notice, Types
    <3>2. LineStep
      BY <2>1, LineKept DEF LineStep
    <3>3. clock' >= clock /\ \A x \in Devices : /\ connected'[x] \in Dates(x) \cup {0}
                                               /\ pending'[x] \in Dates(x) \cup {0}
      BY <2>1, <3>1, KeptDates
    <3>4. \A x \in Devices : observer'[x].token \in {observer[x].token, 0}
      BY <2>1, <3>1
    <3> QED BY <3>2, <3>3, <3>4, StaleIf
  <2> QED BY <2>2, <2>3
<1>7. ASSUME NEW d \in Devices, Identify(d) PROVE Stale
  <2>1. PICK kind \in Kinds \ {"removed"} : Probed(d, kind)
    BY <1>7 DEF Identify, Kinds
  <2>2. /\ Emit(Event(kind, d)) /\ handling' = handling /\ connected' = connected
        /\ pending' = pending /\ clock' = clock /\ observer[d].token # 0
        /\ \A x \in Devices : observer'[x].token = observer[x].token
    BY <2>1 DEF Probed, managerVars, Types, Unseen
  <2>3. LineStep
    BY <2>1, <2>2, LineOfEmit DEF LineStep
  <2>4. clock' >= clock /\ \A x \in Devices : /\ connected'[x] \in Dates(x) \cup {0}
                                             /\ pending'[x] \in Dates(x) \cup {0}
    BY <2>2, KeptDates
  <2>5. \A x \in Devices : observer'[x].token \in {observer[x].token, 0}
    BY <2>2
  <2> QED BY <2>3, <2>4, <2>5, StaleIf
<1>8. CASE Take
  <2>1. /\ handling = <<>> /\ channel # <<>> /\ channel' = Tail(channel) /\ observer' = observer
        /\ connected' = connected /\ pending' = pending /\ clock' >= clock
        /\ \/ \E t : handling' = <<[event |-> Head(channel), token |-> t]>>
           \/ handling' = <<>>
    BY <1>8 DEF Take, managerVars, Tick, NextToken, Types
  <2>2. LineStep
    BY <2>1, LineTaken, LineDropped DEF LineStep
  <2>3. \A d \in Devices : /\ connected'[d] \in Dates(d) \cup {0}
                           /\ pending'[d] \in Dates(d) \cup {0}
                           /\ observer'[d].token \in {observer[d].token, 0}
    BY <2>1, OldDates
  <2> QED BY <2>1, <2>2, <2>3, StaleIf
<1>9. CASE Loop /\ ~Take
  <2>1. /\ handling # <<>> /\ handling' = <<>> /\ channel' = channel /\ observer' = observer
        /\ clock' = clock
    BY <1>9 DEF Loop, HandleDetected, HandleUnrecognized, ReportDiscoveryFailure,
                HandleRemoved, Handling, besidesManager
  <2>2. LineStep
    BY <2>1, LineServed DEF LineStep
  <2>3. Dev \in Devices
    BY <2>1, HandlingTyped
  <2>4. CASE HandleRemoved \/ ReportDiscoveryFailure
    <3>1. \A d \in Devices : connected'[d] \in {connected[d], 0} /\ pending'[d] \in {pending[d], 0}
      BY <2>3, <2>4 DEF HandleRemoved, ReportDiscoveryFailure, Types
    <3>2. \A d \in Devices : connected[d] \in Dates(d) \cup {0} /\ pending[d] \in Dates(d) \cup {0}
      BY OldDates
    <3>3. \A d \in Devices : /\ connected'[d] \in Dates(d) \cup {0}
                             /\ pending'[d] \in Dates(d) \cup {0}
                             /\ observer'[d].token \in {observer[d].token, 0}
      BY <2>1, <3>1, <3>2
    <3>4. clock' >= clock
      BY <2>1 DEF Types
    <3> QED BY <2>2, <3>3, <3>4, StaleIf
  <2>5. CASE HandleDetected \/ HandleUnrecognized
    <3>1. Token \in Dates(Dev)
      BY <2>1, <2>5, HandlingTyped, TokenDated DEF HandleDetected, HandleUnrecognized, Handling
    <3>2. \A d \in Devices :
           /\ connected'[d] \in {connected[d], 0} \/ (d = Dev /\ connected'[d] = Token)
           /\ pending'[d] \in {pending[d], 0} \/ (d = Dev /\ pending'[d] = Token)
      BY <2>3, <2>5 DEF HandleDetected, HandleUnrecognized, Types
    <3>3. \A d \in Devices : /\ connected'[d] \in Dates(d) \cup {0}
                             /\ pending'[d] \in Dates(d) \cup {0}
      BY <3>1, <3>2, OldDates
    <3>4. /\ clock' >= clock
          /\ \A d \in Devices : observer'[d].token \in {observer[d].token, 0}
      BY <2>1 DEF Types
    <3> QED BY <2>2, <3>3, <3>4, StaleIf
  <2> QED BY <1>9, <2>4, <2>5 DEF Loop
<1>10. ASSUME NEW i \in setup, Initialize(i) PROVE Stale
  <2>1. UNCHANGED loopVars /\ observer' = observer /\ clock' = clock
    BY <1>10 DEF Initialize, WriteManifest, Connect, GiveUp, besidesSetup
  <2>2. i.dev \in Devices
    BY DEF Types
  <2>3. \/ connected' = connected /\ pending' = pending
        \/ /\ connected' = [connected EXCEPT ![i.dev] = i.id]
           /\ pending' = [pending EXCEPT ![i.dev] = 0] /\ pending[i.dev] = i.id
    BY <1>10 DEF Initialize, WriteManifest, Connect, GiveUp, managerVars, Entry
  <2>4. \A d \in Devices : /\ connected'[d] \in {connected[d], pending[d]}
                           /\ pending'[d] \in {pending[d], 0}
    BY <2>2, <2>3 DEF Types
  <2>5. LineStep
    BY <2>1, LineKept DEF LineStep
  <2>6. \A d \in Devices : connected'[d] \in Dates(d) \cup {0} /\ pending'[d] \in Dates(d) \cup {0}
    BY <2>4, OldDates
  <2>7. \A d \in Devices : observer'[d].token \in {observer[d].token, 0}
    BY <2>1
  <2>8. clock' >= clock
    BY <2>1 DEF Types
  <2> QED BY <2>5, <2>6, <2>7, <2>8, StaleIf
<1> QED BY <1>2, <1>3, <1>4, <1>5, <1>6, <1>7, <1>8, <1>9, <1>10 DEF DestNext, Observe

(* The token of every event is a date of its device.                       *)
LEMMA LineDates ==
  ASSUME Types, NEW n \in 1 .. Len(Line), Line[n].token # 0
  PROVE  Line[n] \in Events /\ Line[n].dev \in Devices /\ Line[n].token \in Dates(Line[n].dev)
<1>1. Line \in Seq(Events)
  BY LineIs
<1>2. Line[n] \in Events
  BY <1>1, ElementOfSeq
<1> QED BY <1>2 DEF Dates, Events

LEMMA DatedKept == ASSUME Bounds, Types, Types', Dated, [DestNext]_destVars PROVE Dated'
<1>1. Line \in Seq(Events) /\ Len(Line) \in Nat
  BY LineIs
<1>2. CASE Stale
  <2>1. \A d \in Devices : Dates(d)' \subseteq 1 .. clock'
    BY <1>2 DEF Stale, Dated, Types
  <2>2. \A d, e \in Devices : d # e => Dates(d)' \cap Dates(e)' = {}
    BY <1>2 DEF Stale, Dated
  <2>3. ASSUME NEW n \in 1 .. Len(Line') PROVE Line'[n].token # 0
    <3>1. CASE Line' = Line
      BY <3>1 DEF Dated
    <3>2. CASE Line # <<>> /\ Line' = Tail(Line)
      <4>1. n + 1 \in 1 .. Len(Line) /\ Line'[n] = Line[n + 1]
        BY <1>1, <3>2, HeadTailProperties, EmptySeq
      <4> QED BY <4>1 DEF Dated
    <3>3. ASSUME NEW d \in Devices, NEW kind \in Kinds, Line' = Append(Line, Event(kind, d)),
                 observer[d].token # 0
          PROVE  Line'[n].token # 0
      <4> DEFINE e == Event(kind, d)
      <4>1. e \in Events /\ e.token # 0
        BY <3>3, EventTyped DEF Event
      <4> HIDE DEF e
      <4>2. /\ Len(Line') = Len(Line) + 1 /\ Line'[Len(Line) + 1] = e
            /\ \A m \in 1 .. Len(Line) : Line'[m] = Line[m]
        BY <1>1, <3>3, <4>1, AppendProperties DEF e
      <4>3. n = Len(Line) + 1 \/ n \in 1 .. Len(Line)
        BY <1>1, <4>2
      <4> QED BY <4>1, <4>2, <4>3 DEF Dated
    <3> QED BY <1>2, <3>1, <3>2, <3>3 DEF Stale, LineStep
  <2> QED BY <2>1, <2>2, <2>3 DEF Dated
<1>3. ASSUME NEW d \in Devices, Fresh(d) PROVE Dated'
  <2>1. clock + 1 \notin 1 .. clock /\ clock' = clock + 1 /\ clock \in Nat
    BY <1>3 DEF Fresh, Types
  <2>2. \A x \in Devices : Dates(x)' \subseteq 1 .. clock'
    BY <1>3, <2>1 DEF Fresh, Dated
  <2>3. \A x, e \in Devices : x # e => Dates(x)' \cap Dates(e)' = {}
    BY <1>3, <2>1 DEF Fresh, Dated
  <2>4. Line' = Line
    BY <1>3 DEF Fresh
  <2>5. \A n \in 1 .. Len(Line') : Line'[n].token # 0
    BY <2>4 DEF Dated
  <2> QED BY <2>2, <2>3, <2>5 DEF Dated
<1> QED BY <1>2, <1>3, DatesStep

LEMMA EndsKept == ASSUME Bounds, Types, Types', Dated, Ends, [DestNext]_destVars PROVE Ends'
<1>1. Line \in Seq(Events) /\ Len(Line) \in Nat
  BY LineIs
<1>2. ASSUME NEW n \in 1 .. Len(Line), NEW x \in Devices, Line[n].kind = "removed"
      PROVE  observer[x].token # Line[n].token
  BY <1>2 DEF Ends
<1>3. ASSUME NEW d \in Devices, Fresh(d) PROVE Ends'
  <2>1. Line' = Line /\ observer'[d].token = clock + 1
        /\ \A x \in Devices \ {d} : observer'[x] = observer[x]
    BY <1>3 DEF Fresh
  <2>2. \A n \in 1 .. Len(Line) : Line[n].token \in 1 .. clock
    BY LineDates DEF Dated
  <2>3. clock \in Nat
    BY DEF Types
  <2> SUFFICES ASSUME NEW n \in 1 .. Len(Line), Line[n].kind = "removed"
               PROVE  /\ \A m \in n + 1 .. Len(Line) : Line[m].token # Line[n].token
                      /\ \A x \in Devices : observer'[x].token # Line[n].token
    BY <2>1 DEF Ends
  <2>4. Line[n].token # clock + 1
    BY <2>2, <2>3
  <2> QED BY <2>1, <2>4 DEF Ends
<1>4. CASE Stale
  <2>1. \A x \in Devices : observer'[x].token \in {observer[x].token, 0}
    BY <1>4 DEF Stale
  <2>2. CASE Line' = Line
    <3> SUFFICES ASSUME NEW n \in 1 .. Len(Line), Line[n].kind = "removed"
                 PROVE  /\ \A m \in n + 1 .. Len(Line) : Line[m].token # Line[n].token
                        /\ \A x \in Devices : observer'[x].token # Line[n].token
      BY <2>2 DEF Ends
    <3>1. Line[n].token # 0
      BY DEF Dated
    <3> QED BY <2>1, <3>1 DEF Ends
  <2>3. CASE Line # <<>> /\ Line' = Tail(Line)
    <3>1. /\ Len(Line') = Len(Line) - 1 /\ Len(Line) \in Nat \ {0}
          /\ \A n \in 1 .. Len(Line') : Line'[n] = Line[n + 1]
      BY <1>1, <2>3, HeadTailProperties, EmptySeq
    <3> SUFFICES ASSUME NEW n \in 1 .. Len(Line'), Line'[n].kind = "removed"
                 PROVE  /\ \A m \in n + 1 .. Len(Line') : Line'[m].token # Line'[n].token
                        /\ \A x \in Devices : observer'[x].token # Line'[n].token
      BY DEF Ends
    <3>2. n + 1 \in 1 .. Len(Line) /\ Line[n + 1].kind = "removed" /\ Line'[n] = Line[n + 1]
      BY <3>1
    <3>3. Line[n + 1].token # 0
      BY <3>2 DEF Dated
    <3>4. \A x \in Devices : observer'[x].token # Line'[n].token
      BY <2>1, <3>2, <3>3 DEF Ends
    <3>5. ASSUME NEW m \in n + 1 .. Len(Line') PROVE Line'[m].token # Line'[n].token
      <4>1. m \in 1 .. Len(Line') /\ m + 1 \in n + 2 .. Len(Line) /\ Line'[m] = Line[m + 1]
        BY <3>1
      <4> QED BY <3>2, <4>1 DEF Ends
    <3> QED BY <3>4, <3>5
  <2>4. ASSUME NEW d \in Devices, NEW kind \in Kinds, Line' = Append(Line, Event(kind, d)),
               observer[d].token # 0, kind = "removed" => observer'[d].token = 0
        PROVE  Ends'
    <3> DEFINE e == Event(kind, d)
    <3>1. e \in Events /\ e.token = observer[d].token /\ e.kind = kind
      BY EventTyped DEF Event
    <3> HIDE DEF e
    <3>2. /\ Len(Line') = Len(Line) + 1 /\ Line'[Len(Line) + 1] = e
          /\ \A m \in 1 .. Len(Line) : Line'[m] = Line[m]
      BY <1>1, <2>4, <3>1, AppendProperties DEF e
    <3> SUFFICES ASSUME NEW n \in 1 .. Len(Line'), Line'[n].kind = "removed"
                 PROVE  /\ \A m \in n + 1 .. Len(Line') : Line'[m].token # Line'[n].token
                        /\ \A x \in Devices : observer'[x].token # Line'[n].token
      BY DEF Ends
    <3>3. CASE n \in 1 .. Len(Line)
      <4>1. Line'[n] = Line[n] /\ Line[n].kind = "removed" /\ Line[n].token # 0
        BY <3>2, <3>3 DEF Dated
      <4>2. \A x \in Devices : observer'[x].token # Line'[n].token
        BY <2>1, <3>3, <4>1 DEF Ends
      <4>3. ASSUME NEW m \in n + 1 .. Len(Line') PROVE Line'[m].token # Line'[n].token
        <5>1. CASE m = Len(Line) + 1
          BY <1>2, <3>1, <3>2, <3>3, <4>1, <5>1
        <5>2. CASE m \in n + 1 .. Len(Line)
          BY <3>2, <3>3, <4>1, <5>2 DEF Ends
        <5> QED BY <1>1, <3>2, <5>1, <5>2
      <4> QED BY <4>2, <4>3
    <3>4. CASE n = Len(Line) + 1
      <4>1. Line'[n] = e /\ kind = "removed" /\ observer'[d].token = 0
        BY <2>4, <3>1, <3>2, <3>4
      <4>2. ASSUME NEW x \in Devices PROVE observer'[x].token # e.token
        <5>1. CASE x = d
          BY <2>4, <3>1, <4>1, <5>1
        <5>2. CASE x # d /\ observer'[x].token # 0
          <6>1. observer[x].token \in Dates(x) /\ observer[d].token \in Dates(d)
            BY <2>1, <2>4, <5>2 DEF Dates
          <6>2. observer[x].token # observer[d].token
            BY <5>2, <6>1 DEF Dated
          <6> QED BY <2>1, <3>1, <5>2, <6>2
        <5> QED BY <2>4, <3>1, <5>1, <5>2
      <4>3. n + 1 .. Len(Line') = {}
        BY <1>1, <3>2, <3>4
      <4> QED BY <4>1, <4>2, <4>3
    <3> QED BY <1>1, <3>2, <3>3, <3>4
  <2> QED BY <1>4, <2>2, <2>3, <2>4 DEF Stale, LineStep
<1> QED BY <1>3, <1>4, DatesStep

LEMMA BuriedKept ==
  ASSUME Bounds, Types, Types', Dated, Ends, Buried, [DestNext]_destVars PROVE Buried'
<1>1. clock \in Nat /\ clock' \in Nat
  BY DEF Types
<1>2. CASE gone' = gone
  <2>1. CASE Stale
    BY <1>1, <1>2, <2>1 DEF Stale, Buried
  <2>2. ASSUME NEW d \in Devices, Fresh(d) PROVE Buried'
    BY <1>1, <1>2, <2>2 DEF Fresh, Buried
  <2> QED BY <2>1, <2>2, DatesStep
<1>3. CASE HandleRemoved
  <2> DEFINE t == handling[1].event.token
  <2>1. /\ handling # <<>> /\ handling' = <<>> /\ channel' = channel /\ observer' = observer
        /\ clock' = clock /\ gone' = gone \cup {t} /\ handling[1].event.kind = "removed"
        /\ connected' = [connected EXCEPT ![Dev] = 0] /\ pending' = [pending EXCEPT ![Dev] = 0]
    BY <1>3 DEF HandleRemoved, Handling, besidesManager
  <2>2. Dev \in Devices /\ t \in Dates(Dev) /\ t \in 1 .. clock
    BY <2>1, HandlingTyped, TokenDated
  <2>3. /\ Line # <<>> /\ Head(Line) = handling[1].event /\ Line' = Tail(Line)
        /\ Line \in Seq(Events)
    BY <2>1, LineServed, LineIs
  <2>4. /\ Len(Line) \in Nat \ {0} /\ Len(Line') = Len(Line) - 1 /\ Head(Line) = Line[1]
        /\ \A n \in 1 .. Len(Line') : Line'[n] = Line[n + 1]
    BY <2>3, HeadTailProperties, EmptySeq
  <2>5. /\ \A m \in 2 .. Len(Line) : Line[m].token # t
        /\ \A d \in Devices : observer[d].token # t
    <3>1. 1 \in 1 .. Len(Line) /\ Line[1].kind = "removed" /\ Line[1].token = t
      BY <2>1, <2>3, <2>4
    <3> QED BY <3>1 DEF Ends
  <2>6. ASSUME NEW d \in Devices PROVE t \notin Dates(d)' /\ Dates(d)' \subseteq Dates(d)
    <3>1. Dates(d)' \subseteq Dates(d)
      <4>1. Stale
        <5>1. ~(\E x \in Devices : Fresh(x))
          BY <1>1, <2>1 DEF Fresh
        <5> QED BY <5>1, DatesStep
      <4> QED BY <4>1 DEF Stale
    <3>2. CASE d # Dev
      <4>1. t \notin Dates(d)
        BY <2>2, <3>2 DEF Dated
      <4> QED BY <3>1, <4>1
    <3>3. CASE d = Dev
      <4>1. connected'[d] = 0 /\ pending'[d] = 0
        BY <2>1, <3>3 DEF Types
      <4>2. \A n \in 1 .. Len(Line') : Line'[n].token # t
        BY <2>4, <2>5
      <4>3. observer'[d].token # t /\ t # 0
        BY <2>1, <2>2, <2>5
      <4> QED BY <3>1, <4>1, <4>2, <4>3 DEF Dates
    <3> QED BY <3>2, <3>3
  <2> QED BY <2>1, <2>2, <2>6 DEF Buried
<1>4. gone' = gone \/ HandleRemoved
  BY DEF DestNext, destVars, Plug, Unplug, besidesWorld, LoseStorage, Observe, Vanish, Notice,
         besidesObserver, Identify, Probed, Reserve, besidesChoice, Loop, Take, HandleDetected,
         HandleUnrecognized, ReportDiscoveryFailure, Request, Select, Initialize, WriteManifest,
         Connect, GiveUp, besidesSetup
<1> QED BY <1>2, <1>3, <1>4

-----------------------------------------------------------------------------
(* Late arrivals.                                                          *)
LEMMA KnewKept ==
  ASSUME Types, NEW seen \in SUBSET Devices, NEW rest, rest \subseteq seen, NEW t, Knew(seen, t),
         Stale \/ \E d \in Devices : Fresh(d),
         \A d \in rest : observer'[d].token # 0
  PROVE  \A d \in rest : observer'[d].token # 0 /\ \A u \in Dates(d)' : u <= t
<1> SUFFICES ASSUME NEW d \in rest PROVE \A u \in Dates(d)' : u <= t
  OBVIOUS
<1>1. d \in Devices /\ observer[d].token # 0 /\ \A u \in Dates(d) : u <= t
  BY DEF Knew
<1>2. Dates(d)' \subseteq Dates(d)
  BY <1>1 DEF Stale, Fresh
<1> QED BY <1>1, <1>2

LEMMA KnewMore ==
  ASSUME Types, Dated, NEW seen \in SUBSET Devices, NEW t \in Nat, NEW u \in Nat,
         Knew(seen, t), t <= u
  PROVE  Knew(seen, u)
<1> SUFFICES ASSUME NEW d \in seen, NEW n \in Dates(d) PROVE n <= u
  BY DEF Knew
<1>1. n <= t /\ n \in Nat
  BY DEF Knew, Dated, Types
<1> QED BY <1>1

LEMMA YieldsIf ==
  ASSUME Types, Types', Yields, Stale \/ \E d \in Devices : Fresh(d),
         older' \subseteq older, latest' = latest,
         \A r \in requests' : \E q \in requests : r.token = q.token /\ r.seen \subseteq q.seen,
         \A d \in Devices : observer'[d].token = 0 =>
           \/ observer[d].token = 0
           \/ d \notin older' /\ \A r \in requests' : d \notin r.seen
  PROVE  Yields'
<1>1. Knew(older, latest) /\ older \subseteq Devices
  BY DEF Yields, Types
<1>2. \A d \in older' : observer'[d].token # 0
  BY <1>1 DEF Knew
<1>3. \A d \in older' : observer'[d].token # 0 /\ \A u \in Dates(d)' : u <= latest
  BY <1>1, <1>2, KnewKept
<1>4. ASSUME NEW r \in requests'
      PROVE  \A d \in r.seen : observer'[d].token # 0 /\ \A u \in Dates(d)' : u <= r.token
  <2>1. PICK q \in requests : r.token = q.token /\ r.seen \subseteq q.seen
    OBVIOUS
  <2>2. q.seen \in SUBSET Devices /\ Knew(q.seen, q.token)
    BY DEF Types, IsRequest, Yields
  <2>3. \A d \in r.seen : observer'[d].token # 0
    BY <2>1, <2>2 DEF Knew
  <2>4. \A d \in r.seen : observer'[d].token # 0 /\ \A u \in Dates(d)' : u <= q.token
    BY <2>1, <2>2, <2>3, KnewKept
  <2> QED BY <2>1, <2>4
<1> QED BY <1>3, <1>4 DEF Yields, Knew

LEMMA StillKnew ==
  ASSUME Types, Yields, Stale \/ \E d \in Devices : Fresh(d), observer' = observer
  PROVE  /\ \A d \in older : observer'[d].token # 0 /\ \A u \in Dates(d)' : u <= latest
         /\ \A r \in requests : \A d \in r.seen :
              observer'[d].token # 0 /\ \A u \in Dates(d)' : u <= r.token
<1>1. \A d \in older : observer'[d].token # 0 /\ \A u \in Dates(d)' : u <= latest
  <2>1. older \in SUBSET Devices /\ Knew(older, latest)
    BY DEF Types, Yields
  <2>2. \A d \in older : observer'[d].token # 0
    BY <2>1 DEF Knew
  <2> QED BY <2>1, <2>2, KnewKept
<1>2. ASSUME NEW r \in requests
      PROVE  \A d \in r.seen : observer'[d].token # 0 /\ \A u \in Dates(d)' : u <= r.token
  <2>1. r.seen \in SUBSET Devices /\ Knew(r.seen, r.token)
    BY DEF Types, IsRequest, Yields
  <2>2. \A d \in r.seen : observer'[d].token # 0
    BY <2>1 DEF Knew
  <2> QED BY <2>1, <2>2, KnewKept
<1> QED BY <1>1, <1>2

LEMMA YieldsKept ==
  ASSUME Bounds, Types, Types', Dated, Yields, [DestNext]_destVars PROVE Yields'
<1>0. Stale \/ \E d \in Devices : Fresh(d)
  BY DatesStep
<1>1. ASSUME UNCHANGED <<requests, older, latest>>,
             \A d \in Devices : observer'[d].token = 0 => observer[d].token = 0
      PROVE  Yields'
  BY <1>0, <1>1, YieldsIf
<1>2. CASE UNCHANGED destVars
  BY <1>1, <1>2 DEF destVars, managerVars, windowVars
<1>3. ASSUME NEW d \in Devices, Plug(d) \/ Unplug(d) \/ Reserve(d) PROVE Yields'
  BY <1>1, <1>3
     DEF Plug, Unplug, Reserve, besidesWorld, besidesChoice, managerVars, windowVars
<1>4. ASSUME NEW d \in Devices, Notice(d) PROVE Yields'
  <2>1. UNCHANGED <<requests, older, latest>>
    BY <1>4 DEF Notice, besidesObserver, managerVars, windowVars
  <2>2. \A x \in Devices : observer'[x].token = 0 => observer[x].token = 0
    <3>1. \A x \in Devices \ {d} : observer'[x] = observer[x]
      BY <1>4 DEF Notice, Types
    <3>2. observer'[d].token = IF observer[d].token = 0 THEN NextToken ELSE observer[d].token
      BY <1>4 DEF Notice, Types
    <3> QED BY <3>1, <3>2 DEF NextToken, Types
  <2> QED BY <1>1, <2>1, <2>2
<1>5. ASSUME NEW d \in Devices, Identify(d) PROVE Yields'
  <2>1. PICK kind : Probed(d, kind)
    BY <1>5 DEF Identify
  <2> QED BY <1>1, <2>1 DEF Probed, managerVars, windowVars, Types
<1>6. ASSUME NEW d \in Devices, LoseStorage(d) \/ Vanish(d) PROVE Yields'
  <2>1. Forget(d) /\ latest' = latest
    BY <1>6 DEF LoseStorage, Vanish, managerVars
  <2>2. \A x \in Devices \ {d} : observer'[x] = observer[x]
    BY <2>1 DEF Forget, Types
  <2>3. older' = older \ {d}
    BY <2>1 DEF Forget
  <2>4. ASSUME NEW r \in requests'
        PROVE  d \notin r.seen /\ \E q \in requests : r.token = q.token /\ r.seen \subseteq q.seen
    <3>1. PICK q \in requests : r = [q EXCEPT !.seen = @ \ {d}]
      BY <2>1 DEF Forget
    <3>2. q = [target |-> q.target, token |-> q.token, seen |-> q.seen]
      BY DEF Types, IsRequest
    <3>3. r = [target |-> q.target, token |-> q.token, seen |-> q.seen \ {d}]
      BY <3>1, <3>2
    <3> QED BY <3>3
  <2> QED BY <1>0, <2>1, <2>2, <2>3, <2>4, YieldsIf
<1>7. CASE Take \/ ReportDiscoveryFailure
  BY <1>1, <1>7 DEF Take, ReportDiscoveryFailure, besidesManager, managerVars, windowVars
<1>8. CASE HandleDetected \/ HandleUnrecognized
  <2>1. /\ requests' = requests /\ older' = older /\ observer' = observer
        /\ latest' = latest \/ (latest' = Token /\ Token > latest)
    BY <1>8 DEF HandleDetected, HandleUnrecognized, besidesManager, windowVars, Follow
  <2>2. CASE latest' = latest
    BY <1>1, <2>1, <2>2
  <2>3. CASE latest' = Token /\ Token > latest
    <3>1. latest \in Nat /\ Token \in Nat /\ older \in SUBSET Devices
      <4>1. handling # <<>>
        BY <1>8 DEF HandleDetected, HandleUnrecognized, Handling
      <4>2. Token \in Nat
        BY <4>1, HandlingTyped
      <4>3. latest \in 0 .. clock /\ clock \in Nat /\ older \in SUBSET Devices
        BY DEF Types
      <4> QED BY <4>2, <4>3
    <3>2. Knew(older, Token)
      BY <2>3, <3>1, KnewMore DEF Yields
    <3>3. \A d \in older : observer'[d].token # 0
      BY <2>1 DEF Yields, Knew
    <3>4. \A d \in older : observer'[d].token # 0 /\ \A u \in Dates(d)' : u <= Token
      BY <1>0, <3>1, <3>2, <3>3, KnewKept
    <3>5. ASSUME NEW r \in requests
          PROVE  \A d \in r.seen : observer'[d].token # 0 /\ \A u \in Dates(d)' : u <= r.token
      BY <1>0, <2>1, StillKnew
    <3> QED BY <2>1, <2>3, <3>4, <3>5 DEF Yields, Knew
  <2> QED BY <2>1, <2>2, <2>3
<1>9. CASE HandleRemoved
  <2>1. /\ requests' = requests /\ observer' = observer
        /\ (older' = older /\ latest' = latest) \/ older' = {}
    BY <1>9 DEF HandleRemoved, besidesManager, windowVars
  <2>2. CASE older' = older /\ latest' = latest
    BY <1>1, <2>1, <2>2
  <2>3. CASE older' = {}
    <3>1. ASSUME NEW r \in requests
          PROVE  \A d \in r.seen : observer'[d].token # 0 /\ \A u \in Dates(d)' : u <= r.token
      BY <1>0, <2>1, StillKnew
    <3> QED BY <2>1, <2>3, <3>1 DEF Yields, Knew
  <2> QED BY <2>1, <2>2, <2>3
<1>10. ASSUME NEW target, Request(target) PROVE Yields'
  <2> DEFINE seen == {d \in Devices : observer[d] # Unseen}
             n == NextToken
             q == [target |-> target, token |-> n, seen |-> seen]
  <2>1. /\ requests' = requests \cup {q} /\ observer' = observer /\ older' = older
        /\ latest' = latest
    BY <1>10 DEF Request, besidesChoice
  <2>2. Knew(seen, n)
    BY DEF Knew, NextToken, Types, Dated
  <2>3. seen \in SUBSET Devices /\ q.seen = seen /\ q.token = n
    OBVIOUS
  <2>4. ASSUME NEW r \in requests'
        PROVE  \A d \in r.seen : observer'[d].token # 0 /\ \A u \in Dates(d)' : u <= r.token
    <3>1. r.seen \in SUBSET Devices /\ Knew(r.seen, r.token)
      BY <2>1, <2>2, <2>3 DEF Types, IsRequest, Yields
    <3>2. \A d \in r.seen : observer'[d].token # 0
      BY <2>1, <3>1 DEF Knew
    <3> QED BY <1>0, <3>1, <3>2, KnewKept
  <2>5. \A d \in older : observer'[d].token # 0 /\ \A u \in Dates(d)' : u <= latest
    BY <1>0, <2>1, StillKnew
  <2> QED BY <2>1, <2>4, <2>5 DEF Yields, Knew
<1>11. ASSUME NEW q \in requests, Select(q) PROVE Yields'
  <2>1. /\ requests' \subseteq requests /\ observer' = observer
        /\ \/ older' = older /\ latest' = latest
           \/ older' = q.seen /\ latest' = q.token
    BY <1>11 DEF Select, besidesChoice
  <2>2. ASSUME NEW r \in requests
        PROVE  \A d \in r.seen : observer'[d].token # 0 /\ \A u \in Dates(d)' : u <= r.token
    BY <1>0, <2>1, StillKnew
  <2>3. \A d \in older : observer'[d].token # 0 /\ \A u \in Dates(d)' : u <= latest
    BY <1>0, <2>1, StillKnew
  <2> QED BY <2>1, <2>2, <2>3 DEF Yields, Knew
<1>12. ASSUME NEW i \in setup, Initialize(i) PROVE Yields'
  BY <1>1, <1>12 DEF Initialize, WriteManifest, Connect, GiveUp, besidesSetup, managerVars
<1> QED BY <1>2, <1>3, <1>4, <1>5, <1>6, <1>7, <1>8, <1>9, <1>10, <1>11, <1>12
        DEF DestNext, Observe, Loop

-----------------------------------------------------------------------------
(* What is selected stands.                                                *)
LEMMA Targets3 ==
  \A d, e, t, u : /\ Device(d) # Playback /\ Pending(t) # Playback /\ Device(d) # Pending(t)
                  /\ Device(d) = Device(e) => d = e
                  /\ Pending(t) = Pending(u) => t = u
BY DEF Device, Pending, Playback

LEMMA StandsSame ==
  ASSUME SelectionStands, OneEntry, UNCHANGED <<connected, pending, selected>>
  PROVE  SelectionStands' /\ OneEntry'
BY DEF SelectionStands, OneEntry, Selectable

(* An arrival is entered where nothing was shown.                          *)
LEMMA ArrivalIsNew ==
  ASSUME Types, Paired, Dated, HandleDetected \/ HandleUnrecognized
  PROVE  Dev \in Devices /\ Token \in Nat \ {0} /\ connected[Dev] = 0 /\ pending[Dev] = 0
<1>1. /\ handling # <<>> /\ handling' = <<>> /\ channel' = channel
      /\ handling[1].event.kind \in Arrivals
  BY DEF HandleDetected, HandleUnrecognized, Handling, Arrivals, besidesManager
<1>2. Dev \in Devices /\ Token \in Nat \ {0}
  BY <1>1, HandlingTyped, TokenDated
<1>3. Line # <<>> /\ Head(Line) = handling[1].event
  BY <1>1, LineServed
<1>4. Head(Line).dev = Dev
  BY <1>3 DEF Dev
<1>5. ~Shown(Dev)
  BY <1>1, <1>2, <1>3, <1>4, HeadIsNew
<1> QED BY <1>2, <1>5 DEF Shown

LEMMA StandsKept ==
  ASSUME Bounds, Types, Paired, Dated, SelectionStands, OneEntry, [DestNext]_destVars
  PROVE  SelectionStands' /\ OneEntry'
<1>1. CASE UNCHANGED <<connected, pending, selected>>
  BY <1>1, StandsSame
<1>2. CASE HandleDetected
  <2>1. Dev \in Devices /\ Token \in Nat \ {0} /\ connected[Dev] = 0 /\ pending[Dev] = 0
    BY <1>2, ArrivalIsNew
  <2> DEFINE d == Dev
             t == Token
  <2>2. /\ connected' = [connected EXCEPT ![d] = t] /\ pending' = [pending EXCEPT ![d] = 0]
        /\ selected' = Device(d) \/ selected' = selected
    BY <1>2 DEF HandleDetected, Follow
  <2>3. d \in Devices /\ t \in Nat \ {0} /\ connected[d] = 0 /\ pending[d] = 0
    BY <2>1
  <2> HIDE DEF d, t
  <2>4. /\ connected'[d] = t /\ \A x \in Devices \ {d} : connected'[x] = connected[x]
        /\ pending' = pending
    BY <2>2, <2>3 DEF Types
  <2>5. \E x : x = d
    OBVIOUS
  <2>6. PICK x \in Devices : x = d
    BY <2>3
  <2>7. SelectionStands'
    BY <2>2, <2>3, <2>4, <2>6, Targets3 DEF SelectionStands, Selectable
  <2> QED BY <2>3, <2>4, <2>6, <2>7 DEF OneEntry
<1>3. CASE HandleUnrecognized
  <2>1. Dev \in Devices /\ Token \in Nat \ {0} /\ connected[Dev] = 0 /\ pending[Dev] = 0
    BY <1>3, ArrivalIsNew
  <2>2. PICK d \in Devices, t \in Nat \ {0} : d = Dev /\ t = Token
    BY <2>1
  <2>3. /\ connected' = [connected EXCEPT ![d] = 0] /\ pending' = [pending EXCEPT ![d] = t]
        /\ selected' = Pending(t) \/ selected' = selected
    BY <1>3, <2>2 DEF HandleUnrecognized, Follow
  <2>4. connected[d] = 0 /\ pending[d] = 0
    BY <2>1, <2>2
  <2>5. /\ pending'[d] = t /\ \A x \in Devices \ {d} : pending'[x] = pending[x]
        /\ connected' = connected
    BY <2>3, <2>4 DEF Types
  <2>6. SelectionStands'
    BY <2>3, <2>4, <2>5, Targets3 DEF SelectionStands, Selectable
  <2> QED BY <2>4, <2>5, <2>6 DEF OneEntry
<1>4. CASE HandleRemoved
  <2>1. handling # <<>>
    BY <1>4 DEF HandleRemoved, Handling
  <2>2. PICK d \in Devices : d = Dev
    BY <2>1, HandlingTyped
  <2>3. /\ connected' = [connected EXCEPT ![d] = 0] /\ pending' = [pending EXCEPT ![d] = 0]
        /\ IF Lost(d) THEN selected' = Playback ELSE selected' = selected
    BY <1>4, <2>2 DEF HandleRemoved
  <2>4. /\ connected'[d] = 0 /\ pending'[d] = 0
        /\ \A x \in Devices \ {d} : connected'[x] = connected[x] /\ pending'[x] = pending[x]
    BY <2>3 DEF Types
  <2>5. SelectionStands'
    BY <2>3, <2>4, Targets3 DEF SelectionStands, Selectable, Lost
  <2> QED BY <2>4, <2>5 DEF OneEntry
<1>5. ASSUME NEW r \in requests, Select(r) PROVE SelectionStands' /\ OneEntry'
  BY <1>5 DEF Select, besidesChoice, SelectionStands, OneEntry, Selectable
<1>6. ASSUME NEW i \in setup, Connect(i) PROVE SelectionStands' /\ OneEntry'
  <2>1. PICK d \in Devices, t \in Nat \ {0} : d = i.dev /\ t = i.id
    BY DEF Types
  <2>2. /\ connected' = [connected EXCEPT ![d] = t] /\ pending' = [pending EXCEPT ![d] = 0]
        /\ pending[d] = t /\ selected' = IF selected = Pending(t) THEN Device(d) ELSE selected
    BY <1>6, <2>1 DEF Connect, Entry
  <2>3. /\ connected'[d] = t /\ pending'[d] = 0
        /\ \A x \in Devices \ {d} : connected'[x] = connected[x] /\ pending'[x] = pending[x]
    BY <2>2 DEF Types
  <2>4. SelectionStands'
    BY <2>2, <2>3, Targets3 DEF SelectionStands, Selectable
  <2> QED BY <2>3, <2>4 DEF OneEntry
<1>7. \/ UNCHANGED <<connected, pending, selected>>
      \/ HandleDetected \/ HandleUnrecognized \/ HandleRemoved
      \/ (\E r \in requests : Select(r)) \/ \E i \in setup : Connect(i)
  <2>1. CASE UNCHANGED destVars
    BY <2>1 DEF destVars, managerVars
  <2>2. ASSUME NEW d \in Devices, Plug(d) \/ Unplug(d) PROVE UNCHANGED managerVars
    BY <2>2 DEF Plug, Unplug, besidesWorld
  <2>3. ASSUME NEW d \in Devices, LoseStorage(d) \/ Vanish(d) PROVE UNCHANGED managerVars
    BY <2>3 DEF LoseStorage, Vanish
  <2>4. ASSUME NEW d \in Devices, Notice(d) \/ Identify(d) PROVE UNCHANGED managerVars
    BY <2>4 DEF Notice, besidesObserver, Identify, Probed
  <2>5. ASSUME NEW d \in Devices, Reserve(d) PROVE UNCHANGED <<connected, pending, selected>>
    BY <2>5 DEF Reserve, besidesChoice
  <2>6. CASE Take \/ ReportDiscoveryFailure
    BY <2>6 DEF Take, ReportDiscoveryFailure, managerVars
  <2>7. ASSUME NEW target, Request(target) PROVE UNCHANGED <<connected, pending, selected>>
    BY <2>7 DEF Request, besidesChoice
  <2>8. ASSUME NEW i \in setup, WriteManifest(i) \/ GiveUp(i) PROVE UNCHANGED managerVars
    BY <2>8 DEF WriteManifest, GiveUp
  <2>9. UNCHANGED managerVars => UNCHANGED <<connected, pending, selected>>
    BY DEF managerVars
  <2>10. CASE DestNext
    <3>1. CASE \E d \in Devices : Plug(d) \/ Unplug(d) \/ LoseStorage(d) \/ Observe(d) \/ Reserve(d)
      BY <2>2, <2>3, <2>4, <2>5, <2>9, <3>1 DEF Observe
    <3>2. CASE Loop
      BY <2>6, <3>2 DEF Loop
    <3>3. CASE \E target \in Targets : Request(target)
      BY <2>7, <3>3
    <3>4. CASE \E r \in requests : Select(r)
      BY <3>4
    <3>5. CASE \E i \in setup : Initialize(i)
      BY <2>8, <2>9, <3>5 DEF Initialize
    <3> QED BY <2>10, <3>1, <3>2, <3>3, <3>4, <3>5 DEF DestNext
  <2> QED BY <2>1, <2>10
<1> QED BY <1>1, <1>2, <1>3, <1>4, <1>5, <1>6, <1>7

-----------------------------------------------------------------------------
LEMMA StandingStarts == ASSUME Bounds, DestInit PROVE Standing
<1>1. /\ clock = 0 /\ channel = <<>> /\ handling = <<>> /\ gone = {} /\ older = {} /\ requests = {}
      /\ selected = Playback
      /\ \A d \in Devices : connected[d] = 0 /\ pending[d] = 0 /\ observer[d] = Unseen
  BY DEF DestInit
<1>2. Types
  BY DEF DestInit, Types, Unseen, Bounds
<1>3. Line = <<>> /\ Len(Line) = 0
  BY <1>1, <1>2, LineIs
<1>4. \A d \in Devices : Dates(d) = {}
  BY <1>1, <1>3 DEF Dates, Unseen
<1>5. ASSUME NEW d \in Devices PROVE Alternates(d, Line, Shown(d), Open(d))
  BY <1>1, <1>3 DEF Alternates, Arrives, Shown
<1>6. Paired /\ Dated /\ Ends /\ Buried
  BY <1>1, <1>3, <1>4, <1>5 DEF Paired, Dated, Ends, Buried
<1>7. Yields
  BY <1>1 DEF Yields, Knew
<1>8. SelectionStands /\ OneEntry
  BY <1>1 DEF SelectionStands, Selectable, OneEntry
<1> QED BY <1>2, <1>6, <1>7, <1>8 DEF Standing

LEMMA StandingIsKept == ASSUME Bounds, Standing, [DestNext]_destVars PROVE Standing'
<1>1. Types /\ Paired /\ Dated /\ Ends /\ Buried /\ Yields /\ SelectionStands /\ OneEntry
  BY DEF Standing
<1>2. Types'
  BY <1>1, TypesKept
<1>3. Paired' /\ Dated' /\ Ends' /\ Buried' /\ Yields'
  BY <1>1, <1>2, PairedKept, DatedKept, EndsKept, BuriedKept, YieldsKept
<1>4. SelectionStands' /\ OneEntry'
  BY <1>1, StandsKept
<1> QED BY <1>2, <1>3, <1>4 DEF Standing

LEMMA StandingMeans == ASSUME Bounds, Standing PROVE EntriesStand
<1>1. \A d \in Devices : /\ observer[d].token \in 0 .. clock
                         /\ connected[d] \in 0 .. clock /\ pending[d] \in 0 .. clock
  <2> SUFFICES ASSUME NEW d \in Devices
               PROVE  /\ observer[d].token \in 0 .. clock
                      /\ connected[d] \in 0 .. clock /\ pending[d] \in 0 .. clock
    OBVIOUS
  <2>1. Dates(d) \subseteq 1 .. clock /\ clock \in Nat
    BY DEF Standing, Dated, Types
  <2>2. /\ observer[d].token # 0 => observer[d].token \in Dates(d)
        /\ connected[d] # 0 => connected[d] \in Dates(d)
        /\ pending[d] # 0 => pending[d] \in Dates(d)
    BY DEF Dates
  <2> QED BY <2>1, <2>2
<1>2. Len(handling) <= 1
  <2>1. handling = <<>> \/ \E h : handling = <<h>>
    BY DEF Standing, Types
  <2>2. CASE handling = <<>>
    BY <2>2
  <2>3. ASSUME NEW h, handling = <<h>> PROVE Len(handling) = 1
    BY <2>3
  <2> QED BY <2>1, <2>2, <2>3
<1>3. DestTypeOK
  BY <1>1, <1>2 DEF Standing, Types, DestTypeOK
<1>4. NoGhost
  <2>1. 0 \notin gone
    BY DEF Standing, Buried, Types
  <2> QED BY <2>1 DEF Standing, Buried, Dates, NoGhost
<1> QED BY <1>3, <1>4 DEF Standing, EntriesStand

(* What is selected can be used, a device has one entry, and no arrival    *)
(* comes back after its removal (device/mod.rs, main.rs).                  *)
THEOREM EntriesAlwaysStand == ASSUME Bounds PROVE DestSpec => []EntriesStand
<1>1. DestInit => Standing
  BY StandingStarts
<1>2. Standing /\ [DestNext]_destVars => Standing'
  BY StandingIsKept
<1>3. Standing => EntriesStand
  BY StandingMeans
<1> QED BY <1>1, <1>2, <1>3, PTL DEF DestSpec

(* An arrival that an observer knew of when the user chose does not take   *)
(* the selection away, however long its probe took.                        *)
THEOREM ArrivalsYield == ASSUME Bounds PROVE DestSpec => LateArrivalYields
<1>1. DestInit => Standing
  BY StandingStarts
<1>2. Standing /\ [DestNext]_destVars => Standing'
  BY StandingIsKept
<1>3. ASSUME Standing, HandleDetected \/ HandleUnrecognized, Dev \in older
      PROVE  selected' = selected
  <2>1. Types /\ Dated /\ Knew(older, latest)
    BY <1>3 DEF Standing, Yields
  <2>2. handling # <<>> /\ handling[1].event.kind # "removed"
    BY <1>3 DEF HandleDetected, HandleUnrecognized, Handling
  <2>3. Token \in Dates(Dev) /\ Token \in Nat /\ latest \in Nat
    <3>1. Token = handling[1].event.token /\ Token \in Nat
      BY <2>1, <2>2, HandlingTyped
    <3>2. handling[1].event.token \in Dates(Dev)
      BY <2>1, <2>2, TokenDated
    <3>3. latest \in 0 .. clock /\ clock \in Nat
      BY <2>1 DEF Types
    <3> QED BY <3>1, <3>2, <3>3
  <2>4. Token <= latest
    BY <1>3, <2>1, <2>3 DEF Knew
  <2>5. ~(Token > latest)
    BY <2>3, <2>4
  <2> QED BY <1>3, <2>5 DEF HandleDetected, HandleUnrecognized, Follow
<1>4. Standing /\ [DestNext]_destVars =>
        [(HandleDetected \/ HandleUnrecognized) /\ Dev \in older => selected' = selected]_destVars
  BY <1>3
<1> QED BY <1>1, <1>2, <1>4, PTL DEF DestSpec, LateArrivalYields
=============================================================================
