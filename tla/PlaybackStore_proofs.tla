------------------------- MODULE PlaybackStore_proofs -------------------------
(***************************************************************************)
(* What the player's transactions do to a disk that restore accepts: each  *)
(* one that is not refused leaves such a disk, whatever the queue.         *)
(***************************************************************************)
EXTENDS PlaybackStore, QueueLemmas

(* What is said of a session that has something to play.                   *)
Stirring == {"paused", "buffering", "playing"}

DiskFields == {"ord", "cur", "pos", "rev", "st", "act", "stray", "done", "out", "aud"}
AuditionFields == {"id", "st", "pos", "saved", "inhibited"}

(* A queue that restore accepts, no attempt that nobody owns, and the      *)
(* current occurrence listened to or being listened to.                    *)
Audition(a) ==
  /\ DOMAIN a = AuditionFields /\ DOMAIN a.saved = {"cur", "pos", "st"}
  /\ a.id \in Nat \ {NoOcc} /\ a.st \in Stirring /\ SavedOK(a.saved)

Stored(d) ==
  /\ DOMAIN d = DiskFields /\ d.ord \in Seq(Nat \ {NoOcc}) /\ d.rev \in Nat
  /\ d.cur # NoOcc => d.rev > 0
  /\ ValidSession(d)
  /\ ~d.stray
  /\ d.cur # NoOcc => d.act = d.cur \/ d.cur \in d.done \cap d.out
  /\ d.aud = NoAud \/ Audition(d.aud)

(* A session row that may stand over these rows.                           *)
Stands(s, rows) ==
  /\ s.rev \in Nat /\ (s.cur # NoOcc => s.rev > 0)
  /\ IF rows = <<>> THEN s.cur = NoOcc /\ s.st = "idle" /\ s.pos = 0
     ELSE s.cur # NoOcc /\ s.cur \in ToSet(rows) /\ s.st \in Stirring

(* The disk v holds the session s, and the audition as before.             *)
Holds(v, s) == Stored(v) /\ v.cur = s.cur /\ v.rev = s.rev

-----------------------------------------------------------------------------
(* The rows.                                                               *)
LEMMA Elements ==
  ASSUME NEW S, NEW q \in Seq(S), NEW e
  PROVE  e \in ToSet(q) <=> \E n \in 1..Len(q) : q[n] = e
BY DEF ToSet

LEMMA Injective ==
  ASSUME NEW S, NEW q \in Seq(S) PROVE IsInjective(q) <=> Distinct(q)
BY DEF IsInjective, Distinct

LEMMA PlaceOf ==
  ASSUME NEW d, NEW S, d.ord \in Seq(S), NEW e \in ToSet(d.ord)
  PROVE  Place(d, e) \in 1..Len(d.ord) /\ d.ord[Place(d, e)] = e
<1>1. \E n \in 1..Len(d.ord) : d.ord[n] = e
  BY Elements
<1> QED BY <1>1 DEF Place

LEMMA UpcomingParts ==
  ASSUME NEW d, NEW S, d.ord \in Seq(S), NEW e
  PROVE  /\ Upcoming(d, e) \in Seq(S)
         /\ e \notin ToSet(d.ord) => Upcoming(d, e) = <<>>
         /\ e \in ToSet(d.ord) =>
              /\ Len(Upcoming(d, e)) = Len(d.ord) - Place(d, e)
              /\ \A n \in 1..(Len(d.ord) - Place(d, e)) :
                   Upcoming(d, e)[n] = d.ord[n + Place(d, e)]
<1>1. CASE e \notin ToSet(d.ord)
  BY <1>1 DEF Upcoming
<1>2. CASE e \in ToSet(d.ord)
  <2> DEFINE p == Place(d, e)
             q == d.ord
  <2>1. p \in 1..Len(q) /\ q \in Seq(S)
    BY <1>2, PlaceOf
  <2>2. Upcoming(d, e) = SubSeq(q, p + 1, Len(q))
    BY <1>2 DEF Upcoming
  <2> HIDE DEF p, q
  <2>3. /\ SubSeq(q, p + 1, Len(q)) \in Seq(S)
        /\ Len(SubSeq(q, p + 1, Len(q))) = Len(q) - p
        /\ \A n \in 1..(Len(q) - p) : SubSeq(q, p + 1, Len(q))[n] = q[n + p]
    BY <2>1, SubSeqProperties
  <2> QED BY <1>2, <2>2, <2>3 DEF p, q
<1> QED BY <1>1, <1>2

(* An upcoming row is one of the queue, behind the occurrence.             *)
LEMMA UpcomingIn ==
  ASSUME NEW d, NEW S, d.ord \in Seq(S), IsInjective(d.ord), NEW e,
         NEW occ \in ToSet(Upcoming(d, e))
  PROVE  occ \in ToSet(d.ord) /\ occ # e /\ e \in ToSet(d.ord)
<1> DEFINE q == d.ord
           p == Place(d, e)
           u == Upcoming(d, e)
<1>1. PICK n \in 1..Len(u) : u[n] = occ
  BY UpcomingParts, Elements
<1>2. e \in ToSet(q)
  BY <1>1, UpcomingParts
<1>3. p \in 1..Len(q) /\ q[p] = e
  BY <1>2, PlaceOf
<1>4. n + p \in 1..Len(q) /\ n + p # p /\ q[n + p] = occ
  <2>1. Len(u) = Len(q) - p /\ \A m \in 1..(Len(q) - p) : u[m] = q[m + p]
    BY <1>2, UpcomingParts
  <2>2. n \in 1..(Len(q) - p)
    BY <1>1, <2>1
  <2>3. Len(q) \in Nat
    OBVIOUS
  <2> HIDE DEF u, p, q
  <2> QED BY <1>1, <1>3, <2>1, <2>2, <2>3
<1>5. Distinct(q)
  BY Injective
<1> QED BY <1>2, <1>3, <1>4, <1>5, Elements DEF Distinct

LEMMA SuccessorIn ==
  ASSUME NEW d, NEW S, d.ord \in Seq(S), IsInjective(d.ord), NEW e, Successor(d, e) # NoOcc
  PROVE  Successor(d, e) \in ToSet(d.ord) /\ Successor(d, e) # e /\ e \in ToSet(d.ord)
<1> DEFINE u == Upcoming(d, e)
<1>1. u \in Seq(S)
  BY UpcomingParts
<1>2. u # <<>> /\ Successor(d, e) = Head(u)
  BY DEF Successor
<1> HIDE DEF u
<1>3. Head(u) \in ToSet(u)
  BY <1>1, <1>2, Elements
<1> QED BY <1>2, <1>3, UpcomingIn DEF u

LEMMA PredecessorIn ==
  ASSUME NEW d, NEW S, d.ord \in Seq(S), NEW e, Predecessor(d, e) # NoOcc
  PROVE  Predecessor(d, e) \in ToSet(d.ord)
<1>1. e \in ToSet(d.ord) /\ Place(d, e) > 1 /\ Predecessor(d, e) = d.ord[Place(d, e) - 1]
  BY DEF Predecessor
<1>2. Place(d, e) \in 1..Len(d.ord)
  BY <1>1, PlaceOf
<1>3. Place(d, e) - 1 \in 1..Len(d.ord)
  BY <1>1, <1>2
<1> QED BY <1>1, <1>3, Elements

(* The successor depends on the rows alone.                                *)
LEMMA SuccessorRows ==
  ASSUME NEW d, NEW c, c.ord = d.ord, NEW e PROVE Successor(c, e) = Successor(d, e)
BY DEF Successor, Upcoming, Place

-----------------------------------------------------------------------------
(* The parts a transaction is made of.                                     *)
LEMMA NotRefused == ASSUME NEW d, DOMAIN d = DiskFields PROVE d # Refused
BY DEF DiskFields, Refused

LEMMA UpdateParts ==
  ASSUME NEW d, DOMAIN d = DiskFields, NEW s, NEW v, v = Update(d, s)
  PROVE  /\ DOMAIN v = DiskFields /\ v.ord = d.ord /\ v.act = d.act /\ v.stray = d.stray
         /\ v.done = d.done /\ v.out = d.out /\ v.aud = d.aud
         /\ v.cur = s.cur /\ v.pos = s.pos /\ v.rev = s.rev /\ v.st = s.st
BY DEF DiskFields, Update

LEMMA CloseParts ==
  ASSUME NEW d, DOMAIN d = DiskFields, NEW v, v = CloseActive(d)
  PROVE  /\ DOMAIN v = DiskFields /\ v.ord = d.ord /\ v.stray = d.stray
         /\ v.out = d.out /\ v.aud = d.aud
         /\ v.cur = d.cur /\ v.pos = d.pos /\ v.rev = d.rev /\ v.st = d.st
         /\ v.act = NoOcc /\ d.done \subseteq v.done
         /\ d.act # NoOcc => d.act \in v.done
BY DEF DiskFields, CloseActive

LEMMA OpenParts ==
  ASSUME NEW d, DOMAIN d = DiskFields, NEW occ, NEW v, v = OpenOn(d, occ)
  PROVE  /\ DOMAIN v = DiskFields /\ v.ord = d.ord
         /\ v.done = d.done /\ v.out = d.out /\ v.aud = d.aud
         /\ v.cur = d.cur /\ v.pos = d.pos /\ v.rev = d.rev /\ v.st = d.st
         /\ v.act = occ /\ (v.stray <=> d.stray \/ d.act # NoOcc)
BY DEF DiskFields, OpenOn

(* The current attempt closed and another opened on a row that is there.   *)
LEMMA Reopened ==
  ASSUME NEW d, Stored(d), NEW s, Stands(s, d.ord), d.ord # <<>>,
         NEW v, v = OpenOn(Update(CloseActive(d), s), s.cur)
  PROVE  /\ Holds(v, s) /\ v.ord = d.ord /\ v.aud = d.aud /\ v.act = s.cur
         /\ d.cur \in v.done
<1> DEFINE c == CloseActive(d)
           u == Update(c, s)
<1>1. /\ DOMAIN c = DiskFields /\ c.ord = d.ord /\ c.stray = d.stray
      /\ c.aud = d.aud /\ c.act = NoOcc /\ d.done \subseteq c.done
      /\ d.act # NoOcc => d.act \in c.done
  BY CloseParts DEF Stored
<1>2. v = OpenOn(u, s.cur)
  OBVIOUS
<1> HIDE DEF c
<1>3. /\ DOMAIN u = DiskFields /\ u.ord = c.ord /\ u.stray = c.stray
      /\ u.done = c.done /\ u.out = c.out
      /\ u.aud = c.aud /\ u.act = c.act
      /\ u.cur = s.cur /\ u.pos = s.pos /\ u.rev = s.rev /\ u.st = s.st
  BY <1>1, UpdateParts
<1> HIDE DEF u
<1>4. /\ DOMAIN v = DiskFields /\ v.ord = u.ord /\ v.done = u.done /\ v.out = u.out /\ v.aud = u.aud
      /\ v.cur = s.cur /\ v.pos = s.pos /\ v.rev = s.rev /\ v.st = s.st
      /\ v.act = s.cur /\ ~v.stray
  BY <1>1, <1>2, <1>3, OpenParts DEF Stored
<1>5. d.cur \in v.done
  BY <1>1, <1>3, <1>4 DEF Stored, ValidSession
<1>6. ValidSession(v)
  BY <1>1, <1>3, <1>4 DEF Stored, ValidSession, Stands, Stirring
<1> QED BY <1>1, <1>3, <1>4, <1>5, <1>6 DEF Stored, Holds, Stands

-----------------------------------------------------------------------------
(* Departures.                                                             *)
LEMMA TerminalStores ==
  ASSUME NEW d, Stored(d), NEW s, Stands(s, d.ord), NEW occ, occ # NoOcc,
         NEW v, v = Terminal(d, s, occ), v # Refused
  PROVE  /\ Holds(v, s) /\ v.ord = d.ord /\ v.aud = d.aud
         /\ occ \in v.done \cap v.out /\ (s.cur # occ => v.act = s.cur)
<1> DEFINE c == CloseActive(d)
           u == Update(c, s)
           t == [u EXCEPT !.out = @ \cup {occ}]
<1>1. /\ DOMAIN c = DiskFields /\ c.ord = d.ord /\ c.stray = d.stray
      /\ c.aud = d.aud /\ c.act = NoOcc /\ (d.act # NoOcc => d.act \in c.done)
  BY CloseParts DEF Stored
<1>2. d.act = occ /\ v = OpenAfterDeparture(t, occ)
  BY DEF Terminal
<1> HIDE DEF c
<1>3. /\ DOMAIN u = DiskFields /\ u.ord = c.ord /\ u.stray = c.stray
      /\ u.done = c.done /\ u.out = c.out
      /\ u.aud = c.aud /\ u.act = c.act
      /\ u.cur = s.cur /\ u.pos = s.pos /\ u.rev = s.rev /\ u.st = s.st
  BY <1>1, UpdateParts
<1> HIDE DEF u
<1>4. /\ DOMAIN t = DiskFields /\ t.ord = u.ord /\ t.stray = u.stray /\ t.done = u.done
      /\ t.out = u.out \cup {occ}
      /\ t.aud = u.aud /\ t.act = u.act
      /\ t.cur = s.cur /\ t.pos = s.pos /\ t.rev = s.rev /\ t.st = s.st
  BY <1>3 DEF DiskFields
<1> HIDE DEF t
<1>5. d.ord # <<>> /\ d.cur = occ
  BY <1>2 DEF Stored, ValidSession
<1>6. /\ DOMAIN v = DiskFields /\ v.ord = d.ord /\ ~v.stray /\ v.done = t.done /\ v.out = t.out
      /\ v.aud = d.aud /\ v.act = IF s.cur = occ THEN NoOcc ELSE s.cur
      /\ v.cur = s.cur /\ v.pos = s.pos /\ v.rev = s.rev /\ v.st = s.st
  <2>1. CASE s.cur = occ
    BY <1>1, <1>2, <1>3, <1>4, <2>1 DEF OpenAfterDeparture, Stored
  <2>2. CASE s.cur # occ
    <3>1. v = OpenOn(t, t.cur)
      BY <1>2, <1>4, <1>5, <2>2 DEF OpenAfterDeparture, Stands
    <3> QED BY <1>1, <1>3, <1>4, <2>2, <3>1, OpenParts DEF Stored
  <2> QED BY <2>1, <2>2
<1>7. ValidSession(v)
  BY <1>5, <1>6 DEF Stored, ValidSession, Stands, Stirring
<1>8. occ \in v.done \cap v.out
  BY <1>1, <1>2, <1>3, <1>4, <1>6
<1> QED BY <1>6, <1>7, <1>8 DEF Stored, Holds, Stands

LEMMA DepartureStores ==
  ASSUME NEW d, Stored(d), NEW s, Stands(s, d.ord), NEW occ, occ # NoOcc,
         d.cur = occ, d.act = NoOcc, occ \in d.out, NEW v, v = Departure(d, s, occ), v # Refused
  PROVE  /\ Holds(v, s) /\ v.ord = d.ord /\ v.aud = d.aud
         /\ occ \in v.done \cap v.out /\ (s.cur # occ => v.act = s.cur)
<1> DEFINE u == Update(d, s)
<1>1. /\ DOMAIN u = DiskFields /\ u.ord = d.ord /\ u.stray = d.stray
      /\ u.done = d.done /\ u.out = d.out
      /\ u.aud = d.aud /\ u.act = d.act
      /\ u.cur = s.cur /\ u.pos = s.pos /\ u.rev = s.rev /\ u.st = s.st
  BY UpdateParts DEF Stored
<1>2. occ \in d.done /\ v = OpenAfterDeparture(u, occ) /\ d.ord # <<>>
  BY DEF Departure, Stored, ValidSession
<1> HIDE DEF u
<1>3. /\ DOMAIN v = DiskFields /\ v.ord = d.ord /\ ~v.stray /\ v.done = d.done /\ v.out = d.out
      /\ v.aud = d.aud /\ v.act = IF s.cur = occ THEN NoOcc ELSE s.cur
      /\ v.cur = s.cur /\ v.pos = s.pos /\ v.rev = s.rev /\ v.st = s.st
  <2>1. CASE s.cur = occ
    BY <1>1, <1>2, <2>1 DEF OpenAfterDeparture, Stored
  <2>2. CASE s.cur # occ
    <3>1. v = OpenOn(u, u.cur)
      BY <1>1, <1>2, <2>2 DEF OpenAfterDeparture, Stands
    <3> QED BY <1>1, <2>2, <3>1, OpenParts DEF Stored
  <2> QED BY <2>1, <2>2
<1>4. ValidSession(v)
  BY <1>2, <1>3 DEF Stored, ValidSession, Stands, Stirring
<1> QED BY <1>2, <1>3, <1>4 DEF Stored, Holds, Stands

LEMMA AttemptStores ==
  ASSUME NEW d, Stored(d), NEW s, Stands(s, d.ord), NEW close,
         NEW v, v = StartAttempt(d, s, close), v # Refused
  PROVE  /\ Holds(v, s) /\ v.ord = d.ord /\ v.aud = d.aud /\ v.act = s.cur
         /\ d.cur \in v.done
<1>1. s.cur \in ToSet(d.ord) /\ v = OpenOn(Update(CloseActive(d), s), s.cur)
  BY DEF StartAttempt
<1>2. d.ord # <<>>
  BY <1>1, Elements DEF Stored
<1> QED BY <1>1, <1>2, Reopened

LEMMA SelectStores ==
  ASSUME NEW d, Stored(d), NEW s, Stands(s, d.ord), NEW v, v = Select(d, s), v # Refused
  PROVE  /\ Holds(v, s) /\ v.ord = d.ord /\ v.aud = d.aud /\ v.act = s.cur
         /\ d.cur \in v.done
<1>1. s.cur \in ToSet(d.ord) /\ v = OpenOn(Update(CloseActive(d), s), s.cur)
  BY DEF Select
<1>2. d.ord # <<>>
  BY <1>1, Elements DEF Stored
<1> QED BY <1>1, <1>2, Reopened

-----------------------------------------------------------------------------
(* New queues.                                                             *)
LEMMA StructureStores ==
  ASSUME NEW d, Stored(d), NEW rows \in Seq(Nat \ {NoOcc}), IsInjective(rows),
         NEW s, Stands(s, rows), NEW v, v = Structure(d, s, rows)
  PROVE  Holds(v, s) /\ v.aud = d.aud
<1> DEFINE c == CloseActive(d)
           u == Update(c, s)
           t == [u EXCEPT !.ord = rows, !.done = {}, !.out = {}]
<1>1. DOMAIN c = DiskFields /\ c.stray = d.stray /\ c.aud = d.aud /\ c.act = NoOcc
  BY CloseParts DEF Stored
<1>2. v = EnsureActive(t)
  BY DEF Structure
<1> HIDE DEF c
<1>3. /\ DOMAIN u = DiskFields /\ u.stray = c.stray /\ u.aud = c.aud /\ u.act = c.act
      /\ u.cur = s.cur /\ u.pos = s.pos /\ u.rev = s.rev /\ u.st = s.st
  BY <1>1, UpdateParts
<1> HIDE DEF u
<1>4. /\ DOMAIN t = DiskFields /\ t.stray = u.stray /\ t.aud = u.aud /\ t.act = u.act
      /\ t.cur = s.cur /\ t.pos = s.pos /\ t.rev = s.rev /\ t.st = s.st /\ t.ord = rows
  BY <1>3 DEF DiskFields
<1> HIDE DEF t
<1>5. /\ DOMAIN v = DiskFields /\ v.ord = rows /\ ~v.stray
      /\ v.aud = d.aud /\ v.act = s.cur
      /\ v.cur = s.cur /\ v.pos = s.pos /\ v.rev = s.rev /\ v.st = s.st
  <2>1. CASE s.cur = NoOcc
    BY <1>1, <1>2, <1>3, <1>4, <2>1 DEF EnsureActive, Stored
  <2>2. CASE s.cur # NoOcc
    <3>1. v = OpenOn(t, s.cur)
      BY <1>1, <1>2, <1>3, <1>4, <2>2 DEF EnsureActive, CloseActive
    <3> QED BY <1>1, <1>3, <1>4, <3>1, OpenParts DEF Stored
  <2> QED BY <2>1, <2>2
<1>6. ValidSession(v)
  BY <1>5 DEF ValidSession, Stands, Stirring
<1> QED BY <1>5, <1>6 DEF Stored, Holds, Stands

LEMMA SupersedingStores ==
  ASSUME NEW d, Stored(d), NEW rows \in Seq(Nat \ {NoOcc}), IsInjective(rows),
         NEW s, Stands(s, rows), NEW a,
         NEW v, v = StructureSuperseding(d, s, rows, a), v # Refused
  PROVE  Holds(v, s) /\ v.aud = NoAud
<1> DEFINE u == Structure(d, s, rows)
<1>1. v = [u EXCEPT !.aud = NoAud]
  BY DEF StructureSuperseding
<1>2. Holds(u, s)
  BY StructureStores
<1> HIDE DEF u
<1>3. /\ DOMAIN v = DiskFields /\ v.ord = u.ord /\ v.stray = u.stray /\ v.act = u.act
      /\ v.cur = u.cur /\ v.pos = u.pos /\ v.rev = u.rev /\ v.st = u.st
      /\ v.done = u.done /\ v.out = u.out /\ v.aud = NoAud
  BY <1>1, <1>2 DEF Holds, Stored, DiskFields
<1> QED BY <1>2, <1>3 DEF Stored, Holds, ValidSession

LEMMA ClearStores ==
  ASSUME NEW d, Stored(d), NEW s, Stands(s, <<>>), NEW v, v = Clear(d, s)
  PROVE  Holds(v, s) /\ v.aud = d.aud
<1> DEFINE c == CloseActive(d)
           u == Update(c, s)
<1>1. DOMAIN c = DiskFields /\ c.stray = d.stray /\ c.aud = d.aud /\ c.act = NoOcc
  BY CloseParts DEF Stored
<1>2. v = [u EXCEPT !.ord = <<>>, !.done = {}, !.out = {}]
  BY DEF Clear
<1> HIDE DEF c
<1>3. /\ DOMAIN u = DiskFields /\ u.stray = c.stray /\ u.aud = c.aud /\ u.act = c.act
      /\ u.cur = s.cur /\ u.pos = s.pos /\ u.rev = s.rev /\ u.st = s.st
  BY <1>1, UpdateParts
<1> HIDE DEF u
<1>4. /\ DOMAIN v = DiskFields /\ v.stray = u.stray /\ v.aud = u.aud /\ v.act = u.act
      /\ v.cur = s.cur /\ v.pos = s.pos /\ v.rev = s.rev /\ v.st = s.st /\ v.ord = <<>>
  BY <1>2, <1>3 DEF DiskFields
<1>5. ValidSession(v) /\ v.ord \in Seq(Nat \ {NoOcc})
  BY <1>1, <1>3, <1>4 DEF ValidSession, Stands, IsInjective
<1> QED BY <1>1, <1>3, <1>4, <1>5 DEF Stored, Holds, Stands

-----------------------------------------------------------------------------
(* Edits.                                                                  *)
LEMMA AppendStores ==
  ASSUME NEW d, Stored(d), NEW new \in Nat \ {NoOcc}, new \notin ToSet(d.ord),
         NEW s, s.rev \in Nat, s.rev > 0, s.st \in Stirring,
         s.cur = (IF d.cur = NoOcc THEN new ELSE d.cur),
         NEW v, v = AppendRows(d, s, <<new>>)
  PROVE  Holds(v, s) /\ v.aud = d.aud /\ v.ord = Append(d.ord, new)
<1> DEFINE u == Update(d, s)
           t == [u EXCEPT !.ord = @ \o <<new>>]
           q == d.ord
<1>1. /\ DOMAIN u = DiskFields /\ u.ord = d.ord /\ u.act = d.act /\ u.stray = d.stray
      /\ u.done = d.done /\ u.out = d.out /\ u.aud = d.aud
      /\ u.cur = s.cur /\ u.pos = s.pos /\ u.rev = s.rev /\ u.st = s.st
  BY UpdateParts DEF Stored
<1>2. v = EnsureActive(t)
  BY DEF AppendRows
<1> HIDE DEF u
<1>3. /\ DOMAIN t = DiskFields /\ t.ord = d.ord \o <<new>> /\ t.act = d.act
      /\ t.stray = d.stray /\ t.done = d.done /\ t.out = d.out /\ t.aud = d.aud
      /\ t.cur = s.cur /\ t.pos = s.pos /\ t.rev = s.rev /\ t.st = s.st
  BY <1>1 DEF DiskFields
<1> HIDE DEF t
<1>4. /\ DOMAIN v = DiskFields /\ v.ord = d.ord \o <<new>> /\ ~v.stray
      /\ v.aud = d.aud /\ v.act = s.cur
      /\ v.cur = s.cur /\ v.pos = s.pos /\ v.rev = s.rev /\ v.st = s.st
  <2>1. CASE d.act = s.cur
    BY <1>2, <1>3, <2>1 DEF EnsureActive, Stored
  <2>2. CASE d.act # s.cur
    <3>1. d.act = NoOcc /\ s.cur # NoOcc
      BY <2>2 DEF Stored, ValidSession
    <3>2. v = OpenOn(t, s.cur)
      BY <1>2, <1>3, <2>2, <3>1 DEF EnsureActive, CloseActive
    <3>3. DOMAIN t = DiskFields /\ t.act = NoOcc /\ ~t.stray
      BY <1>3, <3>1 DEF Stored
    <3>4. /\ DOMAIN v = DiskFields /\ v.ord = t.ord /\ ~v.stray /\ v.aud = t.aud
          /\ v.act = s.cur /\ v.cur = t.cur /\ v.pos = t.pos /\ v.rev = t.rev /\ v.st = t.st
      BY <3>2, <3>3, OpenParts
    <3> QED BY <1>3, <3>4
  <2> QED BY <2>1, <2>2
<1> DEFINE r == Append(q, new)
<1>5. q \in Seq(Nat \ {NoOcc}) /\ Distinct(q)
  BY Injective DEF Stored, ValidSession
<1>6. r = q \o <<new>>
  BY <1>5, AppendIsConcat
<1>7. r \in Seq(Nat \ {NoOcc}) /\ Distinct(r)
  <2>1. \A n \in 1..Len(q) : q[n] # new
    BY <1>5, Elements
  <2> HIDE DEF q
  <2> QED BY <1>5, <2>1, AppendKeeps
<1>8. s.cur \in ToSet(r) /\ r # <<>> /\ s.cur # NoOcc
  <2>1. /\ Len(r) = Len(q) + 1 /\ r[Len(q) + 1] = new
        /\ \A i \in 1..Len(q) : r[i] = q[i]
    BY <1>5
  <2>2. d.cur # NoOcc => \E n \in 1..Len(q) : q[n] = d.cur
    BY <1>5, Elements DEF Stored, ValidSession
  <2>3. \E n \in 1..Len(r) : r[n] = s.cur
    <3>1. Len(q) \in Nat
      BY <1>5
    <3> HIDE DEF q, r
    <3> QED BY <2>1, <2>2, <3>1
  <2> HIDE DEF q, r
  <2> QED BY <1>7, <2>3, Elements
<1> HIDE DEF r, q
<1>9. ValidSession(v)
  <2>1. v.ord = r
    BY <1>4, <1>6 DEF q
  <2> QED BY <1>4, <1>7, <1>8, <2>1, Injective DEF ValidSession, Stirring
<1> QED BY <1>4, <1>6, <1>7, <1>9 DEF Stored, Holds, q, r

LEMMA BaselineStores ==
  ASSUME NEW d, Stored(d), NEW new \in Nat \ {NoOcc}, new \notin ToSet(d.ord),
         NEW s, s.rev \in Nat, s.rev > 0, s.st \in Stirring,
         s.cur = (IF d.cur = NoOcc THEN new ELSE d.cur),
         NEW v, v = AppendWithBaseline(d, s, <<new>>), v # Refused
  PROVE  /\ Holds(v, s) /\ v.ord = Append(d.ord, new)
         /\ v.aud # NoAud /\ v.aud.id = d.aud.id
         /\ v.aud.saved = [cur |-> s.cur, pos |-> 0, st |-> "paused"]
<1> DEFINE u == AppendRows(d, s, <<new>>)
           saved == [cur |-> s.cur, pos |-> 0, st |-> "paused"]
<1>1. v = [u EXCEPT !.aud.saved = saved] /\ d.aud # NoAud
  BY DEF AppendWithBaseline
<1>2. Holds(u, s) /\ u.aud = d.aud /\ u.ord = Append(d.ord, new)
  BY AppendStores
<1> HIDE DEF u
<1>3. /\ DOMAIN v = DiskFields /\ v.ord = u.ord /\ v.stray = u.stray /\ v.act = u.act
      /\ v.cur = u.cur /\ v.pos = u.pos /\ v.rev = u.rev /\ v.st = u.st
      /\ v.done = u.done /\ v.out = u.out /\ v.aud = [u.aud EXCEPT !.saved = saved]
  BY <1>1, <1>2 DEF Holds, Stored, DiskFields
<1>4. Audition(d.aud)
  BY <1>1 DEF Stored
<1>5. s.cur # NoOcc /\ SavedOK(saved) /\ DOMAIN saved = {"cur", "pos", "st"}
  BY DEF SavedOK
<1> HIDE DEF saved
<1>6. Audition(v.aud) /\ v.aud.id = d.aud.id /\ v.aud.saved = saved
  BY <1>2, <1>3, <1>4, <1>5 DEF Audition, AuditionFields
<1>7. v.aud # NoAud
  BY <1>6 DEF Audition, NoAud
<1> QED BY <1>2, <1>3, <1>6, <1>7 DEF Stored, Holds, ValidSession, saved

LEMMA RemoveStores ==
  ASSUME NEW d, Stored(d), NEW s, s.rev \in Nat,
         s.cur # NoOcc => s.st \in Stirring, s.cur = NoOcc => s.st = "idle" /\ s.pos = 0,
         NEW occ, NEW v, v = RemoveRow(d, s, occ), v # Refused
  PROVE  Holds(v, s) /\ v.aud = d.aud
<1> DEFINE q == d.ord
           k == Place(d, occ)
           r == RemoveAt(q, k)
           u == Update(d, s)
<1>1. /\ d.rev + 1 = s.rev /\ d.cur = s.cur /\ occ \in ToSet(Upcoming(d, s.cur))
      /\ v = [u EXCEPT !.ord = RemoveAt(@, k), !.done = @ \ {occ}, !.out = @ \ {occ}]
  BY DEF RemoveRow, EditBaseline
<1>2. q \in Seq(Nat \ {NoOcc}) /\ Distinct(q) /\ IsInjective(q)
  BY Injective DEF Stored, ValidSession
<1>3. occ \in ToSet(q) /\ occ # s.cur /\ s.cur \in ToSet(q)
  BY <1>1, <1>2, UpcomingIn
<1>4. k \in 1..Len(q) /\ q[k] = occ
  BY <1>2, <1>3, PlaceOf
<1>5. /\ DOMAIN u = DiskFields /\ u.ord = d.ord /\ u.act = d.act /\ u.stray = d.stray
      /\ u.done = d.done /\ u.out = d.out /\ u.aud = d.aud
      /\ u.cur = s.cur /\ u.pos = s.pos /\ u.rev = s.rev /\ u.st = s.st
  BY UpdateParts DEF Stored
<1> HIDE DEF u, k
<1>6. /\ DOMAIN v = DiskFields /\ v.ord = r /\ v.act = d.act /\ v.stray = d.stray
      /\ v.done = d.done \ {occ} /\ v.out = d.out \ {occ} /\ v.aud = d.aud
      /\ v.cur = s.cur /\ v.pos = s.pos /\ v.rev = s.rev /\ v.st = s.st
  BY <1>1, <1>5 DEF DiskFields
<1> HIDE DEF q
<1>7. r \in Seq(Nat \ {NoOcc}) /\ Distinct(r)
  BY <1>2, <1>4, RemoveKeeps
<1>8. s.cur \in ToSet(r)
  <2>1. PICK n \in 1..Len(q) : q[n] = s.cur
    BY <1>2, <1>3, Elements
  <2>2. n # k
    BY <1>3, <1>4, <2>1
  <2>3. /\ Len(r) = Len(q) - 1
        /\ \A i \in 1..(Len(q) - 1) : r[i] = IF i < k THEN q[i] ELSE q[i + 1]
    BY <1>2, <1>4, RemoveAtAt
  <2>4. CASE n < k
    <3>1. n \in 1..(Len(q) - 1) /\ r[n] = q[n]
      BY <1>4, <2>3, <2>4
    <3> QED BY <1>7, <2>1, <2>3, <3>1, Elements
  <2>5. CASE n > k
    <3>1. PICK m \in 1..(Len(q) - 1) : m = n - 1
      BY <1>2, <1>4, <2>1, <2>5
    <3>2. r[m] = q[n]
      BY <1>4, <2>1, <2>3, <2>5, <3>1
    <3> QED BY <1>7, <2>1, <2>3, <3>1, <3>2, Elements
  <2> QED BY <1>4, <2>1, <2>2, <2>4, <2>5
<1>9. r # <<>> /\ s.cur # NoOcc
  BY <1>7, <1>8, Elements
<1> HIDE DEF r
<1>10. ValidSession(v)
  BY <1>1, <1>6, <1>7, <1>8, <1>9, Injective DEF ValidSession, Stored, Stirring
<1>11. v.act = v.cur \/ v.cur \in v.done \cap v.out
  BY <1>1, <1>3, <1>6, <1>9 DEF Stored
<1> QED BY <1>1, <1>6, <1>7, <1>10, <1>11 DEF Stored, Holds

LEMMA MoveStores ==
  ASSUME NEW d, Stored(d), NEW s, s.rev \in Nat,
         s.cur # NoOcc => s.st \in Stirring, s.cur = NoOcc => s.st = "idle" /\ s.pos = 0,
         NEW occ, occ # NoOcc, NEW before, before # occ,
         NEW v, v = MoveRow(d, s, occ, before), v # Refused
  PROVE  Holds(v, s) /\ v.aud = d.aud
<1> DEFINE q == d.ord
           k == Place(d, occ)
           c == RemoveAt(q, k)
           j == IF before = NoOcc THEN Len(c) + 1
                ELSE CHOOSE n \in 1..Len(c) : c[n] = before
           r == InsertAt(c, j, occ)
           u == Update(d, s)
<1>1. /\ d.rev + 1 = s.rev /\ d.cur = s.cur
      /\ ({occ, before} \ {NoOcc}) \ ToSet(Upcoming(d, s.cur)) = {}
      /\ v = [u EXCEPT !.ord = r]
  BY DEF MoveRow, EditBaseline
<1>2. q \in Seq(Nat \ {NoOcc}) /\ Distinct(q) /\ IsInjective(q)
  BY Injective DEF Stored, ValidSession
<1>3. /\ occ \in ToSet(q) /\ s.cur \in ToSet(q)
      /\ before # NoOcc => before \in ToSet(q)
  <2>1. occ \in ToSet(Upcoming(d, s.cur))
    BY <1>1
  <2>2. before # NoOcc => before \in ToSet(Upcoming(d, s.cur))
    BY <1>1
  <2> QED BY <1>2, <2>1, <2>2, UpcomingIn
<1>4. k \in 1..Len(q) /\ q[k] = occ
  BY <1>2, <1>3, PlaceOf
<1>5. /\ DOMAIN u = DiskFields /\ u.ord = d.ord /\ u.act = d.act /\ u.stray = d.stray
      /\ u.done = d.done /\ u.out = d.out /\ u.aud = d.aud
      /\ u.cur = s.cur /\ u.pos = s.pos /\ u.rev = s.rev /\ u.st = s.st
  BY UpdateParts DEF Stored
<1> HIDE DEF u, r
<1>6. /\ DOMAIN v = DiskFields /\ v.ord = r /\ v.act = d.act /\ v.stray = d.stray
      /\ v.done = d.done /\ v.out = d.out /\ v.aud = d.aud
      /\ v.cur = s.cur /\ v.pos = s.pos /\ v.rev = s.rev /\ v.st = s.st
  BY <1>1, <1>5 DEF DiskFields
<1> USE DEF r
<1> HIDE DEF q, k
<1>7. /\ c \in Seq(Nat \ {NoOcc}) /\ Len(c) = Len(q) - 1
      /\ \A i \in 1..(Len(q) - 1) : c[i] = IF i < k THEN q[i] ELSE q[i + 1]
  BY <1>2, <1>4, RemoveAtAt
<1> HIDE DEF c
(* Every other row is still there after the removal.                       *)
<1>8. ASSUME NEW e \in ToSet(q), e # occ PROVE \E i \in 1..Len(c) : c[i] = e
  <2>1. PICK n \in 1..Len(q) : q[n] = e
    BY <1>2, <1>8, Elements
  <2>2. CASE n < k
    <3>1. n \in 1..(Len(q) - 1) /\ c[n] = q[n]
      BY <1>4, <1>7, <2>2
    <3> QED BY <1>7, <2>1, <3>1
  <2>3. CASE n > k
    <3>1. PICK m \in 1..(Len(q) - 1) : m = n - 1
      BY <1>2, <1>4, <2>1, <2>3
    <3>2. c[m] = q[n]
      BY <1>4, <1>7, <2>1, <2>3, <3>1
    <3> QED BY <1>7, <2>1, <3>1, <3>2
  <2>4. n # k
    BY <1>4, <1>8, <2>1
  <2> QED BY <1>4, <2>1, <2>2, <2>3, <2>4
<1>9. j \in 1..Len(q)
  <2>1. CASE before = NoOcc
    BY <1>4, <1>7, <2>1
  <2>2. CASE before # NoOcc
    <3>1. \E n \in 1..Len(c) : c[n] = before
      BY <1>3, <1>8, <2>2
    <3>2. j \in 1..Len(c)
      BY <2>2, <3>1
    <3> HIDE DEF j
    <3> QED BY <1>7, <3>2
  <2> QED BY <2>1, <2>2
<1> HIDE DEF j
<1>10. r \in Seq(Nat \ {NoOcc}) /\ Distinct(r)
  <2>1. r = InsertAt(RemoveAt(q, k), j, q[k])
    BY <1>4 DEF c
  <2> HIDE DEF r
  <2> QED BY <1>2, <1>4, <1>9, <2>1, MoveKeeps
<1>11. s.cur \in ToSet(r)
  <2>1. occ \in Nat \ {NoOcc} /\ j \in 1..(Len(c) + 1)
    BY <1>2, <1>4, <1>7, <1>9
  <2>2. /\ Len(r) = Len(c) + 1
        /\ \A i \in 1..(Len(c) + 1) :
             r[i] = IF i < j THEN c[i] ELSE IF i = j THEN occ ELSE c[i - 1]
    <3> DEFINE S == Nat \ {NoOcc}
    <3>1. c \in Seq(S) /\ occ \in S /\ j \in 1..(Len(c) + 1)
      BY <1>7, <2>1
    <3> HIDE DEF S
    <3>2. /\ Len(InsertAt(c, j, occ)) = Len(c) + 1
          /\ \A i \in 1..(Len(c) + 1) :
               InsertAt(c, j, occ)[i] =
                 IF i < j THEN c[i] ELSE IF i = j THEN occ ELSE c[i - 1]
      BY ONLY <3>1, InsertAtAt
    <3> QED BY <3>2
  <2>3. CASE s.cur = occ
    <3>1. r[j] = occ /\ j \in 1..Len(r)
      BY <2>1, <2>2
    <3> QED BY <1>10, <2>3, <3>1, Elements
  <2>4. CASE s.cur # occ
    <3>1. PICK n \in 1..Len(c) : c[n] = s.cur
      BY <1>3, <1>8, <2>4
    <3>2. CASE n < j
      <4>1. n \in 1..Len(r) /\ r[n] = c[n]
        BY <1>7, <2>2, <3>1, <3>2
      <4> QED BY <1>10, <3>1, <4>1, Elements
    <3>3. CASE ~(n < j)
      <4>1. PICK m \in 1..(Len(c) + 1) : m = n + 1
        BY <1>7, <3>1
      <4>2. ~(m < j) /\ m # j /\ m - 1 = n
        BY <2>1, <3>1, <3>3, <4>1
      <4>3. r[m] = c[n] /\ m \in 1..Len(r)
        BY <2>2, <4>1, <4>2
      <4> QED BY <1>10, <3>1, <4>3, Elements
    <3> QED BY <3>2, <3>3
  <2> QED BY <2>3, <2>4
<1>12. r # <<>> /\ s.cur # NoOcc
  BY <1>10, <1>11, Elements
<1> HIDE DEF r
<1>13. ValidSession(v)
  BY <1>1, <1>6, <1>10, <1>11, <1>12, Injective DEF ValidSession, Stored, Stirring
<1> QED BY <1>1, <1>6, <1>10, <1>12, <1>13 DEF Stored, Holds

-----------------------------------------------------------------------------
(* The position alone, and the audition.                                   *)
LEMMA CheckpointStores ==
  ASSUME NEW d, Stored(d), NEW s, d.cur = NoOcc => s.pos = 0,
         NEW v, v = Checkpoint(d, s)
  PROVE  /\ Holds(v, d) /\ v.ord = d.ord /\ v.aud = d.aud
         /\ v.done = d.done /\ v.out = d.out /\ v.act = d.act
<1>1. /\ DOMAIN v = DiskFields /\ v.ord = d.ord /\ v.stray = d.stray /\ v.act = d.act
      /\ v.cur = d.cur /\ v.pos = s.pos /\ v.rev = d.rev /\ v.st = d.st
      /\ v.done = d.done /\ v.out = d.out /\ v.aud = d.aud
  BY DEF Stored, DiskFields, Checkpoint
<1> QED BY <1>1 DEF Stored, Holds, ValidSession

(* The main session is written again, and another audition or none.        *)

(* The session and the row of the preview in one transaction.              *)
Auditioned(d, s, a) == [Update(d, s) EXCEPT !.aud = a]
LEMMA AuditionStores ==
  ASSUME NEW d, Stored(d), NEW s, s.cur = d.cur, s.rev = d.rev,
         s.cur # NoOcc => s.st \in Stirring, s.cur = NoOcc => s.st = "idle" /\ s.pos = 0,
         NEW a, a = NoAud \/ Audition(a),
         NEW v, v = Auditioned(d, s, a)
  PROVE  /\ Holds(v, s) /\ v.ord = d.ord /\ v.aud = a
         /\ v.done = d.done /\ v.out = d.out /\ v.act = d.act
         /\ v # Refused
<1> DEFINE u == Update(d, s)
<1>1. /\ DOMAIN u = DiskFields /\ u.ord = d.ord /\ u.act = d.act /\ u.stray = d.stray
      /\ u.done = d.done /\ u.out = d.out /\ u.aud = d.aud
      /\ u.cur = s.cur /\ u.pos = s.pos /\ u.rev = s.rev /\ u.st = s.st
  BY UpdateParts DEF Stored
<1> HIDE DEF u
<1>2. /\ DOMAIN v = DiskFields /\ v.ord = d.ord /\ v.act = d.act /\ v.stray = d.stray
      /\ v.done = d.done /\ v.out = d.out /\ v.aud = a
      /\ v.cur = s.cur /\ v.pos = s.pos /\ v.rev = s.rev /\ v.st = s.st
  BY <1>1 DEF DiskFields, Auditioned, u
<1>3. ValidSession(v)
  BY <1>2 DEF Stored, ValidSession, Stirring
<1> QED BY <1>2, <1>3, NotRefused DEF Stored, Holds

LEMMA UpdateStores ==
  ASSUME NEW d, Stored(d), NEW s, s.cur = d.cur, s.rev = d.rev,
         s.cur # NoOcc => s.st \in Stirring, s.cur = NoOcc => s.st = "idle" /\ s.pos = 0,
         NEW v, v = Update(d, s)
  PROVE  /\ Holds(v, s) /\ v.ord = d.ord /\ v.aud = d.aud
         /\ v.done = d.done /\ v.out = d.out /\ v.act = d.act
<1>1. /\ DOMAIN v = DiskFields /\ v.ord = d.ord /\ v.act = d.act /\ v.stray = d.stray
      /\ v.done = d.done /\ v.out = d.out /\ v.aud = d.aud
      /\ v.cur = s.cur /\ v.pos = s.pos /\ v.rev = s.rev /\ v.st = s.st
  BY UpdateParts DEF Stored
<1>2. ValidSession(v)
  BY <1>1 DEF Stored, ValidSession, Stirring
<1> QED BY <1>1, <1>2 DEF Stored, Holds

LEMMA CheckpointAuditionStores ==
  ASSUME NEW d, Stored(d), NEW a, Audition(a), d.aud # NoAud,
         NEW v, v = CheckpointAudition(d, a), v # Refused
  PROVE  /\ Holds(v, d) /\ v.ord = d.ord /\ v.done = d.done /\ v.out = d.out /\ v.act = d.act
         /\ v.aud # NoAud /\ v.aud.id = a.id /\ v.aud.saved = d.aud.saved
<1> DEFINE b == [a EXCEPT !.saved = d.aud.saved]
<1>1. v = [d EXCEPT !.aud = b]
  BY DEF CheckpointAudition
<1>2. Audition(b) /\ b.id = a.id /\ b.saved = d.aud.saved
  BY DEF Audition, AuditionFields, Stored
<1> HIDE DEF b
<1>3. b # NoAud
  BY <1>2 DEF Audition, NoAud
<1>4. /\ DOMAIN v = DiskFields /\ v.ord = d.ord /\ v.stray = d.stray /\ v.act = d.act
      /\ v.cur = d.cur /\ v.pos = d.pos /\ v.rev = d.rev /\ v.st = d.st
      /\ v.done = d.done /\ v.out = d.out /\ v.aud = b
  BY <1>1 DEF Stored, DiskFields
<1> QED BY <1>2, <1>3, <1>4 DEF Stored, Holds, ValidSession
=============================================================================
