---------------------------- MODULE PlaybackStore ----------------------------
(***************************************************************************)
(* The player's durable state and its transactions (persistence.rs).       *)
(*                                                                         *)
(* Each operator is one SQLite transaction: it yields the next contents,   *)
(* or Refused where the code rolls back because of what it reads (a write  *)
(* the disk refuses is the caller's choice). The contents are              *)
(*   ord        the occurrences' rows in ordinal order                     *)
(*   cur, pos, rev, st   the row of playback_sessions                      *)
(*   act        the occurrence of its active attempt, NoOcc for NULL       *)
(*   stray      an attempt was left open that no session row points to     *)
(*   done, out  occurrences with a closed attempt, with an outcome         *)
(*   aud        the row of playback_audition                               *)
(* Histories (attempt positions, dispositions, audition outcomes) are cut  *)
(* down to what a later transaction reads. The checkpoint sequence only    *)
(* orders writes of one owner thread and is left out.                      *)
(***************************************************************************)
EXTENDS Naturals, Sequences, SequencesExt

NoOcc == 0
NoAud == [id |-> NoOcc]
Refused == [ord |-> "refused"]

Row == [cur : Nat, pos : Nat, rev : Nat,
        st : {"idle", "paused", "buffering", "playing"}]

(* Rows before and after an occurrence, in ordinal order.                   *)
Place(d, occ) == CHOOSE n \in 1..Len(d.ord) : d.ord[n] = occ
Upcoming(d, occ) ==
  IF occ \in ToSet(d.ord)
  THEN SubSeq(d.ord, Place(d, occ) + 1, Len(d.ord)) ELSE <<>>
Successor(d, occ) ==
  IF Upcoming(d, occ) = <<>> THEN NoOcc ELSE Head(Upcoming(d, occ))
Predecessor(d, occ) ==
  IF occ \in ToSet(d.ord) /\ Place(d, occ) > 1
  THEN d.ord[Place(d, occ) - 1] ELSE NoOcc

(* update_session: the whole row but its attempt pointer.                   *)
Update(d, s) ==
  [d EXCEPT !.cur = s.cur, !.pos = s.pos, !.rev = s.rev, !.st = s.st]

CloseActive(d) ==
  IF d.act = NoOcc THEN d ELSE [d EXCEPT !.act = NoOcc, !.done = @ \cup {d.act}]

OpenOn(d, occ) == [d EXCEPT !.act = occ, !.stray = @ \/ d.act # NoOcc]

EnsureActive(d) ==
  IF d.act = d.cur THEN d
  ELSE IF d.cur = NoOcc THEN CloseActive(d) ELSE OpenOn(CloseActive(d), d.cur)

OpenAfterDepartureNever(d, departed) == d
OpenAfterDeparture(d, departed) ==
  IF d.cur \in {NoOcc, departed} THEN d ELSE OpenOn(d, d.cur)

-----------------------------------------------------------------------------
(* The main queue.                                                          *)

(* Every row is replaced, so nothing is remembered of the old occurrences.  *)
Structure(d, s, rows) ==
  EnsureActive([Update(CloseActive(d), s)
                 EXCEPT !.ord = rows, !.done = {}, !.out = {}])

StructureSuperseding(d, s, rows, a) ==
  IF d.aud.id # a.id THEN Refused
  ELSE [Structure(d, s, rows) EXCEPT !.aud = NoAud]

AppendRows(d, s, rows) ==
  EnsureActive([Update(d, s) EXCEPT !.ord = @ \o rows])

AppendForgettingBaseline(d, s, rows) == AppendRows(d, s, rows)
AppendWithBaseline(d, s, rows) ==
  IF d.aud = NoAud \/ d.aud.saved.cur # NoOcc THEN Refused
  ELSE [AppendRows(d, s, rows) EXCEPT
         !.aud.saved = [cur |-> s.cur, pos |-> 0, st |-> "paused"]]

EditBaseline(d, s) == d.rev + 1 = s.rev /\ d.cur = s.cur

RemoveAnyRow(d, s, occ) ==
  [Update(d, s) EXCEPT !.ord = RemoveAt(@, Place(d, occ))]
RemoveRow(d, s, occ) ==
  IF ~EditBaseline(d, s) \/ occ \notin ToSet(Upcoming(d, s.cur)) THEN Refused
  ELSE [Update(d, s) EXCEPT !.ord = RemoveAt(@, Place(d, occ)),
                            !.done = @ \ {occ}, !.out = @ \ {occ}]

(* "before" is an upcoming row or NoOcc for the end of the queue.           *)
MoveRow(d, s, occ, before) ==
  LET up == Upcoming(d, s.cur)
      rest == RemoveAt(d.ord, Place(d, occ))
      at == IF before = NoOcc THEN Len(rest) + 1
            ELSE CHOOSE n \in 1..Len(rest) : rest[n] = before
  IN IF ~EditBaseline(d, s) \/ ({occ, before} \ {NoOcc}) \ ToSet(up) # {}
     THEN Refused
     ELSE [Update(d, s) EXCEPT !.ord = InsertAt(rest, at, occ)]

Select(d, s) ==
  IF s.cur \notin ToSet(d.ord) THEN Refused
  ELSE OpenOn(Update(CloseActive(d), s), s.cur)

Clear(d, s) ==
  [Update(CloseActive(d), s) EXCEPT !.ord = <<>>, !.done = {}, !.out = {}]

(* The outcome of a departed occurrence, written once: its attempt must     *)
(* still be the open one.                                                   *)
TerminalLeavingOpen(d, s, departed) ==
  OpenAfterDeparture(
    [Update(d, s) EXCEPT !.out = @ \cup {departed}, !.act = NoOcc], departed)
Terminal(d, s, departed) ==
  IF d.act # departed THEN Refused
  ELSE OpenAfterDeparture(
         [Update(CloseActive(d), s) EXCEPT !.out = @ \cup {departed}], departed)

Departure(d, s, departed) ==
  IF departed \notin d.done THEN Refused
  ELSE OpenAfterDeparture(Update(d, s), departed)

(* start_playback_attempt and reset_playback_attempt ("close" FALSE).       *)
StartAttempt(d, s, close) ==
  IF s.cur \notin ToSet(d.ord) \/ (d.act # NoOcc /\ ~close) THEN Refused
  ELSE OpenOn(Update(CloseActive(d), s), s.cur)

Checkpoint(d, s) == [d EXCEPT !.pos = s.pos]

-----------------------------------------------------------------------------
(* The audition (a preview played over the main queue).                     *)

SavedOK(saved) ==
  IF saved.cur = NoOcc THEN saved.pos = 0 /\ saved.st = "idle"
  ELSE saved.st # "idle"

ValidAudition(s, a) ==
  /\ a.saved.cur = s.cur
  /\ a.st \in {"paused", "buffering", "playing"}
  /\ SavedOK(a.saved)

AdmitAudition(d, s, a) ==
  IF d.aud # NoAud \/ ~ValidAudition(s, a) THEN Refused
  ELSE [Update(d, s) EXCEPT !.aud = a]

ReplaceAudition(d, s, old, a) ==
  IF d.aud.id # old.id \/ ~ValidAudition(s, old) \/ ~ValidAudition(s, a)
     \/ old.saved # a.saved
  THEN Refused
  ELSE [Update(d, s) EXCEPT !.aud = a]

FinishAudition(d, s, a) ==
  IF d.aud.id # a.id \/ ~ValidAudition(s, a) THEN Refused
  ELSE [Update(d, s) EXCEPT !.aud = NoAud]

CheckpointAudition(d, a) ==
  IF d.aud.id # a.id THEN Refused
  ELSE [d EXCEPT !.aud = [a EXCEPT !.saved = d.aud.saved]]

RecordAuditionFailure(d, s, a) ==
  IF ~ValidAudition(s, a) THEN Refused ELSE CheckpointAudition(d, a)

-----------------------------------------------------------------------------
(* What restore accepts: validate_playback_session, then the audition row   *)
(* that dismiss_interrupted_audition validates.                             *)
ValidSession(d) ==
  /\ (d.ord = <<>>) = (d.cur = NoOcc)
  /\ (d.ord = <<>>) = (d.st = "idle")
  /\ d.ord = <<>> => d.pos = 0
  /\ d.act # NoOcc => d.act = d.cur
  /\ d.cur # NoOcc => d.cur \in ToSet(d.ord)
  /\ IsInjective(d.ord)

Main(d) == [cur |-> d.cur, pos |-> d.pos, rev |-> d.rev, st |-> d.st]

RestingState(cur) == IF cur = NoOcc THEN "idle" ELSE "paused"

(* The main session as it was when the audition began.                      *)
Dismissed(d) ==
  [Main(d) EXCEPT !.cur = d.aud.saved.cur, !.pos = d.aud.saved.pos,
                  !.st = RestingState(d.aud.saved.cur)]

Dismiss(d) ==
  IF d.aud = NoAud THEN d
  ELSE IF ValidAudition(d, d.aud) THEN FinishAudition(d, Dismissed(d), d.aud)
  ELSE Refused

Restorable(d) == ValidSession(d) /\ (d.aud = NoAud \/ ValidAudition(d, d.aud))
=============================================================================
