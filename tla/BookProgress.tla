---------------------------- MODULE BookProgress -----------------------------
(***************************************************************************)
(* How far a book was heard, told to the server that keeps it.  A book is  *)
(* played from one file or as an album; the album is reserved first and    *)
(* queued when the server has said where to start.  A row on disk ties the *)
(* current occurrence to its place in the book; one reporter looks at the  *)
(* player now and then, asks the server whether the book is still the same *)
(* and writes the place.  Between its looks the player goes on.            *)
(*                                                                         *)
(* Generations, control epochs and the queue revision are only compared    *)
(* with what they were: "same" says that the first two have not changed    *)
(* since the reporter looked, a reservation that names old ones is gone.   *)
(* No preview, no restart of the daemon, one book of two files; positions  *)
(* are coarse.  The owner is PlaybackOwner's, with what matters here.      *)
(***************************************************************************)
EXTENDS Naturals, Sequences, SequencesExt

CONSTANTS
  PartLen,    \* the length of each file as the server gives it
  Slack,      \* the last second of the book
  BackLimit,  \* the 3 s up to which Back leaves the track
  Lasts,      \* what a file may really last: the decoder decides
  Kept,       \* the progress the server may hold, whoever wrote it
  Limits      \* how often each may happen: play, control, edit, fault, shelf, all together,
              \* look; and whether music is on at first

VARIABLES
  player,  \* Inner.session, Inner.playback, the queue and the output gate
  row,     \* playback_book_continuity
  timing,  \* playback_book_mapping: the version of the book it holds, 0 for none
  tried,   \* playback_attempts: the open one, and the last end of each occurrence
  pend,    \* AlbumAdmissionState.pending
  jobs,    \* requests that ask the server before they queue or save
  shelf,   \* the server: the version of the book
  rep,     \* run_reporter
  wanted,  \* history: the newest reservation, if nothing was asked of the player since
  past,    \* history: the place heard last, and whether the place a Stop kept is stale
  room     \* how often each of the bounded things may still happen

ownerVars == <<player, row, timing, tried, past>>
vars == <<ownerVars, pend, jobs, shelf, rep, wanted, room>>

Total == 2 * PartLen
Music == 0
Offset(part) == IF part = 2 THEN PartLen ELSE 0
Real == player.real

NoRow == [occ |-> 0, part |-> 0, whole |-> 0, flush |-> FALSE, valid |-> FALSE, ver |-> 0]
NoPend == 0
NoEnd == [how |-> "no", pos |-> 0]
NeverSent == [occ |-> 0, whole |-> 0, fin |-> FALSE]
Resting(last) ==
  [at |-> "rest", same |-> FALSE, occ |-> 0, part |-> 0, status |-> "idle", pos |-> 0,
   whole |-> 0, fin |-> FALSE, ver |-> 0, then |-> 0, excused |-> FALSE, last |-> last]

(* How many occurrences may ever be queued, a bound of this model.         *)
MaxIds == 5
Idle(len) ==
  [list |-> <<>>, cur |-> 0, status |-> "idle", pos |-> 0, seek |-> "no",
   meta |-> FALSE, gate |-> FALSE, next |-> 1, real |-> len]
WithMusic(len) ==
  [Idle(len) EXCEPT !.list = <<[id |-> 1, part |-> Music]>>, !.cur = 1, !.status = "loading",
                    !.seek = "resume", !.meta = TRUE, !.next = 2]
(* The queue is empty, or something that is no book plays and is seeking.  *)
Init ==
  /\ room \in Limits
  /\ \E len \in Lasts : player = IF room.music THEN WithMusic(len) ELSE Idle(len)
  /\ row = NoRow /\ timing = 0
  /\ tried = [open |-> player.cur, end |-> [o \in 1..MaxIds |-> NoEnd]]
  /\ pend = NoPend /\ jobs = {} /\ rep = Resting(NeverSent)
  /\ shelf = 1 /\ wanted = 0
  /\ past = [heard |-> 0, stale |-> FALSE, older |-> FALSE, unwanted |-> FALSE]

Spends(what) ==
  /\ room[what] > 0 /\ room.all > 0
  /\ room' = [room EXCEPT ![what] = @ - 1, !.all = @ - 1]

Cur == player.list[player.cur]
CurId == IF player.cur = 0 THEN 0 ELSE Cur.id
HasNext == player.cur < Len(player.list)
Next_ == player.list[player.cur + 1]
Here(pos) == Offset(Cur.part) + pos
Ended == tried.end[CurId].how = "natural"

-----------------------------------------------------------------------------
(* What every handler of the owner shares.                                 *)

(* The control epoch or the generation changes: the reporter's look is old *)
(* and a reservation is gone.                                              *)
Moves == pend' = NoPend /\ rep' = [rep EXCEPT !.same = FALSE]

(* The place that was heard last, kept when it stops sounding.             *)
Heard == IF player.status = "active" THEN Here(player.pos) ELSE past.heard
Remembers == past' = [past EXCEPT !.heard = Heard]
(* "older": its end on disk is an older listening's.                       *)
Sounds(id) == past' = [past EXCEPT !.heard = 0, !.older = tried.end[id].how = "natural"]

(* What a row on disk becomes when the session's position is stored, and   *)
(* when another occurrence becomes the current one.                        *)
Stored(r, part, pos) ==
  IF r = NoRow \/ r.flush THEN r
  ELSE IF Offset(part) + pos <= Total THEN [r EXCEPT !.whole = Offset(part) + pos]
  ELSE [r EXCEPT !.valid = FALSE]

(* planned_book_successor: only a natural end hands the book on.           *)
Planned(next) ==
  IF row.valid /\ timing # 0 /\ timing = row.ver /\ next.part # Music
  THEN [occ |-> next.id, part |-> next.part, whole |-> Offset(next.part),
        flush |-> FALSE, valid |-> TRUE, ver |-> timing]
  ELSE NoRow

Closes(how) ==
  [tried.end EXCEPT ![CurId] = [how |-> how, pos |-> IF how = "natural" THEN player.pos ELSE 0]]
Opens(id) == [tried EXCEPT !.open = id]
(* An end of an attempt that is not open is refused; the owner is stuck    *)
(* with it until Stop.                                                     *)
Freezes ==
  /\ player' = [player EXCEPT !.status = "frozen", !.gate = FALSE]
  /\ Remembers /\ Moves /\ UNCHANGED <<row, timing, tried>>

(* A control of the listener; a frozen owner takes only Stop.              *)
Controls == Spends("control") /\ player.cur # 0 /\ UNCHANGED <<jobs, shelf>>
Usable == player.status # "frozen"

-----------------------------------------------------------------------------
(* Playing by itself.                                                      *)

(* A preparation that is ready sounds, or waits if the gate is shut. One   *)
(* that stands at the very end starts over.                                *)
Starts ==
  /\ player.status = "loading" /\ player.seek = "no"
  /\ player' = [player EXCEPT !.status = IF player.gate THEN "active" ELSE "paused",
                              !.meta = TRUE, !.pos = IF @ = Real THEN 0 ELSE @]
  /\ IF player.gate THEN Sounds(CurId) ELSE UNCHANGED past
  /\ UNCHANGED <<row, timing, tried, pend, jobs, shelf, rep, room>>
Plays ==
  /\ player.status = "active" /\ player.pos < Real
  /\ player' = [player EXCEPT !.pos = @ + 1]
  /\ row' = Stored(row, Cur.part, player.pos + 1)
  /\ UNCHANGED <<timing, tried, past, pend, jobs, shelf, rep, room>>

AtEnd == player.status = "active" /\ player.pos = Real
Onward(status) ==
  /\ HasNext /\ tried.open = CurId
  /\ player' = [player EXCEPT !.cur = @ + 1, !.pos = 0, !.status = status, !.meta = status = "active"]
  /\ row' = Planned(Next_)
  /\ tried' = [open |-> Next_.id, end |-> Closes("natural")]
  /\ IF status = "active" THEN Sounds(Next_.id) ELSE Remembers
  /\ UNCHANGED timing

(* complete_occurrence, and the boundary without a gap: the successor      *)
(* sounds in the same generation.                                          *)
Completes ==
  /\ AtEnd /\ UNCHANGED <<jobs, shelf, room>>
  /\ \/ Onward("loading") /\ Moves
     \/ ~HasNext /\ tried.open = CurId
        /\ player' = [player EXCEPT !.status = "completed", !.gate = FALSE]
        /\ tried' = [open |-> 0, end |-> Closes("natural")]
        /\ past' = [past EXCEPT !.heard = Heard, !.older = FALSE] /\ UNCHANGED <<row, timing, pend, rep>>
     \/ tried.open # CurId /\ Freezes
HandsOver == AtEnd /\ Onward("active") /\ UNCHANGED <<pend, jobs, shelf, rep, room>>

Fails ==
  /\ player.status \in {"active", "loading"} /\ player.seek = "no"
  /\ Spends("fault") /\ UNCHANGED <<jobs, shelf>>
  /\ \/ tried.open = CurId
        /\ player' = [player EXCEPT !.status = "error", !.gate = FALSE]
        /\ tried' = [open |-> 0, end |-> Closes("other")]
        /\ Remembers /\ UNCHANGED <<row, timing, pend, rep>>
     \/ tried.open # CurId /\ Freezes

SeekLands ==
  /\ player.seek # "no"
  /\ \E to \in 0..(Real - 1) :
       /\ player' = [player EXCEPT !.pos = to, !.seek = "no", !.gate = player.seek = "resume",
                                   !.status = IF player.seek = "resume" THEN "active" ELSE "paused"]
       /\ row' = Stored(row, Cur.part, to)
  /\ IF player.seek = "resume" THEN Sounds(CurId) ELSE UNCHANGED past
  /\ UNCHANGED <<timing, tried, pend, jobs, shelf, rep, room>>
SeekFails ==
  /\ player.seek # "no" /\ Spends("fault")
  /\ player' = [player EXCEPT !.seek = "no", !.gate = FALSE, !.status = "error"]
  /\ UNCHANGED <<row, timing, tried, past, pend, jobs, shelf, rep>>

-----------------------------------------------------------------------------
(* Transport (control_inner, seek_inner).                                  *)

(* Pause and Resume while a seek is under way only say how it shall end:   *)
(* no epoch changes, but a reservation goes.                               *)
Intends(resume) ==
  /\ player' = [player EXCEPT !.seek = IF resume THEN "resume" ELSE "stay", !.gate = FALSE,
                              !.status = IF resume THEN "loading" ELSE "paused"]
  /\ pend' = NoPend /\ UNCHANGED <<row, timing, tried, past, rep>>

Pause ==
  /\ Controls /\ Usable
  /\ \/ player.seek # "no" /\ Intends(FALSE)
     \/ player.seek = "no"
        /\ player' = [player EXCEPT !.status = "paused", !.gate = FALSE]
        /\ Remembers /\ Moves /\ UNCHANGED <<row, timing, tried>>

(* Listening again to what has ended opens another attempt.                *)
Again ==
  IF tried.open = 0 /\ (player.status \in {"completed", "error"} \/ tried.end[CurId].how # "no")
  THEN Opens(CurId) ELSE tried
Resume ==
  /\ Controls /\ Usable /\ ~player.gate
  /\ \/ player.seek # "no" /\ Intends(TRUE)
     \/ player.seek = "no"
        /\ player' = [player EXCEPT !.status = "loading", !.gate = TRUE,
                                    !.pos = IF player.status = "completed" THEN 0 ELSE @]
        /\ row' = [row EXCEPT !.flush = FALSE]
        /\ tried' = Again /\ past' = [past EXCEPT !.stale = FALSE]
        /\ Moves /\ UNCHANGED timing
Retry ==
  /\ Controls /\ player.status = "error"
  /\ player' = [player EXCEPT !.status = "loading", !.gate = TRUE]
  /\ tried' = IF tried.open = 0 THEN Opens(CurId) ELSE tried
  /\ past' = [past EXCEPT !.stale = @ \/ row.flush]
  /\ Moves /\ UNCHANGED <<row, timing>>

Sounding == player.status \in {"active", "loading"}
Forward ==
  /\ Controls /\ Usable /\ HasNext
  /\ \/ /\ tried.open = CurId \/ tried.end[CurId].how # "no"
        /\ player' = [player EXCEPT !.cur = @ + 1, !.pos = 0, !.meta = FALSE, !.seek = "no",
                        !.gate = Sounding,
                        !.status = IF Sounding THEN "loading"
                                   ELSE IF @ \in {"stopped", "completed"} THEN "stopped" ELSE "paused"]
        /\ row' = NoRow
        /\ tried' = [open |-> Next_.id,
                     end |-> IF tried.open = CurId THEN Closes("other") ELSE tried.end]
        /\ Remembers /\ Moves /\ UNCHANGED timing
     \/ tried.open # CurId /\ tried.end[CurId].how = "no" /\ Freezes

Back ==
  LET to == IF player.pos <= BackLimit /\ player.cur > 1 THEN player.cur - 1 ELSE player.cur
      audible == IF player.seek = "no" THEN player.gate ELSE player.seek = "resume"
  IN /\ Controls /\ Usable
     /\ player' = [player EXCEPT !.cur = to, !.pos = 0, !.seek = "no", !.status = "loading",
                                 !.gate = audible, !.meta = @ /\ to = player.cur]
     /\ row' = IF to = player.cur THEN row ELSE NoRow
     /\ tried' = [open |-> player.list[to].id,
                  end |-> IF tried.open = CurId THEN Closes("other") ELSE tried.end]
     /\ Remembers /\ Moves /\ UNCHANGED timing

(* Stop keeps the place of what sounds, or has ended, for the reporter,    *)
(* and only then goes to the start of the track.                           *)
Flushes ==
  /\ player.status = "active" \/ (player.status = "completed" /\ Ended)
  /\ player.seek = "no" /\ player.meta /\ row.valid /\ Here(player.pos) <= Total
Flushed ==
  IF Flushes THEN [row EXCEPT !.whole = Here(player.pos), !.flush = TRUE]
  ELSE row
Stop ==
  /\ Controls
  /\ row' = Stored(Flushed, Cur.part, 0)
  /\ player' = [player EXCEPT !.status = "stopped", !.gate = FALSE, !.seek = "no", !.pos = 0]
  /\ past' = [past EXCEPT !.heard = Heard, !.stale = IF Flushes THEN past.older /\ player.status = "completed" ELSE @]
  /\ Moves /\ UNCHANGED <<timing, tried>>

(* A target at the very end completes at once; any other is prepared, and  *)
(* is chosen here when it lands.                                           *)
Seek ==
  /\ Controls /\ Usable /\ player.meta
  /\ \/ /\ player' = [player EXCEPT !.status = "completed", !.gate = FALSE, !.seek = "no", !.pos = Real]
        /\ row' = Stored(row, Cur.part, Real)
     \/ /\ player' = [player EXCEPT !.status = IF Sounding THEN "loading" ELSE "paused", !.gate = FALSE,
                                    !.seek = IF Sounding THEN "resume" ELSE "stay"]
        /\ UNCHANGED row
  /\ Remembers /\ Moves /\ UNCHANGED <<timing, tried>>

-----------------------------------------------------------------------------
(* The queue.                                                              *)

Loaded(list, cur, pos, ids) ==
  [player EXCEPT !.list = list, !.cur = cur, !.pos = pos, !.status = "loading", !.gate = TRUE,
                 !.seek = "no", !.meta = FALSE, !.next = @ + ids]
Forgotten == [past EXCEPT !.heard = 0, !.stale = FALSE, !.older = FALSE]

(* playTrack queues the file at once; a task asks the server and saves the *)
(* row when the answer comes, if the occurrence is still the current one.  *)
PlayTrack == \E part \in {1, 2} :
  LET id == player.next
  IN /\ Spends("play") /\ id <= MaxIds
     /\ player' = Loaded(<<[id |-> id, part |-> part]>>, 1, 0, 1)
     /\ row' = NoRow /\ timing' = 0 /\ tried' = Opens(id) /\ past' = Forgotten
     /\ jobs' = jobs \cup {[k |-> "track", id |-> id, part |-> part, pos |-> 0, ver |-> 0]}
     /\ Moves /\ UNCHANGED shelf
TrackAsks == \E j \in jobs :
  /\ j.k = "track" /\ j.ver = 0
  /\ \/ jobs' = (jobs \ {j}) \cup {[j EXCEPT !.ver = shelf]}
     \/ jobs' = jobs \ {j}
  /\ UNCHANGED <<ownerVars, pend, shelf, rep, room>>

(* save_book_continuity_with_timing.                                       *)
Saved(occ, part, pos, ver) ==
  [occ |-> occ, part |-> part, whole |-> Offset(part) + pos, flush |-> FALSE, valid |-> TRUE, ver |-> ver]
TrackSaves == \E j \in jobs :
  /\ j.k = "track" /\ j.ver # 0
  /\ jobs' = jobs \ {j}
  /\ IF CurId = j.id /\ row.occ # j.id
     THEN row' = Saved(j.id, j.part, 0, j.ver) /\ timing' = IF timing = 0 THEN j.ver ELSE timing
     ELSE UNCHANGED <<row, timing>>
  /\ UNCHANGED <<player, tried, past, pend, shelf, rep, room>>

(* playAlbum reserves; the newest reservation counts.                      *)
Reserve ==
  /\ Spends("play")
  /\ pend' = room.play
  /\ jobs' = jobs \cup {[k |-> "album", id |-> room.play, part |-> 0, pos |-> 0, ver |-> 0]}
  /\ UNCHANGED <<ownerVars, shelf, rep>>

(* decide_resume: a boundary belongs to the next file.                     *)
Beginning == [part |-> 1, pos |-> 0]
Decided(prog) ==
  IF ~prog.kept \/ prog.fin THEN {Beginning}
  ELSE IF prog.whole >= Total THEN {}
  ELSE IF prog.whole >= PartLen THEN {[part |-> 2, pos |-> prog.whole - PartLen]}
  ELSE {[part |-> 1, pos |-> prog.whole]}
(* The album comes with its timing and its start, or without.              *)
AlbumAsks == \E j \in jobs :
  /\ j.k = "album" /\ j.part = 0
  /\ \/ jobs' = (jobs \ {j}) \cup {[j EXCEPT !.part = 1]}
     \/ \E prog \in Kept : \E start \in Decided(prog) :
          jobs' = (jobs \ {j}) \cup {[j EXCEPT !.part = start.part, !.pos = start.pos, !.ver = shelf]}
  /\ UNCHANGED <<ownerVars, pend, shelf, rep, room>>
(* The 60 s are over, the request is dropped, or the server has no album.  *)
AlbumGivenUp == \E j \in jobs :
  /\ j.k = "album" /\ j.part = 0
  /\ jobs' = jobs \ {j} /\ pend' = IF pend = j.id THEN NoPend ELSE pend
  /\ UNCHANGED <<ownerVars, shelf, rep, room>>
AlbumCommits == \E j \in jobs :
  LET id == player.next
      at == id + j.part - 1
  IN /\ j.k = "album" /\ j.part # 0
     /\ jobs' = jobs \ {j}
     /\ \/ pend # j.id /\ UNCHANGED <<ownerVars, pend, rep>>
        \/ /\ pend = j.id /\ id < MaxIds
           /\ player' = Loaded(<<[id |-> id, part |-> 1], [id |-> id + 1, part |-> 2]>>, j.part, j.pos, 2)
           /\ row' = IF j.ver = 0 THEN NoRow ELSE Saved(at, j.part, j.pos, j.ver)
           /\ timing' = j.ver /\ tried' = Opens(at)
           /\ past' = [Forgotten EXCEPT !.unwanted = @ \/ wanted # j.id]
           /\ Moves
     /\ UNCHANGED <<shelf, room>>

(* An edit of what comes next changes the revision, not the epoch.         *)
Append_ == \E part \in {Music, 2} :
  /\ Spends("edit") /\ player.cur # 0 /\ Usable /\ player.next <= MaxIds
  /\ player' = [player EXCEPT !.list = Append(@, [id |-> player.next, part |-> part]), !.next = @ + 1]
  /\ timing' = 0 /\ pend' = NoPend
  /\ UNCHANGED <<row, tried, past, jobs, shelf, rep>>

-----------------------------------------------------------------------------
(* The server: its files change, or another player writes the progress.    *)
Rescans ==
  /\ Spends("shelf") /\ shelf' = 2
  /\ UNCHANGED <<ownerVars, pend, jobs, rep>>

(* The reporter.  It looks at the player, reads the row and how the        *)
(* occurrence ended, asks the server for the book, looks again, writes.    *)
(* A look at what plays counts against room.look, a bound of this model.   *)
Rests == rep' = Resting(rep.last)
Look ==
  /\ rep.at = "rest" /\ CurId # 0
  /\ player.status \in {"active", "completed", "stopped"} /\ player.seek = "no"
  /\ IF player.status = "active" THEN room.look > 0 /\ room' = [room EXCEPT !.look = @ - 1]
     ELSE UNCHANGED room
  /\ rep' = [Resting(rep.last) EXCEPT !.at = "looked", !.same = TRUE, !.occ = CurId,
               !.part = Cur.part, !.status = player.status, !.pos = player.pos]
  /\ UNCHANGED <<ownerVars, pend, jobs, shelf>>

(* What there is to tell, if anything: 15 s or 15 s of the book have       *)
(* passed, or not.                                                         *)
Known == row.occ = rep.occ /\ CurId = rep.occ /\ row.valid
Tellable ==
  CASE rep.status = "completed" ->
         IF tried.end[rep.occ].how = "natural" THEN {Offset(rep.part) + tried.end[rep.occ].pos} ELSE {}
    [] rep.status = "stopped" -> IF row.flush THEN {row.whole} ELSE {}
    [] rep.status = "active" -> {Offset(rep.part) + rep.pos}
Judge ==
  /\ rep.at = "looked"
  /\ \/ \E whole \in Tellable :
          Known /\ whole <= Total
          /\ rep' = [rep EXCEPT !.at = "judged", !.whole = whole, !.ver = row.ver]
     \/ (rep.status = "active" \/ ~Known \/ \A whole \in Tellable : whole > Total) /\ Rests
  /\ UNCHANGED <<ownerVars, pend, jobs, shelf, room>>

(* The book is finished if its last file ended by itself.                  *)
Finished ==
  /\ rep.status # "active" /\ rep.part = 2 /\ rep.whole >= Total - Slack
  /\ tried.end[rep.occ].how = "natural"
Invalidates == row' = IF row.occ = rep.occ THEN [row EXCEPT !.valid = FALSE] ELSE row
Resolve ==
  LET fin == Finished
      whole == IF fin THEN Total ELSE rep.whole
  IN /\ rep.at = "judged"
     /\ \/ Spends("fault") /\ Rests /\ UNCHANGED row
        \/ /\ shelf # rep.ver \/ rep.pos > PartLen
           /\ Rests /\ Invalidates /\ UNCHANGED room
        \/ /\ shelf = rep.ver /\ rep.pos <= PartLen
           /\ IF rep.last = [occ |-> rep.occ, whole |-> whole, fin |-> fin] THEN Rests
              ELSE rep' = [rep EXCEPT !.at = "resolved", !.pos = 0, !.part = 0, !.whole = whole, !.fin = fin]
           /\ UNCHANGED <<row, room>>
     /\ UNCHANGED <<player, timing, tried, past, pend, jobs, shelf>>

UnchangedInName == TRUE   \* mutant: only the occurrence is compared
Unchanged == rep.same
Check ==
  /\ rep.at = "resolved"
  /\ \/ /\ CurId = rep.occ /\ Unchanged /\ player.seek = "no" /\ Known /\ row.ver = rep.ver
        /\ rep' = [rep EXCEPT !.at = "checked", !.same = FALSE, !.then = Heard,
                     !.excused = \/ rep.status = "completed" /\ past.older
                                 \/ rep.status = "stopped" /\ past.stale]
     \/ ~(CurId = rep.occ /\ Unchanged /\ player.seek = "no" /\ Known /\ row.ver = rep.ver) /\ Rests
  /\ UNCHANGED <<ownerVars, pend, jobs, shelf, room>>

(* write_book_progress asks for the book once more. A write that fails may *)
(* have been done; it is only not known to be.                             *)
Write ==
  /\ rep.at = "checked"
  /\ \/ shelf # rep.ver /\ Rests /\ Invalidates /\ UNCHANGED room
     \/ /\ shelf = rep.ver
        /\ rep' = Resting(IF CurId = rep.occ THEN [occ |-> rep.occ, whole |-> rep.whole, fin |-> rep.fin]
                          ELSE rep.last)
        /\ UNCHANGED <<row, room>>
     \/ Spends("fault") /\ Rests /\ UNCHANGED row
  /\ UNCHANGED <<player, timing, tried, past, pend, jobs, shelf>>
Report == Look \/ Judge \/ Resolve \/ Check \/ Write

Playing == Starts \/ Plays \/ Completes \/ HandsOver \/ Fails \/ SeekLands \/ SeekFails
Transport == Pause \/ Resume \/ Retry \/ Forward \/ Back \/ Stop \/ Seek
Queueing == PlayTrack \/ Append_
Answering == TrackAsks \/ TrackSaves \/ AlbumAsks \/ AlbumGivenUp \/ AlbumCommits
Next ==
  \/ (Playing \/ Answering \/ Rescans \/ Report) /\ UNCHANGED wanted
  \/ (Transport \/ Queueing) /\ wanted' = 0
  \/ Reserve /\ wanted' = pend'

-----------------------------------------------------------------------------
(* Properties.                                                             *)

(* The row on disk belongs to the current occurrence, whatever late save,  *)
(* handoff or skip came last.                                              *)
RowIsCurrent == row # NoRow =>
  /\ row.occ = CurId /\ row.part = Cur.part
  /\ timing # 0 => timing = row.ver

(* What the reporter is about to write, with the player as it stood at its *)
(* second look: never ahead of the listener; after a Stop, exactly the     *)
(* place that was heard last; finished, only if the end was heard. Two     *)
(* ways around this are known, and "excused": a Retry after a Stop leaves  *)
(* the place of the Stop standing, and a second listening that was sent to *)
(* the end by a seek is taken for the first, which ended by itself.        *)
ToldIsHeard == rep.at = "checked" /\ ~rep.excused =>
  CASE rep.fin -> rep.whole = Total /\ rep.then >= Total - Slack
    [] ~rep.fin /\ rep.status = "active" -> rep.whole <= rep.then
    [] ~rep.fin /\ rep.status # "active" -> rep.whole = rep.then

(* An album is queued only if nothing was asked of the player since.       *)
AlbumIsWanted == ~past.unwanted

BooksSafe == RowIsCurrent /\ ToldIsHeard /\ AlbumIsWanted

(* The last place is told: what a Stop kept, and the end of the last track *)
(* of the queue, reach the server unless the listener goes on, the book    *)
(* changed or the file is longer than the server says.                     *)
LeftAt ==
  IF player.status = "stopped" /\ row.flush THEN row.whole
  ELSE Offset(Cur.part) + tried.end[CurId].pos
FinalDue ==
  /\ CurId # 0 /\ row.occ = CurId /\ row.valid
  /\ \/ player.status = "stopped" /\ row.flush
     \/ player.status = "completed" /\ Ended /\ player.pos <= PartLen /\ LeftAt <= Total
FinalTold == rep.last.occ = CurId /\ (rep.last.whole = LeftAt \/ rep.last.fin)
FinalIsTold == FinalDue ~> ~FinalDue \/ FinalTold

Fairness == WF_vars(Report /\ UNCHANGED wanted)
Spec == Init /\ [][Next]_vars /\ Fairness
=============================================================================
