----------------------------- MODULE OutputTail -----------------------------
(***************************************************************************)
(* The output where a Pause takes back what the device has not played yet  *)
(* (Windows).  The callback keeps a history of what it handed over, the    *)
(* tail.  Pause shuts the gate, stops the device and learns how much was   *)
(* still waiting in its buffer; that much of the tail becomes the replay,  *)
(* which the callback hands over again before anything new.  The counters  *)
(* of the listener's position and the mark of a track boundary go back     *)
(* with it.                                                                *)
(*                                                                         *)
(* Frames are numbered through the tracks of the queue; 0 is silence.      *)
(* Absolute frame numbers only occur in differences with what the device   *)
(* has presented, so that difference is kept: a mark or a deadline is the  *)
(* number of frames still to be presented before it, negative once it has  *)
(* passed.  What Stop and Reset do is the vendored audio library's.        *)
(***************************************************************************)
EXTENDS Integers, Sequences, FiniteSets, SequencesExt

CONSTANTS
  Tracks,     \* the frames of each track, in queue order
  Frames,     \* frames the device's buffer holds
  TailCap,    \* frames that the tail and the replay hold
  MaxPauses, MaxGaps

VARIABLES
  line,     \* the device: running, its buffer, what it presented, what was heard
  cb,       \* the callback: inside, permission, what it has rendered
  pcm,      \* next frame, the slot's track, the successor that is ready
  tail, replay,
  count,    \* frames submitted and not presented, frames of music consumed
  mark,     \* the boundary: its frame, the samples before it, its deadline
  gate,
  place,    \* the position shown, and the base it is computed from
  until,    \* when everything submitted will have been presented
  worker,   \* the output worker's loop
  owner,    \* the session's current track, its position and where the owner is
  hist      \* bounds, and what the exceptions are about
vars == <<line, cb, pcm, tail, replay, count, mark, gate, place, until, worker, owner, hist>>

-----------------------------------------------------------------------------
FirstOf(k) == 1 + FoldLeft(+, 0, SubSeq(Tracks, 1, k - 1))
LastOf(k) == FirstOf(k) + Tracks[k] - 1
TrackOf(f) == CHOOSE k \in DOMAIN Tracks : f \in FirstOf(k) .. LastOf(k)
AllFrames == LastOf(Len(Tracks))
Never == 10000         \* u64::MAX
Past == -AllFrames     \* long ago
(* One more frame has been presented.                                      *)
Nearer(d) == IF d = Never \/ d = Past THEN d ELSE d - 1
Less(a, b) == IF a > b THEN a - b ELSE 0

SubmittedFrame(f, b) == [f |-> f, boundary |-> b]
Silence == SubmittedFrame(0, FALSE)
LogicalAll(s) == Len(s)
Logical(s) == Len(SelectSeq(s, LAMBDA x : x.f # 0))
NoBoundary == [frame |-> Never, samples |-> 0, due |-> Never]

Presented == worker.pending /\ mark.due <= 0
(* Frames of the successor that were presented when it is asked.           *)
SuccessorOffset ==
  LET submitted == Less(count.consumed, mark.samples)
  IN IF -mark.due < submitted THEN -mark.due ELSE submitted

Init ==
  /\ line = [on |-> TRUE, pad |-> <<>>, heard |-> <<>>]
  /\ cb = [in |-> FALSE, on |-> FALSE, out |-> <<>>, boundary |-> Never, own |-> 0, left |-> 0,
           told |-> FALSE]
  /\ pcm = [next |-> 1, track |-> 1, ready |-> FALSE]
  /\ tail = <<>> /\ replay = <<>>
  /\ count = [ahead |-> 0, consumed |-> 0]
  /\ mark = NoBoundary
  /\ gate = TRUE
  /\ place = [at |-> 0, base |-> 0, since |-> 0]
  /\ until = Past
  /\ worker = [at |-> "top", samples |-> 0, quiet |-> FALSE, pending |-> FALSE, adopted |-> FALSE,
               published |-> FALSE, alive |-> TRUE, done |-> FALSE]
  /\ owner = [at |-> "idle", track |-> 1, pos |-> 0, playing |-> TRUE, was |-> 1, pending |-> 0]
  /\ hist = [pauses |-> 0, gaps |-> 0, stale |-> FALSE, unsettled |-> FALSE, cut |-> FALSE]

-----------------------------------------------------------------------------
(* The callback: fill what is free in the device's buffer, frame by frame, *)
(* then account for it.                                                    *)
CbEnter ==
  /\ line.on /\ ~cb.in /\ worker.alive /\ Len(line.pad) < Frames
  /\ cb' = [cb EXCEPT !.in = TRUE, !.on = gate, !.out = <<>>, !.boundary = Never, !.own = 0,
                      !.left = Frames - Len(line.pad), !.told = FALSE]
  /\ worker' = [worker EXCEPT !.quiet = FALSE]
  /\ UNCHANGED <<line, pcm, tail, replay, count, mark, gate, place, until, owner, hist>>

(* SubmittedTail::record evicts the oldest.                                *)
Recorded(x) == IF Len(tail) = TailCap THEN Append(Tail(tail), x) ELSE Append(tail, x)
(* What the callback returns grows by one frame.                           *)
Rendered(x, boundary, track) ==
  [cb EXCEPT !.out = Append(@, x.f), !.left = @ - 1, !.boundary = boundary,
             !.own = IF x.f # 0 /\ boundary # Never THEN @ + 1 ELSE @]

CbReplay ==
  /\ cb.in /\ cb.left > 0 /\ cb.on /\ gate /\ replay # <<>>
  /\ LET x == Head(replay) IN
       /\ cb' = Rendered(x, IF x.boundary THEN Len(cb.out) ELSE cb.boundary, 0)
       /\ tail' = Recorded(x)
       /\ hist' = [hist EXCEPT !.stale = @ \/ (x.boundary /\ TrackOf(x.f) <= owner.track)]
  /\ replay' = Tail(replay)
  /\ UNCHANGED <<line, pcm, count, mark, gate, place, until, worker, owner>>

(* The end of the decoder is known; the successor begins without a gap.    *)
Crosses == pcm.next > LastOf(pcm.track) /\ pcm.ready
CbFresh ==
  /\ cb.in /\ cb.left > 0 /\ cb.on /\ gate /\ replay = <<>>
  /\ LET boundary == IF Crosses THEN Len(cb.out) ELSE cb.boundary
         track == IF Crosses THEN pcm.track + 1 ELSE pcm.track
         x == SubmittedFrame(pcm.next, boundary = Len(cb.out))
     IN /\ pcm.next <= LastOf(track)
        /\ cb' = Rendered(x, boundary, track)
        /\ pcm' = [next |-> pcm.next + 1, track |-> track, ready |-> pcm.ready /\ ~Crosses]
        /\ tail' = Recorded(x)
  /\ UNCHANGED <<line, replay, count, mark, gate, place, until, worker, owner, hist>>

(* Nothing decoded yet, nothing left, or not allowed to.                   *)
CbSilence ==
  /\ cb.in /\ cb.left > 0
  /\ LET open == cb.on /\ gate
         dry == pcm.next > LastOf(pcm.track) /\ ~pcm.ready
         gap == open /\ ~dry
     IN /\ open => replay = <<>>
        /\ gap => hist.gaps < MaxGaps /\ ~Crosses
        /\ hist' = [hist EXCEPT !.gaps = IF gap THEN @ + 1 ELSE @]
  /\ cb' = Rendered(Silence, cb.boundary, 0)
  /\ tail' = Recorded(Silence)
  /\ UNCHANGED <<line, pcm, replay, count, mark, gate, place, until, worker, owner>>

CbAccount ==
  /\ cb.in /\ cb.left = 0 /\ ~cb.told
  /\ LET music == SelectSeq(cb.out, LAMBDA f : f # 0)
         last == CHOOSE n \in 0 .. Len(cb.out) :
                   /\ n # 0 => cb.out[n] # 0
                   /\ \A m \in n + 1 .. Len(cb.out) : cb.out[m] = 0
         at == count.ahead + cb.boundary
     IN /\ count' = [ahead |-> count.ahead + Len(cb.out),
                     consumed |-> count.consumed + Len(music)]
        /\ IF cb.boundary # Never /\ mark.frame = Never
           THEN mark' = [frame |-> at, due |-> at,
                         samples |-> count.consumed + Len(music) - cb.own]
           ELSE UNCHANGED mark
        /\ until' = IF last = 0 THEN until ELSE count.ahead + last
  /\ cb' = [cb EXCEPT !.told = TRUE]
  /\ UNCHANGED <<line, pcm, tail, replay, gate, place, worker, owner, hist>>

CbLeave ==
  /\ cb.in /\ cb.told
  /\ place' = [place EXCEPT !.at = place.base + Less(count.consumed, place.since)]
  /\ cb' = [cb EXCEPT !.in = FALSE, !.on = FALSE, !.out = <<>>, !.boundary = Never,
                      !.own = 0, !.told = FALSE]
  /\ line' = [line EXCEPT !.pad = @ \o cb.out]
  /\ UNCHANGED <<pcm, tail, replay, count, mark, gate, until, worker, owner, hist>>

Callback == CbEnter \/ CbReplay \/ CbFresh \/ CbSilence \/ CbAccount \/ CbLeave

DevicePlays ==
  /\ line.on /\ line.pad # <<>>
  /\ line' = [line EXCEPT !.pad = Tail(@),
                          !.heard = IF Head(line.pad) = 0 THEN @ ELSE Append(@, Head(line.pad))]
  /\ count' = [count EXCEPT !.ahead = @ - 1]
  /\ mark' = [mark EXCEPT !.frame = Nearer(@), !.due = Nearer(@)]
  /\ until' = Nearer(until)
  /\ UNCHANGED <<cb, pcm, tail, replay, gate, place, worker, owner, hist>>
(* The device stands still and the clock does not.                         *)
TimePasses ==
  /\ ~line.on
  /\ \/ mark.due # Never /\ mark.due # Past /\ mark' = [mark EXCEPT !.due = Past] /\ UNCHANGED until
     \/ until # Past /\ until' = Past /\ UNCHANGED mark
  /\ UNCHANGED <<line, cb, pcm, tail, replay, count, gate, place, worker, owner, hist>>

-----------------------------------------------------------------------------
(* The worker's loop, every 25 ms; a turn that changes nothing is left     *)
(* out.  The next successor is installed once the last one has settled.    *)
WkInstall ==
  /\ worker.alive /\ worker.at = "top" /\ ~worker.pending /\ pcm.track < Len(Tracks)
  /\ pcm' = [pcm EXCEPT !.ready = TRUE]
  /\ worker' = [worker EXCEPT !.pending = TRUE]
  /\ UNCHANGED <<line, cb, tail, replay, count, mark, gate, place, until, owner, hist>>
WkPublish ==
  /\ worker.alive /\ worker.at = "top" /\ ~worker.published /\ Presented
  /\ worker' = [worker EXCEPT !.published = TRUE]
  /\ UNCHANGED <<line, cb, pcm, tail, replay, count, mark, gate, place, until, owner, hist>>
(* What was adopted is settled, with the sample count that the turn of the *)
(* loop began with.                                                        *)
WkSettle ==
  /\ worker.alive /\ worker.at = "top" /\ worker.published /\ worker.adopted
  /\ worker' = [worker EXCEPT !.at = "base", !.samples = count.consumed]
  /\ UNCHANGED <<line, cb, pcm, tail, replay, count, mark, gate, place, until, owner, hist>>
(* The successor's position counts from its own first sample.              *)
WkBase ==
  /\ worker.alive /\ worker.at = "base"
  /\ place' = [place EXCEPT !.base = 0]
  /\ worker' = [worker EXCEPT !.at = "since"]
  /\ UNCHANGED <<line, cb, pcm, tail, replay, count, mark, gate, until, owner, hist>>
WkSince ==
  /\ worker.alive /\ worker.at = "since"
  /\ place' = [place EXCEPT !.since = mark.samples]
  /\ worker' = [worker EXCEPT !.at = "place"]
  /\ UNCHANGED <<line, cb, pcm, tail, replay, count, mark, gate, until, owner, hist>>
WkPlace ==
  /\ worker.alive /\ worker.at = "place"
  /\ place' = [place EXCEPT !.at = Less(worker.samples, place.since)]
  /\ worker' = [worker EXCEPT !.at = "clear"]
  /\ UNCHANGED <<line, cb, pcm, tail, replay, count, mark, gate, until, owner, hist>>
WkClear ==
  /\ worker.alive /\ worker.at = "clear"
  /\ mark' = [mark EXCEPT !.frame = Never, !.due = Never]
  /\ worker' = [worker EXCEPT !.pending = FALSE, !.adopted = FALSE, !.published = FALSE,
                              !.samples = 0, !.at = "top"]
  /\ UNCHANGED <<line, cb, pcm, tail, replay, count, gate, place, until, owner, hist>>

(* Completion: no successor, nothing left anywhere, the clock has passed   *)
(* and no callback ran in between.                                         *)
Exhausted == ~worker.pending /\ pcm.next > LastOf(pcm.track) /\ gate
WkAsk ==
  /\ worker.alive /\ worker.at = "top" /\ Exhausted /\ ~cb.in /\ replay = <<>>
  /\ worker' = [worker EXCEPT !.quiet = TRUE, !.at = "drained"]
  /\ UNCHANGED <<line, cb, pcm, tail, replay, count, mark, gate, place, until, owner, hist>>
WkDrained ==
  /\ worker.alive /\ worker.at = "drained"
  /\ LET drained == until <= 0 /\ worker.quiet IN
       worker' = [worker EXCEPT !.at = "top", !.quiet = FALSE, !.done = drained, !.alive = ~drained]
  /\ UNCHANGED <<line, cb, pcm, tail, replay, count, mark, gate, place, until, owner, hist>>
Worker ==
  \/ WkInstall \/ WkPublish \/ WkSettle \/ WkBase \/ WkSince \/ WkPlace \/ WkClear
  \/ WkAsk \/ WkDrained

-----------------------------------------------------------------------------
(* The owner.  A presented boundary makes the successor current; the       *)
(* receipt names the track before it.                                      *)
Adopts == Presented /\ ~worker.adopted
Adopted(track, pos) == [owner EXCEPT !.track = track + 1, !.pos = pos]
OwnerTick ==
  /\ worker.alive /\ owner.at = "idle" /\ Adopts
  /\ owner' = Adopted(owner.track, SuccessorOffset)
  /\ worker' = [worker EXCEPT !.adopted = TRUE]
  /\ UNCHANGED <<line, cb, pcm, tail, replay, count, mark, gate, place, until, hist>>

PauseGate ==
  /\ worker.alive /\ owner.at = "idle" /\ owner.playing /\ hist.pauses < MaxPauses
  /\ gate' = FALSE
  /\ owner' = [owner EXCEPT !.at = "wait", !.was = owner.track]
  /\ hist' = [hist EXCEPT !.pauses = @ + 1, !.unsettled = worker.adopted]
  /\ UNCHANGED <<line, cb, pcm, tail, replay, count, mark, place, until, worker>>
PauseWait ==
  /\ owner.at = "wait" /\ ~cb.in
  /\ owner' = [owner EXCEPT !.at = "stop"]
  /\ UNCHANGED <<line, cb, pcm, tail, replay, count, mark, gate, place, until, worker, hist>>
(* pause_snapshot, on the library's thread, between two callbacks: stop,   *)
(* read position and padding, reset.                                       *)
PauseStop ==
  /\ owner.at = "stop" /\ ~cb.in
  /\ line' = [line EXCEPT !.on = FALSE, !.pad = <<>>]
  /\ owner' = [owner EXCEPT !.at = "tail", !.pending = Len(line.pad)]
  /\ hist' = [hist EXCEPT !.cut = @ \/ worker.at = "drained"]
  /\ UNCHANGED <<cb, pcm, tail, replay, count, mark, gate, place, until, worker>>
(* What was still pending goes to the front of the replay.                 *)
PauseTail ==
  /\ owner.at = "tail"
  /\ LET back == SubSeq(tail, Len(tail) - owner.pending + 1, Len(tail)) IN
     IF owner.pending > Len(tail) \/ owner.pending + Len(replay) > TailCap
     THEN /\ mark' = [mark EXCEPT !.frame = Never, !.due = Never]
          /\ worker' = [worker EXCEPT !.alive = FALSE]
          /\ owner' = [owner EXCEPT !.at = "kept"]
          /\ UNCHANGED <<tail, replay, count, place>>
     ELSE /\ replay' = back \o replay
          /\ tail' = <<>>
          /\ count' = [ahead |-> count.ahead - owner.pending,
                       consumed |-> Less(count.consumed, Logical(back))]
          /\ place' = [place EXCEPT !.at = place.base + Less(count'.consumed, place.since)]
          /\ owner' = [owner EXCEPT !.at = "mark"]
          /\ UNCHANGED <<mark, worker>>
  /\ UNCHANGED <<line, cb, pcm, gate, until, hist>>
(* A boundary that was heard is due; one that was not loses its time.      *)
PauseMark ==
  /\ owner.at = "mark"
  /\ mark' = IF mark.frame = Never THEN mark
             ELSE IF mark.frame <= 0 THEN [mark EXCEPT !.due = Past]
             ELSE [mark EXCEPT !.frame = Never, !.due = Never]
  /\ owner' = [owner EXCEPT !.at = "kept"]
  /\ UNCHANGED <<line, cb, pcm, tail, replay, count, gate, place, until, worker, hist>>
(* The owner adopts what was heard; otherwise it keeps the position shown. *)
PauseKept ==
  /\ owner.at = "kept"
  /\ LET adopts == Adopts /\ worker.alive
         next == IF adopts THEN Adopted(owner.track, SuccessorOffset) ELSE owner
     IN /\ owner' = [next EXCEPT !.at = "idle", !.playing = FALSE,
                                 !.pos = IF next.track = owner.was THEN place.at ELSE @]
        /\ worker' = [worker EXCEPT !.adopted = @ \/ adopts]
  /\ UNCHANGED <<line, cb, pcm, tail, replay, count, mark, gate, place, until, hist>>

ResumeLine ==
  /\ worker.alive /\ owner.at = "idle" /\ ~owner.playing
  /\ line' = [line EXCEPT !.on = TRUE]
  /\ owner' = [owner EXCEPT !.at = "resume"]
  /\ UNCHANGED <<cb, pcm, tail, replay, count, mark, gate, place, until, worker, hist>>
ResumeGate ==
  /\ owner.at = "resume"
  /\ gate' = TRUE
  /\ owner' = [owner EXCEPT !.at = "idle", !.playing = TRUE]
  /\ UNCHANGED <<line, cb, pcm, tail, replay, count, mark, place, until, worker, hist>>
Owner ==
  \/ OwnerTick \/ PauseGate \/ PauseWait \/ PauseStop \/ PauseTail \/ PauseMark \/ PauseKept
  \/ ResumeLine \/ ResumeGate

(* A Pause at the very frame of a boundary adopts it and replays its first *)
(* frame, mark and all, which the next receipt takes for its own boundary: *)
(* what follows then is not followed here.                                 *)
Next ==
  ~hist.stale /\ (Callback \/ DevicePlays \/ TimePasses \/ Worker \/ Owner)
Spec == Init /\ [][Next]_vars

-----------------------------------------------------------------------------
TypeOK ==
  /\ line.on \in BOOLEAN /\ Len(line.pad) <= Frames
  /\ Len(tail) <= TailCap /\ Len(replay) <= TailCap
  /\ gate \in BOOLEAN /\ owner.track \in DOMAIN Tracks
  /\ {place.at, place.base, place.since, count.ahead, count.consumed} \subseteq Nat

(* The listener hears every frame once and in order, however often the     *)
(* player is paused while frames wait in the device.                       *)
HeardInOrder == \A i \in DOMAIN line.heard : line.heard[i] = i

HeardOf(k) == Len(SelectSeq(line.heard, LAMBDA f : TrackOf(f) = k))
(* A pause keeps the place where the listener is.                          *)
KeptIsHeard ==
  owner.at = "idle" /\ ~owner.playing /\ worker.alive /\ ~hist.unsettled
    => owner.pos = HeardOf(owner.track)

(* The session names a track only when everything before it was heard, and *)
(* names it once it was heard and the owner had its turn.                  *)
CurrentIsHeard == Len(line.heard) >= FirstOf(owner.track) - 1

(* A pipeline that reports completion has presented all it decoded.        *)
CompletedIsHeard == worker.done /\ ~hist.cut => Len(line.heard) = LastOf(pcm.track)

TailSafe == HeardInOrder /\ KeptIsHeard /\ CurrentIsHeard /\ CompletedIsHeard
=============================================================================
