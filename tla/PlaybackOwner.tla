---------------------------- MODULE PlaybackOwner ----------------------------
(***************************************************************************)
(* The playback owner (session.rs, owner_loop): one thread that executes   *)
(* commands, absorbs what the output pipeline reports, and keeps the       *)
(* durable session of PlaybackStore. Around it run the tasks that prepare  *)
(* a pipeline (commands.rs), the pipeline's worker (audio.rs), the real-   *)
(* time callback that feeds progress, shutdown, and crashes.               *)
(*                                                                         *)
(* A handler holds the owner's lock from start to end, so it is one step:  *)
(* an operator from worlds to worlds, a world being the record of all      *)
(* variables. Its writes to the disk fail or not as "f" says.              *)
(*                                                                         *)
(* Generations and control epochs are counters the code only compares with *)
(* the current value. So nothing carries a number here: rotating the       *)
(* generation discards at once what would be refused later for naming an   *)
(* old generation, and advancing the epoch marks what names an old epoch.  *)
(*                                                                         *)
(* The definitions named ...Anyway, ...Plainly and so on are what the code  *)
(* next to them would be with one plausible mistake: nothing uses them, and *)
(* every property of a passing run fails for one of them.                   *)
(*                                                                         *)
(* One output device, always available; a queue handoff is the two facts   *)
(* "claimed" and "heard" (SuccessorHandoff has the protocol behind them).  *)
(***************************************************************************)
EXTENDS PlaybackStore

CONSTANTS
  Commands,       \* the kinds of commands users send in this run
  Faults,         \* what may go wrong: "disk", "audio", "crash", "quit"
  Occs,           \* occurrence ids (recycled once no row bears them)
  MaxRows,        \* bound on the rows of the queue
  MaxRev,         \* bound on queue_revision
  Duration,       \* the length of every track, in coarse positions
  BackThreshold,  \* the 3 s up to which Back leaves the track
  Seekable        \* whether a pipeline qualifies for media-time seek

ASSUME StartAssumption ==
  /\ NoOcc \notin Occs /\ Occs \subseteq Nat
  /\ 1..MaxRows \subseteq Occs /\ \E top \in Occs : \A n \in Occs : n <= top
  /\ MaxRows \in Nat \ {0} /\ MaxRev \in Nat
  /\ Duration \in Nat \ {0} /\ BackThreshold \in 0..(Duration - 1)
  /\ Seekable \in BOOLEAN

VARIABLES
  db,      \* the disk
  ses,     \* Inner.session: [cur, pos, rev, st]
  pv,      \* Inner.preview, or NoPreview
  play,    \* Inner.playback: status, error, seek capability, pending work
  plan,    \* Inner.pending_terminal, or NoPlan
  inn,     \* the rest of Inner: dirty, restoration, preview_return_pending,
           \* checkpointed_position_ms
  gate,    \* the output gate
  pipe,    \* the installed pipeline of the current generation, or NoPipe
  task,    \* a preparation in flight: NoTask or [op, occ, pos]
  effect,  \* a preparation admitted and not yet begun
  late,    \* a superseded preparation that may still report its failure
  mail,    \* events published and not yet absorbed
  ing,     \* ProgressIngress: [occ, pos, pend]
  life     \* "up", then in a shutdown "gating", "fenced", "saved"

vars == <<db, ses, pv, play, plan, inn, gate, pipe, task, effect, late, mail,
          ing, life>>

NoPreview == [id |-> NoOcc]
NoPlan == [occ |-> NoOcc]
NoPipe == [live |-> "none"]
NoTask == [op |-> "none"]

(* Ids of auditions, apart from those of occurrences; two are enough, the   *)
(* code compares only the stored one with the one it replaces.              *)
AudIds == LET top == CHOOSE m \in Occs : \A n \in Occs : n <= m
          IN {top + 1, top + 2}
FreshAud(id) == CHOOSE a \in AudIds : a # id

World == [db |-> db, ses |-> ses, pv |-> pv, play |-> play, plan |-> plan,
          inn |-> inn, gate |-> gate, pipe |-> pipe, task |-> task,
          effect |-> effect, late |-> late, mail |-> mail, ing |-> ing,
          ok |-> TRUE]

(* The next state is the world v (bound, so that it is evaluated once).     *)
Becomes(v) == \E w \in {v} :
  /\ db' = w.db /\ ses' = w.ses /\ pv' = w.pv /\ play' = w.play
  /\ plan' = w.plan /\ inn' = w.inn /\ gate' = w.gate /\ pipe' = w.pipe
  /\ task' = w.task /\ effect' = w.effect /\ late' = w.late
  /\ mail' = w.mail /\ ing' = w.ing

Err(w) == [w EXCEPT !.ok = FALSE]

(* What the disk does to a handler: an access before its transaction, the   *)
(* transaction itself, and one after it. One of them fails at most.         *)
Disk == LET fine == [early |-> TRUE, write |-> TRUE, later |-> TRUE]
        IN IF "disk" \in Faults
           THEN {fine, [fine EXCEPT !.early = FALSE],
                 [fine EXCEPT !.write = FALSE], [fine EXCEPT !.later = FALSE]}
           ELSE {fine}

-----------------------------------------------------------------------------
(* Reading Inner.                                                           *)
InPreview(w) == w.pv # NoPreview
Active(w) == IF InPreview(w) THEN w.pv.id ELSE w.ses.cur
ActivePos(w) == IF InPreview(w) THEN w.pv.pos ELSE w.ses.pos
ActiveState(w) == IF InPreview(w) THEN w.pv.st ELSE w.ses.st
Audible == {"playing", "buffering"}

AtMain(w, pos) == [w EXCEPT !.ses.pos = pos]
At(w, pos) ==
  IF InPreview(w) THEN [w EXCEPT !.pv.pos = pos] ELSE [w EXCEPT !.ses.pos = pos]
In(w, st) ==
  IF InPreview(w) THEN [w EXCEPT !.pv.st = st] ELSE [w EXCEPT !.ses.st = st]

(* PlaybackState { status, ..Default }.                                     *)
Fresh(status) == [status |-> status, err |-> FALSE, seekable |-> FALSE,
                  seek |-> "no", sought |-> FALSE, back |-> FALSE]

(* captured_position: the cursor of this generation's pipeline, cancelled   *)
(* or not.                                                                  *)
Captured(w) == IF w.pipe = NoPipe THEN w ELSE At(w, w.pipe.pos)

-----------------------------------------------------------------------------
(* Generations, epochs and the gate.                                        *)

(* Events the owner accepts whatever epoch they name (kinds 0 and 2).       *)
Timeless(e) == e.k \in {"resolved", "completed", "failed", "lost"}

AdvanceKeepingMail(w) ==
  [w EXCEPT !.pipe = IF @ = NoPipe THEN @ ELSE [@ EXCEPT !.ep = "old"],
            !.task = NoTask,
            !.late = @ \/ (w.task # NoTask /\ w.task.op = "play"),
            !.effect = IF @ # NoTask /\ @.op = "continue" THEN @ ELSE NoTask]

(* control_epoch + 1. A preparation in flight is superseded; a failure it   *)
(* has already met it may still publish.                                    *)
Advance(w) == [AdvanceKeepingMail(w) EXCEPT !.mail = SelectSeq(@, Timeless)]

NewGenerationKeepingMail(w) ==
  [w EXCEPT !.pipe = NoPipe, !.task = NoTask, !.effect = NoTask,
            !.late = FALSE, !.plan = NoPlan,
            !.ing = [@ EXCEPT !.occ = NoOcc, !.pend = FALSE]]

(* generation_serial + 1, audio Stop, a new generation id. A pending plan   *)
(* of the old generation is pruned before anything reads it.                *)
NewGeneration(w) == [NewGenerationKeepingMail(w) EXCEPT !.mail = <<>>]

RotateEpochOnly(w) == Advance(w)
Rotate(w) == NewGeneration(Advance(w))

(* audio Stop within a generation.                                          *)
StopAudio(w) ==
  [w EXCEPT !.gate = FALSE,
            !.pipe = IF @ = NoPipe THEN @ ELSE [@ EXCEPT !.live = "dead"]]

(* audio Pause: the gate shuts; a claimed boundary retires the pipeline and *)
(* is kept only if it was heard (the build without a native cork).          *)
PauseAudio(w) ==
  IF w.pipe = NoPipe THEN w
  ELSE [w EXCEPT !.gate = FALSE,
         !.pipe = IF @.next = "none" THEN @
                  ELSE [@ EXCEPT !.live = "dead",
                         !.next = IF w.pipe.next = "heard" THEN "heard" ELSE "none"]]

(* retain_control_epoch: the worker starts over reporting its activity.     *)
Retain(w) ==
  IF w.pipe = NoPipe THEN w ELSE [w EXCEPT !.pipe.ep = "now", !.pipe.said = FALSE]

(* resume_existing: a live pipeline is opened in the current epoch.         *)
Reusable(w) == w.pipe # NoPipe /\ w.pipe.live = "live"
Reopen(w) == [Retain(w) EXCEPT !.gate = TRUE]

(* enqueue_event: at most one event per kind, and a failure outranks a      *)
(* completion. An event of an old epoch is not worth keeping.               *)
Kind(k) == CASE k \in {"active", "buffering"} -> "activity"
             [] k \in {"completed", "failed", "lost"} -> "end"
             [] k \in {"seekCommitted", "seekFailed"} -> "seek"
             [] k \in {"backCommitted", "backFailed"} -> "back"
             [] k \in {"seekPipeFailed", "seekPipeLost"} -> "seekPipe"
             [] OTHER -> k

Enqueue(w, e, ep) ==
  IF \/ ~Timeless(e) /\ ep = "old"
     \/ e.k = "completed" /\ \E n \in 1..Len(w.mail) : w.mail[n].k \in {"failed", "lost"}
  THEN w
  ELSE [w EXCEPT !.mail = Append(SelectSeq(@, LAMBDA o : Kind(o.k) # Kind(e.k)), e)]

Say(k) == [k |-> k, pos |-> 0]

-----------------------------------------------------------------------------
(* Progress.                                                                *)

Reset(w) ==
  [w EXCEPT !.ing = [occ |-> Active(w), pos |-> ActivePos(w), pend |-> FALSE]]

Refresh(w) ==
  IF \/ w.ing.occ # Active(w)
     \/ ActiveState(w) = "paused" /\ w.ing.pos > ActivePos(w)
  THEN Reset(w) ELSE w

SampleUnmarked(w) ==
  IF w.ing.pend /\ w.ing.occ = Active(w)
  THEN At([w EXCEPT !.ing.pend = FALSE], w.ing.pos) ELSE [w EXCEPT !.ing.pend = FALSE]
Sample(w) ==
  LET taken == [w EXCEPT !.ing.pend = FALSE]
  IN IF ~w.ing.pend \/ w.plan # NoPlan \/ w.play.status \in {"completed", "error"}
        \/ w.ing.occ # Active(w)
     THEN taken
     ELSE [At(taken, w.ing.pos) EXCEPT !.inn.dirty = TRUE]

CheckpointedAnyway(w, ok) ==
  IF ~ok THEN Err(w)
  ELSE IF InPreview(w) THEN w
  ELSE [w EXCEPT !.db = Checkpoint(@, w.ses), !.inn.dirty = FALSE]

(* checkpoint_inner.                                                        *)
Checkpointed(w, ok) ==
  IF w.inn.restore = "error" \/ w.plan # NoPlan \/ ~w.inn.dirty THEN w
  ELSE IF ~ok THEN Err(w)
  ELSE IF InPreview(w)
    THEN LET d == CheckpointAudition(w.db, w.pv)
         IN IF d = Refused THEN Err(w)
            ELSE [w EXCEPT !.db = d, !.inn.dirty = FALSE]
  ELSE [w EXCEPT !.db = Checkpoint(@, w.ses), !.inn.dirty = FALSE,
                 !.inn.chk = w.ses.pos]

-----------------------------------------------------------------------------
(* Leaving an occurrence. A plan says which one, for what, and how the      *)
(* player shall stand afterwards; a plan the disk refuses is kept.          *)

PlanTo(w, to, status) ==
  [occ |-> w.ses.cur, to |-> to, status |-> status, err |-> FALSE,
   keep |-> FALSE, resolve |-> FALSE]

FreezeMovedOn(w, p) ==
  Err([StopAudio(Advance(w)) EXCEPT !.plan = p, !.ses = p.to,
                                    !.play.status = "error", !.play.err = TRUE])

(* freeze_terminal.                                                         *)
Freeze(w, p) ==
  Err([StopAudio(Advance(w)) EXCEPT !.plan = p, !.ses.st = "paused",
                                    !.play.status = "error", !.play.err = TRUE])

(* What a plan amounts to when it is carried out.                           *)
Resolved(w, p) ==
  LET next == Successor(w.db, p.occ)
  IN IF ~p.resolve \/ next = NoOcc THEN [p EXCEPT !.resolve = FALSE]
     ELSE [p EXCEPT !.resolve = FALSE, !.status = "paused",
                    !.to.cur = next, !.to.pos = 0]

Recovered(p) ==
  [p EXCEPT !.to.st = "paused",
            !.status = IF @ = "loading" THEN "paused" ELSE @]

(* commit_terminal.                                                         *)
Commit(w, p0, recovery, ok) ==
  LET p == IF recovery THEN Recovered(Resolved(w, p0)) ELSE Resolved(w, p0)
      d == IF p.keep THEN Departure(w.db, p.to, p.occ)
           ELSE Terminal(w.db, p.to, p.occ)
      changed == p.to.cur # w.ses.cur
      v == IF changed \/ recovery THEN Rotate(w) ELSE w
  IN IF p.occ # w.ses.cur \/ p.to.rev # w.ses.rev
     THEN Err([w EXCEPT !.plan = NoPlan])
     ELSE IF ~ok \/ d = Refused THEN Freeze(w, p)
     ELSE [v EXCEPT !.db = d, !.ses = p.to, !.plan = NoPlan,
                    !.play = [(IF changed THEN Fresh("idle") ELSE @)
                               EXCEPT !.status = p.status, !.err = p.err],
                    !.gate = p.to.st = "buffering",
                    !.inn.dirty = FALSE, !.inn.chk = p.to.pos]

(* adopt_presented_handoff: a boundary of an old epoch or generation is     *)
(* refused.                                                                 *)
Adopt(w, ok) ==
  LET next == Successor(w.db, w.ses.cur)
      to == [w.ses EXCEPT !.cur = next, !.pos = 0,
                          !.st = IF w.gate THEN "playing" ELSE "paused"]
      d == Terminal(w.db, to, w.ses.cur)
  IN IF w.pipe.ep = "old" \/ life # "up" THEN Err(w)
     ELSE IF ~ok \/ d = Refused THEN Freeze(w, PlanTo(w, to, "paused"))
     ELSE [w EXCEPT !.db = d, !.ses = to,
                    !.play = [Fresh(IF w.gate THEN "active" ELSE "paused")
                               EXCEPT !.seekable = Seekable],
                    !.inn.dirty = FALSE, !.inn.chk = 0,
                    !.pipe.occ = next, !.pipe.pos = 0, !.pipe.next = "none"]

(* reconcile_presented_handoff.                                             *)
Presented(w) ==
  w.plan = NoPlan /\ w.pipe # NoPipe /\ w.pipe.next = "heard" /\ w.pipe.occ = w.ses.cur
Reconcile(w, ok) == IF Presented(w) THEN Adopt(w, ok) ELSE w

-----------------------------------------------------------------------------
(* Preparations.                                                            *)

(* The command's answer asks for audio: dispatch_effect has not run yet.    *)
Prepare(w, op, pos, audible) ==
  [w EXCEPT !.effect = [op |-> op, occ |-> Active(w), pos |-> pos,
                        audible |-> audible]]

(* The owner's own request for audio, taken by the output dispatcher.       *)
Continue(w) == Prepare(w, "continue", 0, TRUE)

(* Loading in the current generation.                                       *)
Buffer(w) ==
  Prepare([In(w, "buffering") EXCEPT !.gate = TRUE, !.play.status = "loading",
                                     !.play.err = FALSE],
          "play", ActivePos(w), TRUE)

-----------------------------------------------------------------------------
(* Transport on the main queue (control_inner). It runs once a boundary     *)
(* that was heard is adopted and no plan is in the way.                     *)

Pause(w, f) ==
  LET seen == Reconcile(PauseAudio(w), f.later)
      held == IF seen.ses.cur = w.ses.cur THEN Captured(seen) ELSE seen
  IN IF ~seen.ok THEN seen
     ELSE [Retain(Advance(held)) EXCEPT
            !.inn.ret = FALSE, !.gate = FALSE, !.ses.st = "paused",
            !.play.status = "paused"]

Resume(w) ==
  LET v == Retain(Advance(w))
  IN Buffer(IF w.play.status \in {"completed", "error"} \/ w.play.err
            THEN NewGeneration([v EXCEPT
                   !.ses.pos = IF w.play.status = "completed" THEN 0 ELSE @])
            ELSE v)

Next_(w, f) ==
  LET resume == w.ses.st \in Audible \/ w.play.status \in {"active", "loading"}
      to == [w.ses EXCEPT !.cur = Successor(w.db, w.ses.cur), !.pos = 0,
                          !.st = IF resume THEN "buffering" ELSE "paused"]
      status == IF resume THEN "loading"
                ELSE IF w.play.status \in {"stopped", "completed"} THEN "stopped"
                ELSE "paused"
      left == Commit(Advance(w),
                     [PlanTo(w, to, status) EXCEPT
                       !.keep = w.ses.cur \in w.db.out /\ w.db.act = NoOcc],
                     FALSE, f.write)
  IN IF left.ok /\ left.ses.st = "buffering"
     THEN Prepare(left, "play", 0, TRUE) ELSE left

Stop(w, f) ==
  LET v == NewGeneration(Advance(w))
  IN Checkpointed(
       [v EXCEPT !.inn.ret = FALSE, !.inn.dirty = TRUE, !.play.seek = "no",
                 !.gate = FALSE, !.ses.st = "paused",
                 !.ses.pos = IF w.inn.ret THEN @ ELSE 0,
                 !.play.status = IF w.inn.ret THEN "paused" ELSE "stopped"],
       f.write)

(* Pause or Resume while a seek is being prepared only says what its commit *)
(* shall do.                                                                *)
Intend(w, a) ==
  [w EXCEPT !.play.back = FALSE, !.gate = FALSE,
            !.play.seek = IF a = "resume" THEN "resume" ELSE "stay",
            !.ses.st = IF a = "resume" THEN "buffering" ELSE "paused",
            !.play.status = IF a = "resume" THEN "loading" ELSE "paused"]

(* Listening again to what was already left takes a new attempt.            *)
NeedsAttempt(w, a) ==
  /\ w.db.act = NoOcc
  /\ \/ a = "retry"
     \/ a = "resume" /\ (\/ w.play.status \in {"completed", "error"}
                         \/ w.ses.cur \in w.db.out)

Reattempted(w, a, ok) ==
  LET to == [w.ses EXCEPT
              !.pos = IF a = "resume" /\ w.play.status = "completed" THEN 0 ELSE @]
      d == StartAttempt(w.db, to, FALSE)
  IN IF ~NeedsAttempt(w, a) THEN w
     ELSE IF ~ok \/ d = Refused THEN Err(w)
     ELSE [w EXCEPT !.db = d, !.ses = to, !.inn.chk = to.pos, !.inn.dirty = FALSE]

Unavailable(w, a) == \/ a = "next" /\ Successor(w.db, w.ses.cur) = NoOcc
                     \/ a = "retry" /\ w.play.status # "error"

Transport(w, a, f) ==
  LET v == Reattempted(w, a, f.write)
      u == [v EXCEPT !.play.back = FALSE]
  IN IF a = "resume" /\ w.gate THEN w
     ELSE IF w.play.seek # "no" /\ a \in {"pause", "resume"} THEN Intend(w, a)
     ELSE IF Unavailable(w, a) \/ ~v.ok THEN Err(w)
     ELSE CASE a = "pause" -> Pause(u, f)
            [] a = "resume" -> Resume(u)
            [] a = "retry" -> Buffer(NewGeneration(Advance(u)))
            [] a = "next" -> Next_(u, f)
            [] a = "stop" -> Stop(u, f)
            [] a = "return" -> Err(Advance(u))

(* Back: the track from its start, or near its start the one before. The    *)
(* new attempt is stored before anything plays.                             *)
Back(w, f) ==
  LET at == Captured(w)
      near == at.ses.pos <= BackThreshold /\ Predecessor(w.db, w.ses.cur) # NoOcc
      audible == w.ses.st \in Audible
      to == [at.ses EXCEPT !.cur = IF near THEN Predecessor(w.db, @) ELSE @,
                           !.pos = 0,
                           !.st = IF audible THEN "buffering" ELSE "paused"]
      d == StartAttempt(w.db, to, w.db.act # NoOcc)
      inhibited == [StopAudio(Advance(w)) EXCEPT
                     !.ses.pos = w.inn.chk, !.ses.st = "paused",
                     !.play.back = FALSE, !.play.status = "error", !.play.err = TRUE]
      begun == [Rotate(w) EXCEPT
                 !.db = d, !.ses = to, !.inn.chk = 0, !.inn.dirty = FALSE,
                 !.gate = audible,
                 !.play = [(IF near THEN Fresh("loading") ELSE @) EXCEPT
                            !.status = "loading", !.err = FALSE, !.seek = "no",
                            !.sought = FALSE, !.back = TRUE]]
  IN IF ~f.write \/ d = Refused THEN Err(inhibited)
     ELSE Prepare(begun, "back", 0, audible)

Control(w0, a, f) ==
  LET w == Reconcile(w0, f.early)
      moved == w.ses.cur # w0.ses.cur /\ a \notin {"pause", "stop"}
  IN IF ~w.ok THEN w
     ELSE IF w.ses.cur = NoOcc \/ moved THEN Err(w)
     ELSE IF w.plan # NoPlan /\ a = "retry" THEN Commit(w, w.plan, TRUE, f.write)
     ELSE IF w.plan # NoPlan /\ a # "stop" THEN Err(w)
     ELSE IF a = "back" THEN Back(w, f)
     ELSE Transport([w EXCEPT !.plan = NoPlan], a, f)

-----------------------------------------------------------------------------
(* Seek. A target at the very end completes at once; any other is prepared  *)
(* and takes effect when its pipeline commits it.                           *)

Seek(w0, to, f) ==
  LET w == Reconcile(w0, f.early)
      resume == \/ ActiveState(w) \in Audible
                \/ w.play.status \in {"active", "loading"}
      v == [Rotate(w) EXCEPT !.gate = FALSE, !.play.back = FALSE,
                             !.play.sought = FALSE, !.play.err = FALSE]
      ended == [In(At(v, Duration), "paused") EXCEPT
                 !.play.status = "completed", !.play.seek = "no",
                 !.play.sought = TRUE, !.inn.dirty = TRUE]
      sought == [In(v, IF resume THEN "buffering" ELSE "paused") EXCEPT
                  !.play.status = IF resume THEN "loading" ELSE "paused",
                  !.play.seek = IF resume THEN "resume" ELSE "stay"]
  IN IF ~w.ok THEN w
     ELSE IF \/ w.plan # NoPlan \/ w.ses.cur # w0.ses.cur
             \/ Active(w) = NoOcc \/ ~w.play.seekable
          THEN Err(w)
     ELSE IF to = Duration THEN Checkpointed(ended, f.write)
     ELSE Prepare(sought, "seek", to, TRUE)

-----------------------------------------------------------------------------
(* The preview.                                                             *)

(* preview_inner.                                                           *)
Preview(w0, f) ==
  LET paused == PauseAudio(w0)
      w == IF InPreview(w0) THEN paused ELSE Reconcile(paused, f.early)
      rest == IF InPreview(w) THEN "paused" ELSE RestingState(w.ses.cur)
      held == [In(Captured(w), rest) EXCEPT
                !.gate = FALSE, !.play.status = "paused", !.inn.dirty = TRUE]
      saved == IF InPreview(w) THEN w.pv.saved
               ELSE [cur |-> held.ses.cur, pos |-> held.ses.pos, st |-> w0.ses.st]
      new == [id |-> FreshAud(w.pv.id), st |-> "buffering", pos |-> 0,
              saved |-> saved, inhibited |-> InPreview(w) /\ w.pv.inhibited]
      d == IF InPreview(w) THEN ReplaceAudition(w.db, held.ses, held.pv, new)
           ELSE AdmitAudition(w.db, held.ses, new)
      begun == [Rotate(held) EXCEPT
                 !.db = d, !.pv = new, !.inn.ret = FALSE, !.inn.dirty = FALSE,
                 !.gate = TRUE, !.play = Fresh("loading")]
  IN IF w0.inn.restore = "error" THEN Err(w0)
     ELSE IF ~w.ok THEN w
     ELSE IF ~f.write \/ d = Refused
       THEN Err([held EXCEPT !.play.status = "error", !.play.err = TRUE])
     ELSE Prepare(begun, "play", 0, TRUE)

(* finish_preview: back to the main queue as it was when the preview began. *)
Finish(w0, resume, natural, ok) ==
  LET w == PauseAudio(w0)
      p == In(IF natural THEN w ELSE Captured(w), "paused").pv
      plays == /\ resume /\ ~p.inhibited /\ p.saved.st \in Audible
               /\ p.saved.cur # NoOcc
      to == [w.ses EXCEPT !.cur = p.saved.cur, !.pos = p.saved.pos,
                          !.st = IF plays THEN "buffering"
                                 ELSE RestingState(p.saved.cur)]
      d == FinishAudition(w.db, to, p)
      back == [Rotate([w EXCEPT !.pv = NoPreview]) EXCEPT
                !.db = d, !.ses = to, !.inn.ret = plays, !.gate = plays,
                !.play = Fresh(IF plays THEN "loading" ELSE to.st),
                !.inn.dirty = FALSE, !.inn.chk = to.pos]
  IN IF ~ok \/ d = Refused
     THEN Err([w EXCEPT !.pv = p, !.gate = FALSE, !.play.status = "error",
                        !.play.err = TRUE, !.inn.dirty = TRUE])
     ELSE IF ~plays THEN back
     ELSE IF natural THEN Continue(back) ELSE Prepare(back, "play", to.pos, TRUE)

(* preview_control_inner.                                                   *)
PreviewResume(w, f) ==
  LET again == [w.pv EXCEPT !.id = FreshAud(@), !.st = "buffering"]
      d == ReplaceAudition(w.db, w.ses, w.pv, again)
      failed == w.play.status = "error"
      v == IF failed
           THEN NewGeneration(Advance([w EXCEPT !.db = d, !.pv = again]))
           ELSE Advance(w)
  IN IF failed /\ (~f.write \/ d = Refused) THEN Err(w)
     ELSE Buffer([v EXCEPT !.play.back = FALSE])

PreviewPause(w, f) ==
  Checkpointed(
    [In(Retain(Advance(Captured(PauseAudio(w)))), "paused") EXCEPT
      !.play.back = FALSE, !.gate = FALSE, !.play.status = "paused",
      !.inn.dirty = TRUE],
    f.write)

PreviewBack(w, f) ==
  LET audible == w.pv.st \in Audible /\ ~w.pv.inhibited
      failed == w.play.status = "error"
      from == [w.pv EXCEPT !.id = IF failed THEN FreshAud(@) ELSE @, !.pos = 0,
                           !.st = IF audible THEN "buffering" ELSE "paused"]
      d == IF failed THEN ReplaceAudition(w.db, w.ses, w.pv, from)
           ELSE CheckpointAudition(w.db, from)
  IN IF ~f.write \/ d = Refused THEN Err(w)
     ELSE Prepare([Rotate(w) EXCEPT
                    !.db = d, !.pv = from, !.gate = audible,
                    !.play.status = "loading", !.play.err = FALSE,
                    !.play.seek = "no", !.play.back = TRUE],
                  "back", 0, audible)

PreviewControl(w, a, f) ==
  CASE a = "next" -> Err(w)
    [] a = "stop" -> Finish(w, FALSE, FALSE, f.write)
    [] a = "return" -> IF w.pv.saved.cur = NoOcc THEN Err(w)
                       ELSE Finish(w, TRUE, FALSE, f.write)
    [] a = "pause" -> PreviewPause(w, f)
    [] a = "resume" -> PreviewResume(w, f)
    [] a = "retry" -> IF w.play.status # "error" THEN Err(w) ELSE PreviewResume(w, f)
    [] a = "back" -> PreviewBack(w, f)

-----------------------------------------------------------------------------
(* Commands on the queue (apply_inner). Each is stored before it shows.     *)

(* replaceQueue ("replace") and playTrack, playAlbum ("play") of n tracks.  *)
LoadTo(w, c) ==
  LET rows == [n \in 1..c.n |-> n]
      to == [cur |-> IF c.n = 0 THEN NoOcc ELSE 1, pos |-> 0, rev |-> w.ses.rev + 1,
             st |-> IF c.n = 0 THEN "idle"
                    ELSE IF c.k = "play" THEN "buffering" ELSE "paused"]
  IN [ses |-> to,
      db |-> IF InPreview(w) THEN StructureSuperseding(w.db, to, rows, w.pv)
             ELSE Structure(w.db, to, rows)]

ClearTo(w) ==
  LET to == [cur |-> NoOcc, pos |-> 0, rev |-> w.ses.rev + 1, st |-> "idle"]
  IN [ses |-> to,
      db |-> IF InPreview(w) THEN StructureSuperseding(w.db, to, <<>>, w.pv)
             ELSE Clear(w.db, to)]

SelectTo(w, c) ==
  LET to == [w.ses EXCEPT !.cur = c.occ, !.pos = 0, !.st = "paused"]
  IN [ses |-> to, db |-> Select(w.db, to)]

NeedsBaseline(w) == InPreview(w) /\ w.pv.saved.cur = NoOcc

AppendTo(w) ==
  LET new == CHOOSE o \in Occs : o \notin ToSet(w.db.ord)
      to == IF w.ses.cur # NoOcc THEN [w.ses EXCEPT !.rev = @ + 1]
            ELSE [cur |-> new, pos |-> 0, rev |-> w.ses.rev + 1, st |-> "paused"]
  IN [ses |-> to,
      db |-> IF NeedsBaseline(w) THEN AppendWithBaseline(w.db, to, <<new>>)
             ELSE AppendRows(w.db, to, <<new>>)]

RemoveTo(w, c) ==
  LET to == [w.ses EXCEPT !.rev = @ + 1]
  IN [ses |-> to, db |-> RemoveRow(w.db, to, c.occ)]

MoveTo(w, c) ==
  LET to == [w.ses EXCEPT !.rev = @ + 1]
  IN [ses |-> to, db |-> MoveRow(w.db, to, c.occ, c.before)]

Applied(w, c) ==
  CASE c.k \in {"replace", "play"} -> LoadTo(w, c)
    [] c.k = "clear" -> ClearTo(w)
    [] c.k = "select" -> SelectTo(w, c)
    [] c.k = "append" -> AppendTo(w)
    [] c.k = "remove" -> RemoveTo(w, c)
    [] c.k = "move" -> MoveTo(w, c)

Edits == {"append", "remove", "move"}

(* fence_successor_for_edit: an edit may not move a submitted boundary.     *)
Submitted(w) == ~InPreview(w) /\ w.pipe # NoPipe /\ w.pipe.next # "none"

(* The queue and the session change; the audio of the old queue goes.       *)
Replaced(w, c, to) ==
  LET v == [Rotate(w) EXCEPT
             !.pv = NoPreview, !.inn.ret = FALSE,
             !.play = CASE c.k = "play" -> Fresh("loading")
                        [] c.k = "clear" -> Fresh("idle")
                        [] c.k = "append" -> @
                        [] OTHER -> Fresh("paused")]
  IN [v EXCEPT !.ses = to.ses, !.db = to.db, !.gate = to.ses.st \in Audible]

(* What plays goes on; an open main session has its gate set anew.          *)
Edited(w, to) ==
  [w EXCEPT !.ses = to.ses, !.db = to.db,
            !.pv = IF NeedsBaseline(w) THEN [@ EXCEPT !.saved = to.db.aud.saved] ELSE @,
            !.gate = IF InPreview(w) THEN @ ELSE to.ses.st \in Audible]

Apply(w0, c, f) ==
  LET edit == c.k \in Edits
      w == IF edit /\ ~InPreview(w0) THEN Reconcile(w0, f.early) ELSE w0
      to == Applied(w, c)
      stays == edit /\ (InPreview(w) \/ to.ses.cur = w.ses.cur)
      v == IF stays THEN Edited(w, to) ELSE Replaced(w, c, to)
      done == [v EXCEPT !.inn.dirty = FALSE, !.inn.chk = to.ses.pos]
  IN IF \/ w0.inn.restore = "error"
        \/ InPreview(w0) /\ c.k = "select"
        \/ w0.plan # NoPlan /\ edit
     THEN Err(w0)
     ELSE IF ~w.ok THEN w
     ELSE IF (edit /\ Submitted(w)) \/ ~f.write \/ to.db = Refused THEN Err(w)
     ELSE IF c.k = "play" THEN Prepare(done, "play", 0, TRUE) ELSE done

-----------------------------------------------------------------------------
(* Events from the pipeline.                                                *)

NormalizedByOutcome(w, k) ==
  CASE k = "backFailed" -> IF w.play.back THEN "failed" ELSE "none"
    [] k \in {"seekPipeFailed", "seekPipeLost"} ->
         IF w.play.sought THEN "failed" ELSE "none"
    [] OTHER -> k

(* A failure named after an operation is the operation's while it is        *)
(* pending and the player's afterwards.                                     *)
Normalized(w, k) ==
  CASE k = "backFailed" -> IF w.play.back THEN "failed" ELSE "none"
    [] k \in {"seekPipeFailed", "seekPipeLost"} ->
         IF w.play.seek # "no" THEN "seekFailed"
         ELSE IF ~w.play.sought THEN "none"
         ELSE IF k = "seekPipeLost" THEN "lost" ELSE "failed"
    [] OTHER -> k

Failing(w) ==
  In([w EXCEPT !.gate = FALSE, !.play.status = "error", !.play.err = TRUE], "paused")

(* Restart at the end means from the beginning.                             *)
Rewound(w, qualified) ==
  IF /\ qualified /\ w.play.seek = "no" /\ w.play.status = "loading"
     /\ ActivePos(w) = Duration
  THEN [At(w, 0) EXCEPT !.inn.dirty = TRUE] ELSE w

SeekCommitted(w, pos) ==
  LET resume == w.play.seek = "resume"
  IN [In(At(w, pos), IF resume THEN "playing" ELSE "paused") EXCEPT
       !.gate = resume, !.inn.dirty = TRUE,
       !.play.status = IF resume THEN "active" ELSE "paused",
       !.play.seek = "no", !.play.sought = TRUE]

BackCommitted(w) ==
  [In(w, IF w.gate THEN "playing" ELSE "paused") EXCEPT
    !.play.status = IF w.gate THEN "active" ELSE "paused",
    !.play.back = FALSE, !.inn.dirty = TRUE]

(* apply_playback_event.                                                    *)
Absorbed(w, k, pos) ==
  CASE k = "resolved" -> [Rewound(w, ~Seekable) EXCEPT !.play.seekable = FALSE]
    [] k = "qualified" -> [Rewound(w, TRUE) EXCEPT !.play.seekable = TRUE]
    [] k = "active" /\ w.gate ->
         [In(w, "playing") EXCEPT !.play.status = "active"]
    [] k = "buffering" /\ w.gate ->
         [In(w, "buffering") EXCEPT !.play.status = "loading"]
    [] k = "seekCommitted" /\ w.play.seek # "no" -> SeekCommitted(w, pos)
    [] k = "seekFailed" /\ w.play.seek # "no" ->
         [Failing(w) EXCEPT !.play.seek = "no"]
    [] k = "backCommitted" /\ w.play.back -> BackCommitted(w)
    [] k \in {"failed", "lost"} -> Failing(w)
    [] OTHER -> w

PreviewFailed(w, k, ok) ==
  LET v == [Failing(w) EXCEPT !.pv.inhibited = @ \/ k = "lost", !.inn.dirty = TRUE]
      d == RecordAuditionFailure(v.db, v.ses, v.pv)
  IN IF w.play.status = "error" THEN w
     ELSE Reset(IF ~ok \/ d = Refused THEN v
                ELSE [v EXCEPT !.db = d, !.inn.dirty = FALSE])

(* The main track asked for on leaving a preview failed to start.           *)
ReturnFailed(w, ok) ==
  LET v == [Failing(w) EXCEPT !.inn.dirty = TRUE]
  IN Reset(IF ~ok THEN v
           ELSE [v EXCEPT !.db = Update(@, v.ses), !.inn.dirty = FALSE,
                          !.inn.chk = v.ses.pos])

TrackFailed(w, f) ==
  LET v == Sample(w)
      left == Commit(v, [PlanTo(v, [v.ses EXCEPT !.st = "paused"], "error")
                          EXCEPT !.err = TRUE], FALSE, f.write)
  IN IF w.play.status = "error" THEN w
     ELSE IF ~left.ok THEN Reset(left) ELSE Refresh(Failing(left))

(* The output is gone: its generation with it, but not the place reached.   *)
OutputLost(w, f) ==
  LET v == Sample([w EXCEPT !.gate = FALSE])
      at == Captured(v).ses.pos
      moved == [v EXCEPT !.ses.pos = IF at > @ THEN at ELSE @, !.play.seek = "no"]
  IN Checkpointed(
       Refresh(Failing([NewGeneration(moved) EXCEPT !.inn.dirty = TRUE])), f.write)

(* complete_occurrence. "early" is the look for a successor.                *)
TrackCompleted(w, pos, f) ==
  LET next == Successor(w.db, w.ses.cur)
      resume == w.ses.st \in Audible \/ w.play.status \in {"active", "loading"}
      end == [w.ses EXCEPT !.pos = pos, !.st = "paused"]
      to == [end EXCEPT !.cur = next, !.pos = 0,
                        !.st = IF resume THEN "buffering" ELSE "paused"]
      unknown == [PlanTo(w, [w.ses EXCEPT !.pos = pos], "completed")
                   EXCEPT !.resolve = TRUE]
      left == IF next = NoOcc THEN Commit(w, PlanTo(w, end, "completed"), FALSE, f.write)
              ELSE Commit(w, PlanTo(w, to, IF resume THEN "loading" ELSE "paused"),
                          FALSE, f.write)
  IN Reset(IF ~f.early THEN Freeze(w, unknown)
           ELSE IF left.ok /\ next # NoOcc /\ left.gate THEN Continue(left) ELSE left)

Completed(w, pos, f) ==
  IF w.play.status \in {"completed", "error"} THEN w
  ELSE IF InPreview(w) THEN Reset(Finish([w EXCEPT !.pv.pos = pos], TRUE, TRUE, f.write))
  ELSE TrackCompleted(w, pos, f)

(* The rest: the event shows in the session, and a landed seek is stored.   *)
Shown(w, k, pos, f) ==
  LET landed == k = "seekCommitted" /\ w.play.seek # "no"
      v == Absorbed(w, k, pos)
      seen == IF landed \/ v.ses.pos < w.ses.pos THEN Reset(v) ELSE Refresh(v)
  IN IF landed THEN Checkpointed(seen, f.write) ELSE seen

Process(w0, e, f) ==
  LET k == Normalized(w0, e.k)
      end == k \in {"failed", "lost"}
      w == IF e.k = "backFailed" THEN [w0 EXCEPT !.play.back = FALSE] ELSE w0
      back == [w EXCEPT !.inn.ret = FALSE]
  IN IF k = "none" \/ life \in {"fenced", "saved"} THEN w0
     ELSE IF w.plan # NoPlan THEN w
     ELSE IF InPreview(w) /\ end THEN PreviewFailed(w, k, f.write)
     ELSE IF w.inn.ret /\ end THEN ReturnFailed(w, f.write)
     ELSE IF k = "failed" /\ w.ses.cur # NoOcc THEN TrackFailed(w, f)
     ELSE IF k = "completed" THEN Completed(w, e.pos, f)
     ELSE IF k = "lost" THEN OutputLost(w, f)
     ELSE Shown(IF k = "active" THEN back ELSE w, k, e.pos, f)

-----------------------------------------------------------------------------
(* Restoring.                                                               *)

NewSession == [cur |-> NoOcc, pos |-> 0, rev |-> 0, st |-> "idle"]
Resting(s) == [s EXCEPT !.st = RestingState(s.cur)]

(* PlaybackSession::restore. A preview's row that cannot be dismissed       *)
(* leaves what was loaded in place, marked as an error.                     *)
Restored(d, f) ==
  LET gone == Dismiss(d)
      ok == f.write /\ gone # Refused
      kept == IF d.aud # NoAud /\ ValidAudition(d, d.aud) THEN Dismissed(d) ELSE Main(d)
      readable == f.early /\ ValidSession(d)
      s == IF ~readable THEN NewSession ELSE Resting(IF ok THEN Main(gone) ELSE kept)
  IN [db |-> IF readable /\ ok THEN gone ELSE d,
      ses |-> s, pv |-> NoPreview, play |-> Fresh(RestingState(s.cur)),
      plan |-> NoPlan,
      inn |-> [dirty |-> FALSE, ret |-> FALSE, chk |-> s.pos,
               restore |-> IF readable /\ (ok \/ d.aud = NoAud) THEN "ok" ELSE "error"],
      gate |-> FALSE, pipe |-> NoPipe, task |-> NoTask, effect |-> NoTask,
      late |-> FALSE, mail |-> <<>>,
      ing |-> [occ |-> s.cur, pos |-> s.pos, pend |-> FALSE]]

(* retry_restore_inner: the session alone is taken over, and a new          *)
(* generation with it.                                                      *)
RetryRestore(w, f) ==
  LET gone == Dismiss(w.db)
      s == Resting(Main(gone))
  IN IF w.inn.restore # "error" \/ w.inn.dirty THEN Err(w)
     ELSE IF \/ ~f.early \/ ~ValidSession(w.db) \/ gone = Refused
             \/ w.db.aud # NoAud /\ ~f.write
       THEN Err(w)
     ELSE [NewGeneration(w) EXCEPT !.db = gone, !.ses = s, !.inn.chk = s.pos,
                                   !.inn.restore = "ok"]

-----------------------------------------------------------------------------
(* The owner's steps.                                                       *)

(* Everything a user can ask for, with arguments that name what is there.   *)
Rows == ToSet(db.ord)
Plain == {"pause", "resume", "stop", "next", "retry", "return", "back",
          "preview", "restore", "clear", "append"}
Asked ==
  [k : Plain \cap Commands]
  \cup [k : {"seek"} \cap Commands, to : 0..Duration]
  \cup [k : {"replace", "play"} \cap Commands, n : 1..MaxRows]
  \cup [k : {"select", "remove"} \cap Commands, occ : Rows]
  \cup {c \in [k : {"move"} \cap Commands, occ : Rows, before : Rows \cup {NoOcc}] :
          c.before \notin {c.occ, Successor(db, c.occ)}}

Transports == {"pause", "resume", "stop", "next", "retry", "return", "back"}

(* One command, before what the owner's loop does around it.                *)
Handled(w, c, f) ==
  CASE c.k \in Transports /\ InPreview(w) -> PreviewControl(Sample(w), c.k, f)
    [] c.k \in Transports /\ ~InPreview(w) -> Control(Sample(w), c.k, f)
    [] c.k = "seek" -> Seek(Sample(w), c.to, f)
    [] c.k = "preview" -> Preview(Sample(w), f)
    [] c.k = "restore" -> RetryRestore(w, f)
    [] OTHER -> Apply(w, c, f)

InBounds(c) ==
  /\ c.k \in Edits \cup {"replace", "play", "clear"} => ses.rev < MaxRev
  /\ c.k = "append" => Len(db.ord) < MaxRows

Command(c, f) ==
  LET w == Handled(World, c, f)
  IN /\ life \in {"up", "gating"} /\ InBounds(c)
     /\ Becomes(IF w.ok THEN Refresh(w) ELSE w)
     /\ UNCHANGED life

(* The loop looks for a boundary that was heard before anything else.       *)
TakeBoundary(f) ==
  LET w == Reconcile(World, f.early)
  IN /\ Presented(World)
     /\ Becomes(IF w.ses.cur # ses.cur THEN Reset(w) ELSE w)
     /\ UNCHANGED life

TakeEvent(f) ==
  /\ mail # <<>>
  /\ Becomes(Process([World EXCEPT !.mail = Tail(@)], Head(mail), f))
  /\ UNCHANGED life

TakeProgress ==
  /\ life \in {"up", "gating"} /\ ing.pend
  /\ Becomes(Sample(World))
  /\ UNCHANGED life

PeriodicCheckpoint(f) ==
  /\ life \in {"up", "gating"} /\ inn.dirty
  /\ Becomes(Checkpointed(World, f.write))
  /\ UNCHANGED life
=============================================================================
