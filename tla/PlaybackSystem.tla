---------------------------- MODULE PlaybackSystem ----------------------------
(***************************************************************************)
(* The player: the owner of PlaybackOwner with everything that runs beside *)
(* it. Preparations fetch and install a pipeline (commands.rs, audio.rs),  *)
(* the pipeline's worker opens the output, feeds it and reports, shutdown  *)
(* fences the owner and takes a last checkpoint, a crash takes everything  *)
(* but the disk.                                                           *)
(***************************************************************************)
EXTENDS PlaybackOwner

CONSTANT Prompt   \* the owner keeps ahead of preparations

Running == life \in {"up", "gating"}

-----------------------------------------------------------------------------
(* Preparations.                                                            *)

(* dispatch_effect: a live pipeline is reused at once, anything else is     *)
(* prepared. The output dispatcher leaves a live pipeline alone.            *)
Dispatch ==
  LET w == [World EXCEPT !.effect = NoTask]
      start == [w EXCEPT !.task =
                 IF effect.op = "continue"
                 THEN [op |-> "play", occ |-> Active(w), pos |-> ActivePos(w),
                       audible |-> TRUE]
                 ELSE effect]
  IN /\ Running /\ effect # NoTask
     /\ Becomes(IF effect.op \in {"play", "continue"} /\ Reusable(w)
                THEN (IF effect.op = "play" THEN Reopen(w) ELSE w)
                ELSE start)
     /\ UNCHANGED life

NewPipe(t) ==
  [live |-> "live", ep |-> "now", op |-> t.op, occ |-> t.occ,
   pos |-> IF t.op = "play" /\ ~Seekable /\ t.pos = Duration THEN 0 ELSE t.pos,
   opened |-> FALSE, said |-> FALSE, next |-> "none"]

(* A preparation asks a server; the owner looks at its events every 25 ms.  *)
(* So the end of the last pipeline is absorbed before the next one starts   *)
(* (assumed where Prompt holds).                                            *)
Settled == Prompt => \A n \in 1..Len(mail) : Kind(mail[n].k) # "end"

(* start_at_epoch: the pipeline is installed, and for an audible Back let   *)
(* through at once.                                                         *)
Install ==
  LET w == [World EXCEPT !.task = NoTask]
      v == [Enqueue(w, Say("resolved"), "now") EXCEPT !.pipe = NewPipe(task)]
  IN /\ Running /\ task # NoTask /\ Settled
     /\ Becomes(IF Reusable(w) THEN Reopen(w)
                ELSE IF task.op = "back" /\ task.audible THEN Reopen(v) ELSE v)
     /\ UNCHANGED life

(* The old pipeline, dead by then, may be gone already.                     *)
FailPreparation ==
  LET k == CASE task.op = "seek" -> "seekFailed"
             [] task.op = "back" -> "backFailed"
             [] OTHER -> "failed"
      w == Enqueue([World EXCEPT !.task = NoTask], Say(k), "now")
  IN /\ "audio" \in Faults /\ Running /\ task # NoTask /\ ~Reusable(World)
     /\ \E gone \in BOOLEAN : Becomes(IF gone THEN [w EXCEPT !.pipe = NoPipe] ELSE w)
     /\ UNCHANGED life

(* A superseded preparation had failed before it saw that it was.           *)
FailLate ==
  /\ Running /\ late
  /\ \/ "audio" \in Faults
        /\ Becomes(Enqueue([World EXCEPT !.late = FALSE], Say("failed"), "old"))
     \/ Becomes([World EXCEPT !.late = FALSE])
  /\ UNCHANGED life

-----------------------------------------------------------------------------
(* The worker of the installed pipeline.                                    *)

Live == pipe # NoPipe /\ pipe.live = "live" /\ Running
Fed == Live /\ pipe.opened /\ gate
Tell(w, e) == Enqueue(w, e, w.pipe.ep)

(* output_opened: the gate is set after what the session wants by now.      *)
WantedAlways(w) == TRUE
Wanted(w) == ActiveState(w) \in Audible

(* The first PCM is there; the worker reports what it was opened for.       *)
Open ==
  LET pos == IF Seekable /\ pipe.op # "seek" /\ pipe.pos = Duration THEN 0
             ELSE pipe.pos
      w == [World EXCEPT !.gate = Wanted(World), !.pipe.opened = TRUE, !.pipe.pos = pos,
                         !.pipe.op = IF @ = "back" THEN "play" ELSE @]
      v == IF Seekable THEN Tell(w, Say("qualified")) ELSE w
  IN /\ Live /\ ~pipe.opened
     /\ Becomes(CASE pipe.op = "seek" ->
                       Tell(v, [k |-> "seekCommitted", pos |-> pos])
                  [] pipe.op = "back" -> Tell(v, Say("backCommitted"))
                  [] OTHER -> v)
     /\ UNCHANGED life

(* Sound starts, runs dry, or is cut off by the gate.                       *)
ReportActive ==
  /\ Fed /\ ~pipe.said
  /\ Becomes(Tell([World EXCEPT !.pipe.said = TRUE], Say("active")))
  /\ UNCHANGED life

ReportBuffering ==
  /\ Fed /\ pipe.said /\ pipe.pos < Duration
  /\ Becomes(Tell([World EXCEPT !.pipe.said = FALSE], Say("buffering")))
  /\ UNCHANGED life

Rest ==
  /\ Live /\ ~gate /\ pipe.said
  /\ Becomes([World EXCEPT !.pipe.said = FALSE])
  /\ UNCHANGED life

(* The cursor moves; report_progress takes only what is not behind.         *)
Play ==
  LET pos == pipe.pos + 1
      w == [World EXCEPT !.pipe.pos = pos]
  IN /\ Fed /\ pipe.pos < Duration
     /\ \/ Becomes(w)
        \/ /\ pipe.said /\ ing.occ = pipe.occ /\ ing.pos <= pos
           /\ Becomes([w EXCEPT !.ing.pos = pos, !.ing.pend = TRUE])
     /\ UNCHANGED life

(* The end of the track: the prepared successor takes over without a gap,   *)
(* or the pipeline has nothing more to play.                                *)
Claim ==
  /\ Fed /\ pipe.pos = Duration /\ pipe.next = "none" /\ pipe.ep = "now"
  /\ pv = NoPreview /\ pipe.occ = ses.cur /\ Successor(db, ses.cur) # NoOcc
  /\ Becomes([World EXCEPT !.pipe.next = "claimed"])
  /\ UNCHANGED life

(* Submitted frames are heard whether or not the worker still lives.        *)
Hear ==
  /\ pipe # NoPipe /\ pipe.next = "claimed"
  /\ Becomes([World EXCEPT !.pipe.next = "heard"])
  /\ UNCHANGED life

Complete ==
  /\ Fed /\ pipe.pos = Duration /\ pipe.next = "none"
  /\ Becomes(Tell([World EXCEPT !.pipe.live = "dead"],
                  [k |-> "completed", pos |-> Duration]))
  /\ UNCHANGED life

(* The worker ends with an error, named after what it was opened for; a     *)
(* lost output shuts the gate on its way.                                   *)
FailPipe(lost) ==
  LET k == CASE pipe.op = "seek" -> IF lost THEN "seekPipeLost" ELSE "seekPipeFailed"
             [] pipe.op = "back" -> "backFailed"
             [] OTHER -> IF lost THEN "lost" ELSE "failed"
  IN /\ "audio" \in Faults /\ Live /\ (lost => pipe.opened)
     /\ Becomes(Tell([World EXCEPT !.pipe.live = "dead",
                                   !.gate = @ /\ ~lost], Say(k)))
     /\ UNCHANGED life

-----------------------------------------------------------------------------
(* The end of a run, and the next.                                          *)

(* begin_shutdown_checkpoint: the gate and the serial first, then the fence.*)
BeginShutdown ==
  /\ "quit" \in Faults /\ life = "up"
  /\ life' = "gating" /\ gate' = FALSE
  /\ UNCHANGED <<db, ses, pv, play, plan, inn, pipe, task, effect, late, mail, ing>>

Fence ==
  /\ life = "gating" /\ life' = "fenced"
  /\ UNCHANGED <<db, ses, pv, play, plan, inn, gate, pipe, task, effect, late, mail, ing>>

(* A checkpoint that fails is asked for again.                              *)
ShutdownCheckpoint(f) ==
  LET w == Checkpointed(Sample(World), f.write)
  IN /\ life = "fenced"
     /\ Becomes(w) /\ life' = IF w.ok THEN "saved" ELSE life

Restart(f) == Becomes(Restored(db, f)) /\ life' = "up"
Quit == \E f \in Disk : life = "saved" /\ Restart(f)
Crash == \E f \in Disk : "crash" \in Faults /\ Restart(f)

-----------------------------------------------------------------------------
Owner == \/ \E c \in Asked, f \in Disk : Command(c, f)
         \/ \E f \in Disk : TakeBoundary(f) \/ TakeEvent(f) \/ PeriodicCheckpoint(f)
         \/ TakeProgress

Preparation == Dispatch \/ Install \/ FailPreparation \/ FailLate

Worker == \/ Open \/ ReportActive \/ ReportBuffering \/ Rest \/ Play
          \/ Claim \/ Hear \/ Complete
          \/ \E lost \in BOOLEAN : FailPipe(lost)

Lifecycle == \/ BeginShutdown \/ Fence
             \/ \E f \in Disk : ShutdownCheckpoint(f)
             \/ Quit \/ Crash

Empty == [ord |-> <<>>, cur |-> NoOcc, pos |-> 0, rev |-> 0, st |-> "idle",
          act |-> NoOcc, stray |-> FALSE, done |-> {}, out |-> {}, aud |-> NoAud]

Init == LET w == Restored(Empty, [early |-> TRUE, write |-> TRUE])
        IN /\ db = w.db /\ ses = w.ses /\ pv = w.pv /\ play = w.play
           /\ plan = w.plan /\ inn = w.inn /\ gate = w.gate /\ pipe = w.pipe
           /\ task = w.task /\ effect = w.effect /\ late = w.late
           /\ mail = w.mail /\ ing = w.ing /\ life = "up"

Next == Owner \/ Preparation \/ Worker \/ Lifecycle

Spec == Init /\ [][Next]_vars

-----------------------------------------------------------------------------
(* Types, and positions within the track.                                   *)
TypeOK ==
  /\ ses \in Row /\ ses.pos <= Duration /\ gate \in BOOLEAN /\ late \in BOOLEAN
  /\ pv = NoPreview \/ (/\ pv.st \in {"paused", "buffering", "playing"}
                        /\ pv.pos \in 0..Duration)
  /\ play.status \in {"idle", "loading", "active", "paused", "completed",
                      "stopped", "error"}
  /\ play.seek \in {"no", "stay", "resume"}
  /\ pipe = NoPipe \/ pipe.pos \in 0..Duration
  /\ life \in {"up", "gating", "fenced", "saved"}

(* A departure the disk refused stands for the session as it is: same       *)
(* occurrence, same queue, paused and silent, outside any preview.          *)
PlanStands ==
  plan # NoPlan =>
    /\ ~gate /\ pv = NoPreview /\ ses.st = "paused"
    /\ plan.occ = ses.cur /\ plan.to.rev = ses.rev

(* Nothing is let through to the device that the session does not say is    *)
(* playing, and nothing while an unsaved departure waits for its retry. The *)
(* exception is real: a Resume admitted before a failure was absorbed may   *)
(* reopen the gate after it, under the error the failure left.              *)
GateTruth ==
  /\ gate => ActiveState(World) \in Audible \/ play.status = "error"
  /\ PlanStands

(* While it stands nothing is written and nothing moves; it goes by being   *)
(* carried out, by Stop, by a new queue or preview, or with the process.    *)
PlanBarrier ==
  [][plan # NoPlan =>
       IF plan' # NoPlan THEN db' = db /\ ses'.cur = ses.cur
       ELSE \/ plan.occ \in db'.done
            \/ play'.status = "stopped" \/ ses'.rev # ses.rev
            \/ pv' # NoPreview \/ Quit \/ Crash]_vars

(* Storage Retry can carry it out: nothing but the disk stands in its way.  *)
RetryCommits == plan # NoPlan => Commit(World, plan, TRUE, TRUE).ok

(* Whenever the main session moves to another occurrence of the same queue, *)
(* the attempt on the one it leaves is closed in the same transaction.      *)
DepartureClosed ==
  [][/\ pv = NoPreview /\ pv' = NoPreview /\ ses'.rev = ses.rev
     /\ ses.cur \notin {NoOcc, ses'.cur}
     => ses.cur \in db'.done /\ db'.act # ses.cur]_vars

(* What is said to be playing has an open attempt on the disk, or had one   *)
(* whose outcome is already there; and no transaction leaves an attempt     *)
(* open that the session does not name.                                     *)
Listening ==
  /\ pv = NoPreview /\ ses.st = "playing" => db.act = ses.cur \/ ses.cur \in db.out
  /\ ~db.stray

(* Whatever is on the disk when the process dies, the next start accepts    *)
(* (persistence.rs:297-470), and memory never runs ahead of it: the         *)
(* occurrence and the revision the owner works with are those it would      *)
(* restore, through edits, departures and writes that fail.                 *)
DiskIsTruth ==
  /\ Restorable(db)
  /\ inn.restore = "ok" => db.cur = ses.cur /\ db.rev = ses.rev

(* When a shutdown has saved, the disk has the position of the session; a   *)
(* cursor just taken back to the start needs no saving.                     *)
ShutdownSaves ==
  life = "saved" /\ plan = NoPlan /\ inn.restore = "ok" =>
    IF InPreview(World) THEN db.aud.pos = pv.pos
    ELSE db.pos = ses.pos \/ ses.pos = 0

(* The preview the owner plays is the one the disk would dismiss on a       *)
(* restart, with the same promise of where the main queue goes on.          *)
PreviewStored ==
  IF pv = NoPreview THEN inn.restore = "ok" => db.aud = NoAud
  ELSE db.aud.id = pv.id /\ db.aud.saved = pv.saved /\ ses.cur = pv.saved.cur

(* A preview leaves the main session alone while it lasts, and gives it     *)
(* back where it was when it ends, however it ends.                         *)
QueueUntouched ==
  [][pv # NoPreview /\ ses'.rev = ses.rev =>
       IF pv' # NoPreview THEN ses' = ses /\ pv'.saved = pv.saved
       ELSE ses'.cur = pv.saved.cur /\ ses'.pos = pv.saved.pos]_vars

(* Until the pipeline of a pending seek has opened, the committed cursor    *)
(* stays what it was, in memory and on the disk, whatever the old pipeline  *)
(* or a superseded seek still report.                                       *)
PendingSeekHolds ==
  [][/\ play.seek # "no" /\ play'.seek # "no"
     /\ pipe # NoPipe => ~pipe.opened
     => /\ ses'.pos = ses.pos /\ ses'.cur = ses.cur
        /\ db'.pos \in {db.pos, ses.pos}]_vars

(* A pending Back has its own open attempt: no late failure of the track it *)
(* left closes it.                                                          *)
BackIsRecorded == play.back /\ pv = NoPreview => db.act = ses.cur
=============================================================================
