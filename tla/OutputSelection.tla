-------------------------- MODULE OutputSelection ---------------------------
(***************************************************************************)
(* Which audio endpoint the daemon plays on.  The user selects one; the    *)
(* playback owner silences what sounds, has a worker save the choice, and  *)
(* only when the file holds it starts the sound again.  A second worker    *)
(* scans the endpoints of the machine; what it finds may be old, late or   *)
(* nothing.  Tasks start pipelines one at a time, behind the retirement of *)
(* the one before; a pipeline opens its endpoint and reports its failures. *)
(*                                                                         *)
(* One listing without a preview: the queue, seeking and the database are  *)
(* those of PlaybackOwner.  A scan is whole or has failed.                 *)
(***************************************************************************)
EXTENDS Naturals, FiniteSets

CONSTANTS
  Outputs, Default,  \* the endpoints there may be, and the system's default
  Limits      \* how often each may happen: select, change, control, fault, and all together

VARIABLES
  plugged,    \* the endpoints the machine has
  seen, scan, \* DiscoveryWorker: what the last scan found, and the scan under way
  file,       \* playback.json: None, Invalid or the endpoint it names
  queued, writing, newest, result,  \* PreferenceWorker
  owner,      \* what the owner's lock protects, the output gate, and the epoch
  tasks,      \* the tasks that start a pipeline or try an endpoint
  pipe, old,  \* the pipeline that is installed, and the one that retires
  events,     \* failures on their way to the owner
  left        \* how often each of the bounded things may still happen

None == "none"
Invalid == "invalid"
worldVars == <<plugged, seen, scan>>
saveVars == <<file, queued, writing, newest, result>>
soundVars == <<tasks, pipe, old, events>>
vars == <<worldVars, saveVars, owner, soundVars, left>>

NoRequest == [rev |-> 0, out |-> None, force |-> FALSE]
NoResult == [rev |-> 0, file |-> None, failed |-> FALSE]
NoPipe == [gen |-> 0, out |-> None, at |-> None, cancel |-> FALSE, code |-> None]
Chosen(f) == IF f \in Outputs THEN f ELSE None

Owner(f) ==
  [gen |-> 1, epoch |-> 1, rev |-> 1, fresh |-> FALSE,
   selected |-> Chosen(f), there |-> FALSE, pending |-> None,
   active |-> None, activeGen |-> 0, opening |-> 0, switching |-> 0, effect |-> 0,
   invalid |-> f = Invalid, missing |-> f = None,
   status |-> IF f = Invalid THEN "error" ELSE IF f = None THEN "unselected" ELSE "unavailable",
   fault |-> f = Invalid, intent |-> "idle", gate |-> FALSE, failed |-> "no",
   late |-> 0]  \* history: the generation of a start that opened the gate unasked
Started(f) ==
  /\ seen = [found |-> {}, ok |-> FALSE] /\ scan = [busy |-> FALSE, slow |-> FALSE, saw |-> {}]
  /\ file = f /\ queued = NoRequest /\ writing = [req |-> NoRequest, at |-> None]
  /\ newest = 0 /\ result = NoResult /\ owner = Owner(f)
  /\ tasks = {} /\ pipe = NoPipe /\ old = NoPipe /\ events = {}
Init ==
  /\ plugged \in SUBSET Outputs
  /\ \E f \in Outputs \cup {None, Invalid} : Started(f)
  /\ left \in Limits

Spends(what) ==
  /\ left[what] > 0 /\ left.all > 0
  /\ left' = [left EXCEPT ![what] = @ - 1, !.all = @ - 1]

-----------------------------------------------------------------------------
(* The endpoints.                                                          *)
Plug == \E o \in Outputs :
  /\ Spends("change")
  /\ plugged' = IF o \in plugged THEN plugged \ {o} ELSE plugged \cup {o}
  /\ UNCHANGED <<seen, scan, saveVars, owner, soundVars>>

(* A scan reads the machine at some moment, and what it read is published  *)
(* when it ends; one that takes too long publishes that nothing was found, *)
(* and hides what was found before while it lasts.                         *)
ScanBegins ==
  /\ ~scan.busy /\ (seen.found # plugged \/ ~seen.ok)
  /\ scan' = [busy |-> TRUE, slow |-> FALSE, saw |-> plugged]
  /\ UNCHANGED <<plugged, seen, saveVars, owner, soundVars, left>>
ScanSlow ==
  /\ scan.busy /\ ~scan.slow /\ Spends("fault")
  /\ scan' = [scan EXCEPT !.slow = TRUE]
  /\ UNCHANGED <<plugged, seen, saveVars, owner, soundVars>>
ScanEnds ==
  /\ scan.busy
  /\ seen' = IF scan.slow THEN [found |-> {}, ok |-> FALSE] ELSE [found |-> scan.saw, ok |-> TRUE]
  /\ scan' = [busy |-> FALSE, slow |-> FALSE, saw |-> {}]
  /\ UNCHANGED <<plugged, saveVars, owner, soundVars, left>>
CanResolve == seen.ok /\ ~scan.slow
Found(o) == CanResolve /\ o \in seen.found

-----------------------------------------------------------------------------
(* The worker that saves the choice.  A request that is no longer the      *)
(* newest when it would be committed is dropped without an answer; after   *)
(* any other end the file is read again, since a rename may have taken     *)
(* effect though it is reported as failed.                                 *)
Submit(rev, out, force) ==
  queued' = [rev |-> rev, out |-> out, force |-> force] /\ newest' = rev
Answer(failed, f) ==
  /\ result' = [rev |-> writing.req.rev, file |-> f, failed |-> failed]
  /\ writing' = [req |-> NoRequest, at |-> None]
SaveTakes ==
  /\ queued # NoRequest /\ writing.at = None
  /\ writing' = [req |-> queued, at |-> "prepare"] /\ queued' = NoRequest
  /\ UNCHANGED <<worldVars, file, newest, result, owner, soundVars, left>>
SavePrepares ==
  /\ writing.at = "prepare"
  /\ \/ ~(file = Invalid /\ ~writing.req.force) /\ newest = writing.req.rev
        /\ writing' = [writing EXCEPT !.at = "rename"]
        /\ UNCHANGED <<result, left>>
     \/ ~(file = Invalid /\ ~writing.req.force) /\ newest # writing.req.rev
        /\ writing' = [req |-> NoRequest, at |-> None]
        /\ UNCHANGED <<result, left>>
     \/ file = Invalid /\ ~writing.req.force /\ Answer(TRUE, file) /\ UNCHANGED left
     \/ Spends("fault") /\ Answer(TRUE, file)
  /\ UNCHANGED <<worldVars, file, queued, newest, owner, soundVars>>
SaveCommits ==
  /\ writing.at = "rename"
  /\ \/ file' = writing.req.out /\ Answer(FALSE, file') /\ UNCHANGED left
     \/ Spends("fault") /\ file' \in {file, writing.req.out} /\ Answer(TRUE, file')
  /\ UNCHANGED <<worldVars, queued, newest, owner, soundVars>>

-----------------------------------------------------------------------------
(* The owner.  reconcile_outputs runs once before each command: it takes   *)
(* the default the first time, takes the answer of the save, and then      *)
(* looks for the endpoint that is selected and the one that sounds.        *)
Policy(o) == ~o.invalid /\ o.pending = None /\ o.selected # None /\ o.there
Paused(o) == IF o.intent = "idle" THEN "idle" ELSE "paused"
Noted(o) == IF o.failed = "error" THEN "noted" ELSE o.failed
Cancelled(p) == IF p.at = None THEN p ELSE [p EXCEPT !.cancel = TRUE]

FirstDefault == owner.missing /\ owner.selected = None /\ owner.pending = None /\ CanResolve
Defaulted ==
  IF ~FirstDefault THEN owner
  ELSE IF ~Found(Default) THEN [owner EXCEPT !.missing = FALSE]
  ELSE [owner EXCEPT !.missing = FALSE, !.rev = @ + 1, !.pending = Default, !.status = "switching"]
AnsweredSilently(o) ==  \* mutant: the switch is over and nobody starts the sound
  IF result = NoResult \/ result.rev # o.rev THEN o
  ELSE [o EXCEPT !.selected = Chosen(result.file), !.invalid = result.file = Invalid,
                 !.pending = None, !.switching = 0]
Answered(o) ==
  IF result = NoResult THEN o
  ELSE LET kept == [o EXCEPT !.invalid = result.file = Invalid, !.selected = Chosen(result.file)]
       IN IF result.rev # o.rev THEN kept
          ELSE IF result.failed
            THEN [kept EXCEPT !.pending = None, !.fault = TRUE, !.status = "error", !.gate = FALSE,
                              !.intent = Paused(o), !.failed = Noted(o), !.switching = 0]
            ELSE [kept EXCEPT !.pending = None, !.effect = o.switching, !.opening = o.switching,
                              !.switching = 0]
Resolved(o) ==
  [o EXCEPT !.there = o.selected # None /\ Found(o.selected),
            !.opening = IF @ = o.gen THEN @ ELSE 0]
Lost(o) == o.active # None /\ ~Found(o.active) /\ o.activeGen = o.gen
Settled(o) ==
  IF o.pending # None \/ o.status = "error" \/ o.effect # 0 \/ o.opening # 0 THEN o
  ELSE [o EXCEPT !.status = IF o.selected = None THEN "unselected"
                            ELSE IF o.there THEN "available" ELSE "unavailable"]
Reconcile ==
  LET o == Resolved(Answered(Defaulted)) IN
  /\ ~owner.fresh
  /\ IF Lost(o)
       THEN /\ owner' = [o EXCEPT !.fresh = TRUE, !.gate = FALSE, !.gen = @ + 1, !.fault = TRUE,
                                  !.status = "unavailable", !.intent = Paused(o), !.failed = Noted(o)]
            /\ pipe' = Cancelled(pipe)
       ELSE owner' = [Settled(o) EXCEPT !.fresh = TRUE] /\ UNCHANGED pipe
  /\ IF Defaulted.rev # owner.rev THEN Submit(Defaulted.rev, Default, FALSE)
     ELSE UNCHANGED <<queued, newest>>
  /\ result' = NoResult
  /\ UNCHANGED <<worldVars, file, writing, tasks, old, events, left>>
(* The owner comes round every 25 ms; only the rounds that see something   *)
(* new count.                                                              *)
Round ==
  /\ owner.fresh /\ owner' = [owner EXCEPT !.fresh = FALSE]
  /\ \/ result # NoResult
     \/ Resolved(owner) # owner \/ Lost(owner) \/ Settled(owner) # owner \/ FirstDefault
  /\ UNCHANGED <<worldVars, saveVars, soundVars, left>>

(* What a command starts from, and what it leaves.                         *)
Command == owner.fresh
After(o) == owner' = [o EXCEPT !.fresh = FALSE]
Starts(kind, o) == tasks' = tasks \cup {[kind |-> kind, gen |-> o.gen, epoch |-> o.epoch,
                                        at |-> IF kind = "play" THEN "resolve" ELSE "queue"]}

Select == \E out \in Outputs, force \in BOOLEAN :
  /\ Command /\ Spends("select")
  /\ (owner.invalid => force) /\ Found(out)
  /\ ~(owner.selected = out /\ owner.there /\ owner.pending = None /\ ~owner.fault)
  /\ LET o == [owner EXCEPT !.gate = FALSE, !.epoch = @ + 1, !.gen = @ + 1, !.rev = @ + 1,
                            !.pending = out, !.status = "switching", !.fault = FALSE, !.effect = 0]
     IN After([o EXCEPT !.switching = o.gen]) /\ Submit(o.rev, out, force)
  /\ UNCHANGED <<worldVars, file, writing, result, soundVars>>

(* Playing a track replaces what there is; without an endpoint that may be *)
(* used it is left paused.                                                 *)
PlayTrack ==
  /\ Command /\ Spends("control")
  /\ LET o == [owner EXCEPT !.epoch = @ + 1, !.gen = @ + 1, !.failed = "no"] IN
       IF Policy(o)
         THEN /\ After([o EXCEPT !.intent = "playing", !.gate = TRUE])
              /\ Starts("play", o)
         ELSE /\ After([o EXCEPT !.intent = "paused", !.gate = FALSE, !.fault = TRUE])
              /\ UNCHANGED tasks
  /\ pipe' = Cancelled(pipe)
  /\ UNCHANGED <<worldVars, saveVars, old, events>>
Pause ==
  /\ Command /\ Spends("control") /\ owner.intent # "idle"
  /\ After([owner EXCEPT !.epoch = @ + 1, !.gate = FALSE, !.intent = "paused",
                          !.failed = Noted(owner)])
  /\ UNCHANGED <<worldVars, saveVars, soundVars>>
Failed == owner.failed # "no"
Resume ==
  /\ Command /\ Spends("control") /\ owner.intent # "idle" /\ Policy(owner) /\ ~owner.gate
  /\ LET o == [owner EXCEPT !.epoch = @ + 1, !.gen = IF Failed THEN @ + 1 ELSE @,
                            !.gate = TRUE, !.intent = "playing", !.failed = "no"] IN
       After(o) /\ Starts("resume", o)
  /\ pipe' = IF Failed THEN Cancelled(pipe) ELSE pipe
  /\ UNCHANGED <<worldVars, saveVars, old, events>>

(* A failure of the generation that is current; the code of a stale epoch  *)
(* is heard too.  The warning that a retirement takes long ends nothing.   *)
OutputCode(code) == code \in {"OUTPUT_LOST", "OUTPUT_UNAVAILABLE", "OUTPUT_RETIREMENT_PENDING"}
Terminal(code) == code \notin {"OUTPUT_LOST", "OUTPUT_RETIREMENT_PENDING"}
Fail(code) ==
  LET lost == code = "OUTPUT_LOST"
      o == IF code = "OUTPUT_RETIREMENT_PENDING" THEN owner
           ELSE [owner EXCEPT !.opening = 0, !.effect = 0]
  IN [o EXCEPT !.status = IF OutputCode(code) THEN "error" ELSE @,
               !.fault = @ \/ OutputCode(code), !.gate = FALSE, !.intent = Paused(o),
               !.failed = "error", !.gen = IF lost THEN @ + 1 ELSE @]
Hear == \E e \in events :
  /\ Command /\ events' = events \ {e}
  /\ IF e.gen # owner.gen \/ (Terminal(e.code) /\ owner.intent # "idle" /\ owner.failed = "error")
       THEN UNCHANGED <<owner, pipe>>
       ELSE /\ owner' = Fail(e.code)
            /\ pipe' = IF e.code = "OUTPUT_LOST" THEN Cancelled(pipe) ELSE pipe
  /\ UNCHANGED <<worldVars, saveVars, tasks, old, left>>

-----------------------------------------------------------------------------
(* Starting.  The dispatcher takes the effect of a finished switch, one at *)
(* a time; with nothing to play it only tries the endpoint.                *)
Switcher(t) == t.kind \in {"switch", "try"}
Live(p) == p.at \notin {None, "dead"} /\ ~p.cancel
TakeEffect ==
  /\ owner.effect # 0 /\ ~\E t \in tasks : Switcher(t)
  /\ owner' = [owner EXCEPT !.effect = 0]
  /\ IF owner.effect # owner.gen \/ (Live(pipe) /\ pipe.gen = owner.gen)
       THEN UNCHANGED tasks
       ELSE Starts(IF owner.intent = "idle" THEN "try" ELSE "switch", owner)
  /\ UNCHANGED <<worldVars, saveVars, pipe, old, events, left>>

Ends(t) == tasks' = tasks \ {t}
Moves(t, to) == tasks' = (tasks \ {t}) \cup {[t EXCEPT !.at = to]}
(* A failure is published while the generation is current.                 *)
Publish(gen, code) ==
  events' = IF gen = owner.gen /\ code # None THEN events \cup {[gen |-> gen, code |-> code]}
            ELSE events
(* selected_output: what the task or pipeline of a generation is refused   *)
(* with, or nothing.                                                       *)
Refusal(gen) ==
  IF gen # owner.gen THEN "superseded" ELSE IF Policy(owner) THEN None ELSE "OUTPUT_UNAVAILABLE"
Heard(code) == IF code = "superseded" THEN None ELSE code
Stale(t) == t.kind # "try" /\ t.epoch # owner.epoch
Unlocked == \A t \in tasks : t.at \in {"resolve", "queue"}

(* The track is resolved; only then does a start of PlayTrack read the     *)
(* epoch.  What the provider cannot resolve is a failure.                  *)
TaskResolves(t) ==
  /\ t.at = "resolve"
  /\ \/ /\ tasks' = (tasks \ {t}) \cup {[t EXCEPT !.at = "queue", !.epoch = owner.epoch]}
        /\ UNCHANGED <<events, left>>
     \/ Spends("fault") /\ Ends(t) /\ Publish(t.gen, "RESUME_UNAVAILABLE")
  /\ UNCHANGED <<worldVars, saveVars, owner, pipe, old>>
(* Behind the lock: a start that shares its generation with a pipeline     *)
(* that is alive uses it; any other takes the old one out first.           *)
TaskLocks(t) ==
  /\ t.at = "queue" /\ Unlocked
  /\ \/ /\ Stale(t) \/ Refusal(t.gen) # None
        /\ Ends(t) /\ Publish(t.gen, IF Stale(t) THEN None ELSE Heard(Refusal(t.gen)))
        /\ UNCHANGED <<owner, pipe, old>>
     \/ /\ ~Stale(t) /\ Refusal(t.gen) = None /\ t.kind # "try"
        /\ Live(pipe) /\ pipe.gen = t.gen
        /\ owner' = [owner EXCEPT !.gate = TRUE, !.late = IF owner.intent = "playing" THEN @ ELSE t.gen]
        /\ Ends(t)
        /\ UNCHANGED <<pipe, old, events>>
     \/ /\ ~Stale(t) /\ Refusal(t.gen) = None
        /\ t.kind = "try" \/ ~(Live(pipe) /\ pipe.gen = t.gen)
        /\ old' = Cancelled(pipe) /\ pipe' = NoPipe
        /\ owner' = IF pipe = NoPipe THEN owner ELSE [owner EXCEPT !.gate = FALSE]
        /\ Moves(t, "retire") /\ UNCHANGED events
  /\ UNCHANGED <<worldVars, saveVars, left>>
RetireSlow(t) ==
  /\ t.at = "retire" /\ old.at \notin {None, "dead"} /\ Spends("fault")
  /\ Publish(t.gen, "OUTPUT_RETIREMENT_PENDING")
  /\ UNCHANGED <<worldVars, saveVars, owner, tasks, pipe, old>>
(* The old pipeline is joined; the new one is installed under the owner's  *)
(* lock, and does nothing before.                                          *)
TaskInstalls(t) ==
  /\ t.at = "retire" /\ t.kind # "try" /\ old.at \in {None, "dead"} /\ old' = NoPipe
  /\ Ends(t)
  /\ \/ /\ ~Stale(t) /\ t.gen = owner.gen
        /\ pipe' = [NoPipe EXCEPT !.gen = t.gen, !.at = "made"] /\ UNCHANGED <<events, left>>
     \/ /\ Stale(t) \/ t.gen # owner.gen
        /\ UNCHANGED <<pipe, events, left>>
     \/ /\ ~Stale(t) /\ t.gen = owner.gen /\ Spends("fault")
        /\ Publish(t.gen, "RESUME_UNAVAILABLE") /\ UNCHANGED pipe
  /\ UNCHANGED <<worldVars, saveVars, owner>>
(* output_opened and output_closed: the owner hears which endpoint a       *)
(* generation holds, if it is still the one that is wanted.                *)
Welcome(gen, out) == gen = owner.gen /\ out = owner.selected
Opened(gen) ==
  [owner EXCEPT !.active = owner.selected, !.activeGen = gen, !.opening = 0, !.status = "available",
                !.fault = FALSE, !.gate = owner.intent = "playing"]
Closed(gen) ==
  IF owner.activeGen = gen THEN [owner EXCEPT !.active = None, !.activeGen = 0] ELSE owner
TryOpens(t) ==
  /\ t.at = "retire" /\ t.kind = "try" /\ old.at \in {None, "dead"} /\ old' = NoPipe
  /\ IF Refusal(t.gen) = None /\ owner.selected \in plugged
       THEN owner' = Opened(t.gen) /\ Moves(t, "trying") /\ UNCHANGED events
       ELSE /\ UNCHANGED owner /\ Ends(t)
            /\ Publish(t.gen, IF Refusal(t.gen) = None THEN "OUTPUT_UNAVAILABLE"
                              ELSE Heard(Refusal(t.gen)))
  /\ UNCHANGED <<worldVars, saveVars, pipe, left>>
TryCloses(t) ==
  /\ t.at = "trying" /\ owner' = Closed(t.gen) /\ Ends(t)
  /\ UNCHANGED <<worldVars, saveVars, pipe, old, events, left>>
TaskStep(t) ==
  TaskResolves(t) \/ TaskLocks(t) \/ RetireSlow(t) \/ TaskInstalls(t) \/ TryOpens(t) \/ TryCloses(t)

-----------------------------------------------------------------------------
(* The worker of a pipeline, and what becomes of p in one step: it opens   *)
(* what is selected, fills, tells the owner and sounds, until it is        *)
(* cancelled, superseded or fails.                                         *)
Becomes(p, q) ==
  \/ p = pipe /\ pipe' = q /\ UNCHANGED old
  \/ p = old /\ p # pipe /\ old' = q /\ UNCHANGED pipe
Fails(p, code) == Becomes(p, [p EXCEPT !.at = "closing", !.code = code])
PipeOpens(p) ==
  /\ p.at = "made"
  /\ IF Refusal(p.gen) # None THEN Fails(p, Heard(Refusal(p.gen)))
     ELSE IF owner.selected \notin plugged THEN Fails(p, "OUTPUT_UNAVAILABLE")
     ELSE Becomes(p, [p EXCEPT !.at = "filling", !.out = owner.selected])
  /\ UNCHANGED <<worldVars, saveVars, owner, tasks, events, left>>
PipeSounds(p) ==
  /\ p.at = "filling"
  /\ IF Welcome(p.gen, p.out)
       THEN owner' = Opened(p.gen) /\ Becomes(p, [p EXCEPT !.at = "running"])
       ELSE Fails(p, None) /\ UNCHANGED owner
  /\ UNCHANGED <<worldVars, saveVars, tasks, events, left>>
PipeStops(p) ==
  /\ p.at \in {"filling", "running"} /\ Fails(p, None)
  /\ p.cancel \/ p.gen # owner.gen
  /\ UNCHANGED <<worldVars, saveVars, owner, tasks, events, left>>
(* The endpoint is gone, or decoding fails.                                *)
PipeBreaks(p) ==
  /\ p.at \in {"filling", "running"}
  /\ \/ p.out \notin plugged /\ Fails(p, "OUTPUT_LOST") /\ UNCHANGED left
     \/ Spends("fault") /\ Fails(p, "DECODE_FAILED")
  /\ owner' = IF p.at = "running" THEN [owner EXCEPT !.gate = FALSE] ELSE owner
  /\ UNCHANGED <<worldVars, saveVars, tasks, events>>
PipeCloses(p) ==
  /\ p.at = "closing" /\ owner' = Closed(p.gen) /\ Publish(p.gen, p.code)
  /\ Becomes(p, [NoPipe EXCEPT !.gen = p.gen, !.at = "dead"])
  /\ UNCHANGED <<worldVars, saveVars, tasks, left>>
PipeStep(p) ==
  PipeOpens(p) \/ PipeSounds(p) \/ PipeStops(p) \/ PipeBreaks(p) \/ PipeCloses(p)

(* The daemon dies and comes back; the file and the machine are what stays.*)
Restart ==
  /\ Spends("fault")
  /\ seen' = [found |-> {}, ok |-> FALSE] /\ scan' = [busy |-> FALSE, slow |-> FALSE, saw |-> {}]
  /\ queued' = NoRequest /\ writing' = [req |-> NoRequest, at |-> None]
  /\ newest' = 0 /\ result' = NoResult /\ owner' = Owner(file)
  /\ tasks' = {} /\ pipe' = NoPipe /\ old' = NoPipe /\ events' = {}
  /\ UNCHANGED <<plugged, file>>

Scanning == ScanBegins \/ ScanSlow \/ ScanEnds
Saving == SaveTakes \/ SavePrepares \/ SaveCommits
Commands == Select \/ PlayTrack \/ Pause \/ Resume
Pipes == PipeStep(pipe) \/ PipeStep(old)
Starting == TakeEffect \/ \E t \in tasks : TaskStep(t)
Next ==
  \/ Plug \/ Scanning \/ Saving \/ Round \/ Reconcile \/ Hear \/ Commands
  \/ Starting \/ Pipes \/ Restart
Spec == Init /\ [][Next]_vars

-----------------------------------------------------------------------------
States == {"unselected", "available", "unavailable", "switching", "error"}
TypeOK ==
  /\ plugged \subseteq Outputs /\ seen.found \subseteq Outputs
  /\ file \in Outputs \cup {None, Invalid}
  /\ owner.selected \in Outputs \cup {None} /\ owner.pending \in Outputs \cup {None}
  /\ owner.status \in States /\ owner.intent \in {"idle", "playing", "paused"}
  /\ writing.at \in {None, "prepare", "rename"}
  /\ Cardinality({t \in tasks : t.at \in {"retire", "trying"}}) <= 1

Opens(p) == p.at \in {"filling", "running"}
Audible(p) == p.at = "running" /\ owner.gate /\ ~p.cancel /\ p.gen = owner.gen

(* Only what the user chose sounds, and only once that choice is decided;  *)
(* an old pipeline is gone before the next one opens an endpoint, through  *)
(* every order of switches, starts, losses and retirements                 *)
(* (session/output_selection.rs:112-168, audio.rs:894-918, 1270-1292).     *)
SoundIsChosen ==
  /\ \A p \in {pipe, old} : Audible(p) => p.out = owner.selected /\ owner.pending = None
  /\ ~(Opens(pipe) /\ old.at \notin {None, "dead"})

(* What the owner shows as selected is what the file holds, whichever save *)
(* was dropped, failed, or failed after its rename, unless an answer is on *)
(* its way: so a restart comes back to it (worker.rs:188-208).             *)
ChoiceIsDurable ==
  result = NoResult =>
    owner.selected = Chosen(file) /\ owner.invalid = (file = Invalid)

(* A choice that is pending has a save on its way that will answer: none   *)
(* is dropped for a newer one that is not there (worker.rs:188-226).       *)
PendingIsSaved ==
  owner.pending # None =>
    \E r \in {queued, writing.req, result} : r.rev = owner.rev

(* The endpoint shown as active is one that a pipeline or a trial really   *)
(* holds, and every one that is held is shown until it is closed, also     *)
(* when a newer generation starts meanwhile (output_selection.rs:136-182). *)
Holders == {<<p.gen, p.out>> : p \in {q \in {pipe, old} : q.at = "running"}}
ActiveIsHeld ==
  /\ \A h \in Holders : h = <<owner.activeGen, owner.active>>
  /\ owner.active # None =>
       \/ \E p \in {pipe, old} :
            p.at \in {"running", "closing"} /\ p.gen = owner.activeGen /\ p.out = owner.active
       \/ \E t \in tasks : t.at = "trying" /\ t.gen = owner.activeGen

(* The gate is open only while the user wants sound.  The one exception:   *)
(* a start that finds a live pipeline of its generation opens the gate     *)
(* whatever the listing is now.  PlayTrack's start reads the epoch only    *)
(* when its track is resolved, so it comes after a Resume and a Pause; and *)
(* a failure pauses without a new epoch, so any second start comes after   *)
(* it (audio.rs:1049-1075, 1113, session.rs:4236-4262).                    *)
GateIsWanted == owner.gate /\ owner.late # owner.gen => owner.intent = "playing"

OutputsSafe ==
  SoundIsChosen /\ ChoiceIsDurable /\ PendingIsSaved /\ ActiveIsHeld /\ GateIsWanted

(* A choice that is pending is decided, and while the user wants sound it  *)
(* comes back: from the endpoint chosen, or the listing is left paused.    *)
Undecided == owner.pending # None
SoundIsBack == (\E p \in {pipe, old} : Audible(p)) \/ owner.intent # "playing"
SwitchEnds ==
  /\ Undecided ~> ~Undecided
  /\ Undecided /\ owner.intent = "playing" ~> SoundIsBack
=============================================================================
