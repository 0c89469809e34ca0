------------------------------ MODULE SyncOps ------------------------------
(***************************************************************************)
(* The SyncOperationManager of sync.rs and everything that meets in it:    *)
(* pipelines (an automatic synchronisation, a requested one), mutating     *)
(* requests, cancellations, the removal of a device, and Quit, which       *)
(* travels from the tray's event loop through the daemon's core loop until *)
(* nothing that could touch a device is left.                              *)
(*                                                                         *)
(* Every load and store of an atomic is a step of its own, what happens    *)
(* under one lock is one step, and atomics are sequentially consistent.    *)
(***************************************************************************)
EXTENDS Naturals, Sequences

CONSTANTS
  Pipelines,   \* tasks that may claim the sync pipeline
  AutoSyncs,   \* those of them that run run_auto_sync_via_provider
  Mutators,    \* RPC requests of mutating methods
  Ops,         \* identities of operations
  Devices,
  NoOp,
  Core,        \* the core loop, as an owner of the finalization gate
  Nobody

ASSUME ConstantsAssumption ==
  /\ AutoSyncs \subseteq Pipelines
  /\ NoOp \notin Ops
  /\ Core \notin Pipelines /\ Nobody \notin Pipelines /\ Core # Nobody

VARIABLES
  raised,      \* the atomic flags that are true
  mutations,   \* the requests that active_mutations counts
  status,      \* operations: the status of each
  target,      \* operations: the device each is for
  tokens,      \* the operations whose cancel token is set
  gate,        \* who holds finalization_gate
  pipeline,    \* where each pipeline task is
  job,         \* the operation each pipeline task has admitted
  faults,      \* the pipeline tasks whose run has collected errors
  request,     \* where each mutating request is
  connected,   \* the devices of the device manager
  remover,     \* where the handler of a removed device is
  doomed,      \* the operations it found running
  shutdown,    \* the shutdown tracker; phase "none" stands for None
  tray,        \* where the tray's event loop is in a Quit
  commands,    \* the channel from the event loop to the core loop
  core,        \* where the core loop is
  saver,       \* the checkpoint future of a committed shutdown
  generation   \* how many advances of the launch generation were acknowledged

flagVars == <<raised, mutations>>
opVars == <<status, target, tokens>>
pipeVars == <<pipeline, job, faults>>
deviceVars == <<connected, remover, doomed>>
quitVars == <<shutdown, tray, commands, core, saver, generation>>
vars == <<flagVars, opVars, gate, pipeVars, request, deviceVars, quitVars>>

Flags == {"pipeline_active", "pipeline_cancelled", "admission_closed",
          "shutdown_committed", "quit_retry", "checkpoint_retry", "stopping"}
Phases == {"none", "fencing", "fenceFailed", "cancelling", "draining", "waiting",
           "finalizing"}
Checkpoints == {"notRequired", "pending", "failed", "succeeded"}
Trackers == [phase : Phases, checkpoint : Checkpoints, marks : SUBSET {"committed", "retried"}]
Statuses == {"absent", "running", "complete", "failed", "cancelled"}

(* Where a pipeline task is, in the order of the code: it has admitted an  *)
(* operation (Serving), may touch the device (Working), or holds           *)
(* pipeline_active (Claimed).                                              *)
Serving == {"mark", "fail", "run", "gate", "decide", "commit", "publish", "refuse"}
Working == {"load", "keep", "reset", "prepare", "admit", "release"} \cup Serving
Claimed == {"recheck"} \cup Working
PipelineAt == {"idle", "claim"} \cup Claimed
RequestAt == {"idle", "count", "recheck", "work", "seen"}
TrayAt == {"idle", "asked", "answered", "fencing", "persisted", "refused", "pending"}
CoreAt == {"loop", "fence", "gate", "commit", "cancel", "tokens", "drain", "mutations",
           "checkpoint", "drained", "teardown", "stopped"}
CoreCommands == {"begin", "fenceFailed", "commit"}
Savers == {"off", "refused", "asked", "failed", "done"}

Open == "admission_closed" \notin raised
Committed == "shutdown_committed" \in raised
Running(o) == status[o] = "running"
Raise(f) == raised' = raised \cup {f}
Lower(f) == raised' = raised \ {f}

Init ==
  /\ raised = {} /\ mutations = {}
  /\ status = [o \in Ops |-> "absent"] /\ target \in [Ops -> Devices] /\ tokens = {}
  /\ gate = Nobody
  /\ pipeline = [p \in Pipelines |-> "idle"]
  /\ job = [p \in Pipelines |-> NoOp] /\ faults = {}
  /\ request = [m \in Mutators |-> "idle"]
  /\ connected = Devices /\ remover = "idle" /\ doomed = {}
  /\ shutdown = [phase |-> "none", checkpoint |-> "notRequired", marks |-> {}]
  /\ tray = "idle" /\ commands = <<>> /\ core = "loop" /\ saver = "off"
  /\ generation = 0

(***************************************************************************)
(* The pipeline: try_start_pipeline, the preparation, the admission of an  *)
(* operation for a device, its run and finalize_operation.                 *)
(***************************************************************************)
Go(p, at) == pipeline' = [pipeline EXCEPT ![p] = at]
Finish(o, s) == status' = [status EXCEPT ![o] = s]
besidesPipeline == <<mutations, target, request, deviceVars, quitVars>>

(* A requested synchronisation starts inside an admitted request.          *)
Start(p) ==
  /\ pipeline[p] = "idle" /\ Open /\ Go(p, "claim")
  /\ p \in AutoSyncs \/ \E m \in Mutators : request[m] = "work"
  /\ UNCHANGED <<besidesPipeline, raised, status, tokens, gate, job, faults>>

(* compare_exchange of pipeline_active: another pipeline may own it.       *)
Claim(p) ==
  /\ pipeline[p] = "claim"
  /\ IF "pipeline_active" \in raised
     THEN Go(p, "idle") /\ UNCHANGED raised
     ELSE Go(p, "recheck") /\ Raise("pipeline_active")
  /\ UNCHANGED <<besidesPipeline, status, tokens, gate, job, faults>>

(* The second look at admission_closed, after the flag is published.       *)
Recheck(p) ==
  /\ pipeline[p] = "recheck"
  /\ IF Open
     THEN Go(p, "load") /\ UNCHANGED raised
     ELSE Go(p, "idle") /\ Lower("pipeline_active")
  /\ UNCHANGED <<besidesPipeline, status, tokens, gate, job, faults>>

(* pipeline_cancelled.store(shutdown_committed.load()) is two steps.       *)
LoadCommitted(p) ==
  /\ pipeline[p] = "load" /\ Go(p, IF Committed THEN "keep" ELSE "reset")
  /\ UNCHANGED <<besidesPipeline, raised, status, tokens, gate, job, faults>>

StoreCancelled(p) ==
  /\ \/ pipeline[p] = "keep" /\ Raise("pipeline_cancelled")
     \/ pipeline[p] = "reset" /\ Lower("pipeline_cancelled")
  /\ Go(p, "prepare")
  /\ UNCHANGED <<besidesPipeline, status, tokens, gate, job, faults>>

(* What a pipeline looks at before it registers an operation: automatic    *)
(* synchronisation whether it was cancelled, a requested one whether an    *)
(* operation is still running.                                             *)
Prepare(p) ==
  /\ pipeline[p] = "prepare" /\ Go(p, "admit")
  /\ IF p \in AutoSyncs THEN "pipeline_cancelled" \notin raised
     ELSE \A o \in Ops : ~Running(o)
  /\ UNCHANGED <<besidesPipeline, raised, status, tokens, gate, job, faults>>

(* Seeded bugs: a token that starts unset; a target that is not looked up. *)
AdmitUncancelled(p, o) ==
  /\ pipeline[p] = "admit" /\ status[o] = "absent" /\ target[o] \in connected
  /\ Go(p, "mark") /\ job' = [job EXCEPT ![p] = o] /\ Finish(o, "running")
  /\ UNCHANGED <<besidesPipeline, raised, tokens, gate, faults>>

AdmitGone(p, o) ==
  /\ pipeline[p] = "admit" /\ status[o] = "absent"
  /\ Go(p, "mark") /\ job' = [job EXCEPT ![p] = o] /\ Finish(o, "running")
  /\ tokens' = IF Committed THEN tokens \cup {o} ELSE tokens
  /\ UNCHANGED <<besidesPipeline, raised, gate, faults>>

(* admit_sync_operation: the device map stays locked until the operation   *)
(* and its token are registered.                                           *)
Admit(p, o) ==
  /\ pipeline[p] = "admit" /\ status[o] = "absent" /\ target[o] \in connected
  /\ Go(p, "mark") /\ job' = [job EXCEPT ![p] = o] /\ Finish(o, "running")
  /\ tokens' = IF Committed THEN tokens \cup {o} ELSE tokens
  /\ UNCHANGED <<besidesPipeline, raised, gate, faults>>

(* The preparation ends without an operation.                              *)
Abandon(p) ==
  /\ pipeline[p] \in {"prepare", "admit"} /\ Go(p, "release")
  /\ UNCHANGED <<besidesPipeline, raised, status, tokens, gate, job, faults>>

(* Seeded bug: a failed preparation drops the guard and nothing else.      *)
MarkDirtyOrphan(p) ==
  /\ pipeline[p] = "mark"
  /\ \/ target[job[p]] \in connected /\ Go(p, "run")
     \/ Go(p, "release")
  /\ UNCHANGED <<besidesPipeline, raised, status, tokens, gate, job, faults>>

(* The dirty mark comes before anything else is written; if it fails, or   *)
(* what the run needs cannot be had, the operation is failed.              *)
MarkDirty(p) ==
  /\ pipeline[p] = "mark"
  /\ \/ target[job[p]] \in connected /\ Go(p, "run")
     \/ Go(p, "fail")
  /\ UNCHANGED <<besidesPipeline, raised, status, tokens, gate, job, faults>>

(* update_operation: a terminal outcome is never rewritten.                *)
FailOperation(p) ==
  /\ pipeline[p] = "fail" /\ gate = Nobody /\ Go(p, "release")
  /\ Finish(job[p], IF Running(job[p]) THEN "failed" ELSE status[job[p]])
  /\ UNCHANGED <<besidesPipeline, raised, tokens, gate, job, faults>>

(* A transfer fails; one that fails from lack of space cancels the rest.   *)
Fault(p) ==
  /\ pipeline[p] = "run" /\ p \notin faults /\ faults' = faults \cup {p}
  /\ tokens' \in {tokens, tokens \cup {job[p]}}
  /\ UNCHANGED <<besidesPipeline, raised, status, gate, pipeline, job>>

EndRun(p) ==
  /\ pipeline[p] = "run"
  /\ Go(p, "gate") \/ Go(p, "fail")
  /\ UNCHANGED <<besidesPipeline, raised, status, tokens, gate, job, faults>>

TakeGate(p) ==
  /\ pipeline[p] = "gate" /\ gate = Nobody /\ gate' = p /\ Go(p, "decide")
  /\ UNCHANGED <<besidesPipeline, raised, status, tokens, job, faults>>

(* finalize_operation: an outcome published before stands, errors fail the *)
(* operation, and a cancellation keeps the manifest from being committed   *)
(* as clean.                                                               *)
Decide(p) ==
  /\ pipeline[p] = "decide"
  /\ IF Running(job[p]) /\ p \notin faults /\ job[p] \notin tokens
     THEN Go(p, "commit") /\ UNCHANGED <<status, gate>>
     ELSE /\ Go(p, "release") /\ gate' = Nobody
          /\ Finish(job[p], IF ~Running(job[p]) THEN status[job[p]]
                            ELSE IF p \in faults THEN "failed" ELSE "cancelled")
  /\ UNCHANGED <<besidesPipeline, raised, tokens, job, faults>>

CommitManifest(p) ==
  /\ pipeline[p] = "commit"
  /\ \/ target[job[p]] \in connected /\ Go(p, "publish")
     \/ Go(p, "refuse")
  /\ UNCHANGED <<besidesPipeline, raised, status, tokens, gate, job, faults>>

Publish(p) ==
  /\ pipeline[p] \in {"publish", "refuse"} /\ Go(p, "release") /\ gate' = Nobody
  /\ Finish(job[p], IF pipeline[p] = "publish" THEN "complete" ELSE "failed")
  /\ UNCHANGED <<besidesPipeline, raised, tokens, job, faults>>

(* The guard is dropped when its task ends.                                *)
Release(p) ==
  /\ pipeline[p] = "release" /\ Go(p, "idle") /\ Lower("pipeline_active")
  /\ job' = [job EXCEPT ![p] = NoOp] /\ faults' = faults \ {p}
  /\ UNCHANGED <<besidesPipeline, status, tokens, gate>>

(***************************************************************************)
(* Mutating requests; sync_cancel and daemon.retryQuit are two of them.    *)
(***************************************************************************)
At(m, at) == request' = [request EXCEPT ![m] = at]
besidesRequest == <<status, target, gate, pipeVars, deviceVars, quitVars>>

(* The handler's first looks only refuse early.                            *)
TryAdmit(m) ==
  /\ request[m] = "idle" /\ ~Committed /\ "stopping" \notin raised /\ Open
  /\ At(m, "count")
  /\ UNCHANGED <<besidesRequest, flagVars, tokens>>

Count(m) ==
  /\ request[m] = "count" /\ At(m, "recheck") /\ mutations' = mutations \cup {m}
  /\ UNCHANGED <<besidesRequest, raised, tokens>>

(* Seeded bug: the first look at admission_closed is the only one.         *)
RecheckMutationBlind(m) ==
  /\ request[m] = "recheck" /\ At(m, "work")
  /\ UNCHANGED <<besidesRequest, flagVars, tokens>>

RecheckMutation(m) ==
  /\ request[m] = "recheck"
  /\ IF Open THEN At(m, "work") /\ UNCHANGED mutations
     ELSE At(m, "idle") /\ mutations' = mutations \ {m}
  /\ UNCHANGED <<besidesRequest, raised, tokens>>

Respond(m) ==
  /\ request[m] = "work" /\ At(m, "idle") /\ mutations' = mutations \ {m}
  /\ UNCHANGED <<besidesRequest, raised, tokens>>

RequestCancel(m, o) ==
  /\ request[m] = "work" /\ status[o] # "absent" /\ tokens' = tokens \cup {o}
  /\ UNCHANGED <<besidesRequest, flagVars, request>>

(* request_pipeline_cancel reads one flag and then stores the other.       *)
SeePipeline(m) ==
  /\ request[m] = "work" /\ "pipeline_active" \in raised /\ At(m, "seen")
  /\ UNCHANGED <<besidesRequest, flagVars, tokens>>

CancelPipeline(m) ==
  /\ request[m] = "seen" /\ At(m, "work") /\ Raise("pipeline_cancelled")
  /\ UNCHANGED <<besidesRequest, mutations, tokens>>

RequestQuitRetry(m) ==
  /\ request[m] = "work" /\ shutdown.phase = "fenceFailed" /\ Raise("quit_retry")
  /\ UNCHANGED <<besidesRequest, mutations, tokens, request>>

(***************************************************************************)
(* A device is unplugged: it leaves the map before running operations are  *)
(* looked for; each that is found is cancelled and then failed.            *)
(***************************************************************************)
besidesDevices == <<flagVars, target, gate, pipeVars, request, quitVars>>

Remove(d) ==
  /\ remover = "idle" /\ d \in connected
  /\ connected' = connected \ {d} /\ remover' = "scan"
  /\ UNCHANGED <<besidesDevices, status, tokens, doomed>>

Scan ==
  /\ remover = "scan"
  /\ doomed' = {o \in Ops : Running(o) /\ target[o] \notin connected}
  /\ remover' = IF doomed' = {} THEN "idle" ELSE "cancel"
  /\ UNCHANGED <<besidesDevices, status, tokens, connected>>

CancelDoomed(o) ==
  /\ remover = "cancel" /\ o \in doomed
  /\ tokens' = tokens \cup {o} /\ remover' = "update"
  /\ UNCHANGED <<besidesDevices, status, connected, doomed>>

(* update_operation with the snapshot taken by the scan.                   *)
FailDoomed(o) ==
  /\ remover = "update" /\ o \in doomed \cap tokens /\ gate = Nobody
  /\ Finish(o, IF Running(o) THEN "failed" ELSE status[o])
  /\ doomed' = doomed \ {o}
  /\ remover' = IF doomed' = {} THEN "idle" ELSE "cancel"
  /\ UNCHANGED <<besidesDevices, tokens, connected>>

(* The same task handles arrivals, as work admitted like a request.        *)
Reconnect(d) ==
  /\ remover = "idle" /\ d \notin connected /\ connected' = connected \cup {d}
  /\ \E m \in Mutators : request[m] = "work"
  /\ UNCHANGED <<besidesDevices, status, tokens, remover, doomed>>

(***************************************************************************)
(* The tray's event loop: a Quit asks the core loop for the fence, then    *)
(* persists a new launch generation in a thread, then asks for the commit. *)
(* Every turn of the loop begins by swapping quit_retry_requested, so the  *)
(* rest of a turn finds it false.                                          *)
(***************************************************************************)
NoRetry == "quit_retry" \notin raised
besidesQuit == <<mutations, status, target, pipeVars, request, deviceVars>>
besidesTray == <<besidesQuit, tokens, gate, shutdown, core, saver>>
Send(c) == commands' = Append(commands, c)

(* Seeded bug: a second Quit does not look for one in flight.              *)
QuitAgain ==
  /\ NoRetry /\ tray # "pending" /\ tray' = "asked" /\ Send("begin")
  /\ UNCHANGED <<besidesTray, raised, generation>>

Quit ==
  /\ NoRetry /\ tray = "idle" /\ tray' = "asked" /\ Send("begin")
  /\ UNCHANGED <<besidesTray, raised, generation>>

TakeQuitRetry ==
  /\ "quit_retry" \in raised /\ Lower("quit_retry")
  /\ IF tray = "idle"
     THEN tray' = "asked" /\ Send("begin")
     ELSE UNCHANGED <<tray, commands>>
  /\ UNCHANGED <<besidesTray, generation>>

SpawnWriter ==
  /\ NoRetry /\ tray = "answered" /\ tray' = "fencing" /\ Raise("stopping")
  /\ UNCHANGED <<besidesTray, commands, generation>>

(* A refused write may have taken effect, when only the directory could    *)
(* not be synchronised; what counts is what the event loop is told.        *)
AdvanceGeneration ==
  /\ tray = "fencing"
  /\ \/ tray' = "persisted" /\ generation' = generation + 1
     \/ tray' = "refused" /\ UNCHANGED generation
  /\ UNCHANGED <<besidesTray, raised, commands>>

HearWriter ==
  /\ NoRetry
  /\ \/ tray = "persisted" /\ tray' = "pending" /\ Send("commit") /\ UNCHANGED raised
     \/ tray = "refused" /\ tray' = "idle" /\ Send("fenceFailed") /\ Lower("stopping")
  /\ UNCHANGED <<besidesTray, generation>>

(***************************************************************************)
(* The core loop: one command at a time; a commit is carried through       *)
(* finish_shutdown_with_playback before the next is looked at.             *)
(***************************************************************************)
besidesCore == <<besidesQuit, generation>>
Received(c) == core = "loop" /\ commands # <<>> /\ Head(commands) = c
               /\ commands' = Tail(commands)
Step(from, to) == core = from /\ core' = to

CloseAdmission ==
  /\ Received("begin") /\ core' = "fence" /\ Raise("admission_closed")
  /\ UNCHANGED <<besidesCore, tokens, gate, shutdown, tray, saver>>

BeginFence ==
  /\ Step("fence", "loop") /\ tray' = "answered"
  /\ shutdown' = IF shutdown.phase \in {"none", "fenceFailed"}
                 THEN [phase |-> "fencing", checkpoint |-> "notRequired", marks |-> {}]
                 ELSE shutdown
  /\ UNCHANGED <<besidesCore, raised, tokens, gate, commands, saver>>

FailFence ==
  /\ Received("fenceFailed") /\ UNCHANGED core
  /\ IF "committed" \notin shutdown.marks /\ shutdown.phase # "none"
     THEN Lower("admission_closed") /\ shutdown' = [shutdown EXCEPT !.phase = "fenceFailed"]
     ELSE UNCHANGED <<raised, shutdown>>
  /\ UNCHANGED <<besidesCore, tokens, gate, tray, saver>>

(* begin_session_checkpoint; the playback session may refuse the write.    *)
BeginCommit ==
  /\ Received("commit") /\ core' = "gate"
  /\ shutdown' = [shutdown EXCEPT !.checkpoint = "pending"]
  /\ saver' \in {"asked", "refused"}
  /\ UNCHANGED <<besidesCore, raised, tokens, gate, tray>>

(* Seeded bug: the commit does not wait for a finalization under way.      *)
GateIgnored ==
  /\ Step("gate", "commit")
  /\ UNCHANGED <<besidesCore, raised, tokens, gate, shutdown, tray, commands, saver>>

GateForCommit ==
  /\ Step("gate", "commit") /\ gate = Nobody /\ gate' = Core
  /\ UNCHANGED <<besidesCore, raised, tokens, shutdown, tray, commands, saver>>

CommitShutdown ==
  /\ Step("commit", "cancel") /\ Raise("shutdown_committed")
  /\ UNCHANGED <<besidesCore, tokens, gate, shutdown, tray, commands, saver>>

CancelPipelines ==
  /\ Step("cancel", "tokens") /\ Raise("pipeline_cancelled")
  /\ shutdown' = [shutdown EXCEPT !.phase = "cancelling",
                                  !.marks = @ \cup {"committed"}]
  /\ UNCHANGED <<besidesCore, tokens, gate, tray, commands, saver>>

(* Every token there is; the gate is released at the end.                  *)
CancelTokens ==
  /\ Step("tokens", "drain") /\ gate' = Nobody
  /\ tokens' = tokens \cup {o \in Ops : status[o] # "absent"}
  /\ shutdown' = [shutdown EXCEPT !.phase = "draining"]
  /\ UNCHANGED <<besidesCore, raised, tray, commands, saver>>

(* One turn of wait_for_shutdown_drain reads three places one by one; that *)
(* a miss after the deadline shows as waiting is left out.                 *)
Miss == core' = "drain" /\ UNCHANGED shutdown

DrainPipeline ==
  /\ core = "drain"
  /\ IF "pipeline_active" \in raised THEN Miss ELSE core' = "mutations" /\ UNCHANGED shutdown
  /\ UNCHANGED <<besidesCore, raised, tokens, gate, tray, commands, saver>>

DrainMutations ==
  /\ core = "mutations"
  /\ IF mutations # {} THEN Miss ELSE core' = "checkpoint" /\ UNCHANGED shutdown
  /\ UNCHANGED <<besidesCore, raised, tokens, gate, tray, commands, saver>>

DrainCheckpoint ==
  /\ core = "checkpoint"
  /\ IF shutdown.checkpoint \notin {"notRequired", "succeeded"} THEN Miss
     ELSE core' = "drained" /\ shutdown' = [shutdown EXCEPT !.phase = "finalizing"]
  /\ UNCHANGED <<besidesCore, raised, tokens, gate, tray, commands, saver>>

JoinSaver ==
  /\ Step("drained", "teardown") /\ saver = "done"
  /\ UNCHANGED <<besidesCore, raised, tokens, gate, shutdown, tray, commands, saver>>

(* Joining the audio and playback owners succeeds, or the daemon stays.    *)
Teardown ==
  /\ \/ Step("teardown", "stopped") /\ UNCHANGED shutdown
     \/ /\ Step("teardown", "loop")
        /\ shutdown' = [shutdown EXCEPT !.phase = "waiting"]
  /\ UNCHANGED <<besidesCore, raised, tokens, gate, tray, commands, saver>>

(***************************************************************************)
(* The checkpoint future, polled with the drain after commit_shutdown.     *)
(***************************************************************************)
besidesSaver == <<besidesQuit, tokens, gate, tray, commands, core, generation>>
Polled == core \in {"drain", "mutations", "checkpoint", "drained"}

(* Seeded bug: a checkpoint that could not be asked for is not reported.   *)
HearCheckpointSilent ==
  /\ Polled /\ saver = "asked"
  /\ \/ saver' = "done" /\ shutdown' = [shutdown EXCEPT !.checkpoint = "succeeded"]
     \/ saver' = "failed" /\ shutdown' = [shutdown EXCEPT !.checkpoint = "failed"]
  /\ UNCHANGED <<besidesSaver, raised>>

(* finish_session_checkpoint with the reply, or for want of one.           *)
HearCheckpoint ==
  /\ Polled
  /\ \/ /\ saver = "asked" /\ saver' = "done"
        /\ shutdown' = [shutdown EXCEPT !.checkpoint = "succeeded"]
     \/ /\ saver \in {"asked", "refused"} /\ saver' = "failed"
        /\ shutdown' = [shutdown EXCEPT !.checkpoint = "failed"]
  /\ UNCHANGED <<besidesSaver, raised>>

(* playback.retryCheckpoint and the tray's menu, under the tracker's lock. *)
RequestCheckpointRetry ==
  /\ "committed" \in shutdown.marks /\ shutdown.checkpoint = "failed"
  /\ shutdown' = [shutdown EXCEPT !.checkpoint = "pending", !.marks = @ \cup {"retried"}]
  /\ Raise("checkpoint_retry")
  /\ UNCHANGED <<besidesSaver, saver>>

TakeCheckpointRetry ==
  /\ Polled /\ saver = "failed" /\ "checkpoint_retry" \in raised
  /\ Lower("checkpoint_retry") /\ saver' \in {"asked", "refused"}
  /\ UNCHANGED <<besidesSaver, shutdown>>

(***************************************************************************)
(* The next-state relation and the fairness of the tasks: every task that  *)
(* has begun something is polled until it is done.  Starting a pipeline,   *)
(* a request, a fault, a removal, a Quit or a retry is up to the world.    *)
(***************************************************************************)
PipelineStep(p) ==
  \/ Claim(p) \/ Recheck(p) \/ LoadCommitted(p) \/ StoreCancelled(p) \/ Prepare(p)
  \/ (\E o \in Ops : Admit(p, o)) \/ Abandon(p) \/ MarkDirty(p) \/ FailOperation(p)
  \/ EndRun(p) \/ TakeGate(p) \/ Decide(p) \/ CommitManifest(p) \/ Publish(p)
  \/ Release(p)

Admission(m) == Count(m) \/ RecheckMutation(m) \/ CancelPipeline(m)

RemovalStep == Scan \/ \E o \in Ops : CancelDoomed(o) \/ FailDoomed(o)

TrayStep == TakeQuitRetry \/ SpawnWriter \/ AdvanceGeneration \/ HearWriter

CoreStep ==
  \/ CloseAdmission \/ BeginFence \/ FailFence \/ BeginCommit \/ GateForCommit
  \/ CommitShutdown \/ CancelPipelines \/ CancelTokens \/ DrainPipeline
  \/ DrainMutations \/ DrainCheckpoint \/ JoinSaver \/ Teardown

SaverStep == HearCheckpoint \/ TakeCheckpointRetry

Next ==
  \/ \E p \in Pipelines : Start(p) \/ Fault(p) \/ PipelineStep(p)
  \/ \E m \in Mutators : \/ TryAdmit(m) \/ Admission(m) \/ Respond(m) \/ SeePipeline(m)
                         \/ RequestQuitRetry(m) \/ \E o \in Ops : RequestCancel(m, o)
  \/ \E d \in Devices : Remove(d) \/ Reconnect(d)
  \/ RemovalStep \/ Quit \/ TrayStep \/ CoreStep \/ SaverStep \/ RequestCheckpointRetry

Spec == Init /\ [][Next]_vars

FairSpec ==
  /\ Spec
  /\ \A p \in Pipelines : WF_vars(PipelineStep(p))
  /\ \A m \in Mutators : WF_vars(Admission(m)) /\ WF_vars(Respond(m))
  /\ WF_vars(RemovalStep) /\ WF_vars(TrayStep) /\ WF_vars(CoreStep) /\ WF_vars(SaverStep)

(***************************************************************************)
(* Properties.                                                             *)
(***************************************************************************)

(* Every variable has its type, and a pipeline that serves an operation    *)
(* knows which.                                                            *)
FlagTypes == raised \in SUBSET Flags /\ mutations \in SUBSET Mutators
             /\ request \in [Mutators -> RequestAt]
OpTypes == status \in [Ops -> Statuses] /\ target \in [Ops -> Devices]
           /\ tokens \in SUBSET Ops
PipeTypes ==
  /\ gate \in Pipelines \cup {Core, Nobody}
  /\ pipeline \in [Pipelines -> PipelineAt]
  /\ job \in [Pipelines -> Ops \cup {NoOp}] /\ faults \in SUBSET Pipelines
  /\ \A p \in Pipelines : pipeline[p] \in Serving => job[p] \in Ops
DeviceTypes == connected \in SUBSET Devices /\ doomed \in SUBSET Ops
               /\ remover \in {"idle", "scan", "cancel", "update"}
QuitTypes ==
  /\ shutdown \in Trackers /\ tray \in TrayAt
  /\ commands \in Seq(CoreCommands)
  /\ core \in CoreAt /\ saver \in Savers /\ generation \in Nat
TypeOK == FlagTypes /\ OpTypes /\ PipeTypes /\ DeviceTypes /\ QuitTypes

(* "Closed before an accepted daemon Quit so no new pipeline can race      *)
(* teardown" (SyncOperationManager::admission_closed): once the drain has  *)
(* been waited for, no pipeline is at work, no admitted request is, and    *)
(* none will be; the three places were read one after the other.           *)
Drained == core \in {"drained", "teardown", "stopped"}
DrainIsFinal ==
  Drained => /\ \A p \in Pipelines : pipeline[p] \notin Working
             /\ \A m \in Mutators : request[m] \notin {"work", "seen"}
             /\ \A o \in Ops : ~Running(o)

(* commit_shutdown and finalize_operation take one gate: "whichever        *)
(* acquires this gate first owns the outcome boundary".  No operation      *)
(* becomes complete once the shutdown is committed.                        *)
OutcomeBoundary ==
  [][\A o \in Ops : status[o] # "complete" /\ status'[o] = "complete" => ~Committed]_vars

(* When commit_shutdown returns, every operation still running has its     *)
(* token set, and so has every operation admitted afterwards by a pipeline *)
(* that was already preparing.                                             *)
CancelReaches ==
  Committed /\ core \notin {"cancel", "tokens"} =>
    \A o \in Ops : Running(o) => o \in tokens

(* At most one operation runs, and the pipeline that admitted it is still  *)
(* there to finalize it: every way out of sync_execute and of automatic    *)
(* synchronisation publishes an outcome before the guard is dropped, or    *)
(* get_active_operation_id would refuse every later synchronisation.       *)
OneSync ==
  /\ \A p, q \in Pipelines : pipeline[p] \in Working /\ pipeline[q] \in Working => p = q
  /\ \A o \in Ops : Running(o) =>
       \E p \in Pipelines : job[p] = o /\ pipeline[p] \in Serving

(* An operation for a device that is gone is never left running: either    *)
(* admission saw the removal or the removal's scan saw the admission.      *)
RemovedNotRunning ==
  remover = "idle" => \A o \in Ops : Running(o) => target[o] \in connected

(* Once an advance of the launch generation is acknowledged, admission     *)
(* stays closed whatever became of other attempts, and none follows: the   *)
(* launches of the old generation are refused, so the daemon must go down. *)
FenceHolds == generation > 0 => ~Open /\ generation = 1

(* A published outcome is never rewritten by a snapshot taken before it.   *)
TerminalSticks ==
  [][\A o \in Ops : status[o] \notin {"absent", "running"} => status'[o] = status[o]]_vars

(* Together: an outcome is decided once, and on one side of the commit.    *)
OutcomesFinal == OutcomeBoundary /\ TerminalSticks

(* A committed Quit reaches the end of the process, a failed join of the   *)
(* owners, or a failed checkpoint that waits for the user's retry.         *)
TornDown == core = "loop" /\ shutdown.phase = "waiting"
QuitSettles ==
  Committed ~> (core = "stopped" \/ TornDown \/ shutdown.checkpoint = "failed")
=============================================================================
