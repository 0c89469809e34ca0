--------------------------- MODULE SyncOps_proofs ---------------------------
(***************************************************************************)
(* The safety properties of SyncOps, for any number of pipelines,          *)
(* requests, operations and devices.                                       *)
(***************************************************************************)
EXTENDS SyncOps, SequenceTheorems, TLAPS

(***************************************************************************)
(* The inductive invariant.                                                *)
(***************************************************************************)

(* pipeline_active has one owner, and who finalizes holds the gate over an *)
(* operation that is still running.                                        *)
Finalizing == {"decide", "commit", "publish", "refuse"}
OwnerInv ==
  /\ \A p \in Pipelines : pipeline[p] \in Claimed => "pipeline_active" \in raised
  /\ \A p, q \in Pipelines : pipeline[p] \in Claimed /\ pipeline[q] \in Claimed => p = q
  /\ \A o \in Ops : Running(o) =>
       \E p \in Pipelines : job[p] = o /\ pipeline[p] \in Serving

GateInv ==
  /\ \A p \in Pipelines : pipeline[p] \in Finalizing => gate = p
  /\ core \in {"commit", "cancel", "tokens"} => gate = Core

OutcomeInv ==
  /\ \A p \in Pipelines : pipeline[p] \in Finalizing \ {"decide"} => Running(job[p])
  /\ \A p \in Pipelines : pipeline[p] \in {"commit", "publish"} => ~Committed
  /\ CancelReaches

(* Where the two loops of a Quit stand, and what is in the channel between *)
(* them: generation is spent, and a commit asked for, only behind the      *)
(* fence, and no fenceFailed can follow them.                              *)
QuitInv ==
  \/ /\ tray = "idle" /\ core = "loop" /\ generation = 0
     /\ commands \in {<<>>, <<"fenceFailed">>}
  \/ /\ tray = "asked" /\ generation = 0
     /\ \/ core = "loop" /\ commands \in {<<"begin">>, <<"fenceFailed", "begin">>}
        \/ core = "fence" /\ commands = <<>> /\ ~Open
  \/ /\ tray \in {"answered", "fencing", "refused"} /\ core = "loop" /\ ~Open
     /\ generation = 0 /\ commands = <<>>
  \/ /\ tray = "persisted" /\ core = "loop" /\ ~Open
     /\ generation = 1 /\ commands = <<>>
  \/ /\ tray = "pending" /\ ~Open /\ generation = 1
     /\ \/ core = "loop" /\ commands = <<"commit">>
        \/ core # "fence" /\ commands = <<>>

(* What the drain has seen stays true behind the fence.                    *)
DrainInv ==
  /\ \A m \in Mutators : request[m] \in {"recheck", "work", "seen"} => m \in mutations
  /\ core \in {"mutations", "checkpoint", "drained", "teardown", "stopped"} =>
       \A p \in Pipelines : pipeline[p] \notin Working
  /\ core \in {"checkpoint", "drained", "teardown", "stopped"} =>
       \A m \in Mutators : request[m] \notin {"work", "seen"}

(* A running operation whose device is gone is about to be found, or is    *)
(* among those found.                                                      *)
RemovalInv ==
  \A o \in Ops : Running(o) /\ target[o] \notin connected =>
    \/ remover = "scan"
    \/ remover \in {"cancel", "update"} /\ o \in doomed

IInv == TypeOK /\ OwnerInv /\ GateInv /\ OutcomeInv /\ QuitInv /\ DrainInv /\ RemovalInv

(***************************************************************************)
(* Next by the task that takes the step, and what each leaves alone.       *)
(***************************************************************************)
PipelineActions == \E p \in Pipelines : Start(p) \/ Fault(p) \/ PipelineStep(p)
RequestActions ==
  \E m \in Mutators : \/ TryAdmit(m) \/ Admission(m) \/ Respond(m) \/ SeePipeline(m)
                      \/ RequestQuitRetry(m) \/ \E o \in Ops : RequestCancel(m, o)
DeviceActions == (\E d \in Devices : Remove(d) \/ Reconnect(d)) \/ RemovalStep
TrayActions == Quit \/ TrayStep
SaverActions == SaverStep \/ RequestCheckpointRetry

(* Every step is one of a pipeline, a request, the device task, the tray,  *)
(* the core loop or the checkpoint future.                                 *)
LEMMA NextCases == Next => \/ PipelineActions \/ RequestActions \/ DeviceActions
                           \/ TrayActions \/ CoreStep \/ SaverActions
  BY DEF Next, PipelineActions, RequestActions, DeviceActions, TrayActions, SaverActions

(* The channel holds at most two commands.                                 *)
LEMMA ChannelFacts ==
  \A c, d \in CoreCommands :
    /\ Append(<<>>, c) = <<c>> /\ Head(<<c>>) = c /\ Tail(<<c>>) = <<>> /\ <<c>> # <<>>
    /\ Append(<<c>>, d) = <<c, d>> /\ Head(<<c, d>>) = c
    /\ Tail(<<c, d>>) = <<d>> /\ <<c, d>> # <<>>
<1> TAKE c, d \in CoreCommands
<1>1. <<c>> \in Seq(CoreCommands) /\ <<c, d>> \in Seq(CoreCommands)
  OBVIOUS
<1>2. Append(<<c>>, d) = <<c, d>>
  <2>1. /\ Append(<<c>>, d) \in Seq(CoreCommands) /\ Len(Append(<<c>>, d)) = 2
        /\ Append(<<c>>, d)[1] = c /\ Append(<<c>>, d)[2] = d
    BY <1>1, AppendProperties
  <2>2. Len(Append(<<c>>, d)) = Len(<<c, d>>)
    BY <2>1
  <2>3. ASSUME NEW i \in 1 .. Len(Append(<<c>>, d))
        PROVE  Append(<<c>>, d)[i] = <<c, d>>[i]
    <3>1. i = 1 \/ i = 2
      BY <2>1
    <3> QED
      BY <2>1, <3>1
  <2> HIDE DEF CoreCommands
  <2> QED
    BY <1>1, <2>1, <2>2, <2>3, SeqEqual, ZenonT(20)
<1>3. Append(<<>>, c) = <<c>> /\ Head(<<c>>) = c /\ Tail(<<c>>) = <<>> /\ <<c>> # <<>>
  OBVIOUS
<1>4. Head(<<c, d>>) = c /\ Tail(<<c, d>>) = <<d>> /\ <<c, d>> # <<>>
  OBVIOUS
<1> QED
  BY <1>2, <1>3, <1>4

(* A pipeline touches its own state, the operations, the gate, two flags.   *)
LEMMA PipelineFrame ==
  PipelineActions =>
    /\ UNCHANGED <<mutations, target, request, connected, remover, doomed,
      shutdown, tray, commands, core, saver, generation>>
    /\ raised' \ {"pipeline_active", "pipeline_cancelled"} = raised \
      {"pipeline_active", "pipeline_cancelled"}
<1> DEFINE Kept ==
      /\ UNCHANGED <<mutations, target, request, connected, remover, doomed,
        shutdown, tray, commands, core, saver, generation>>
      /\ raised' \ {"pipeline_active", "pipeline_cancelled"} = raised \
        {"pipeline_active", "pipeline_cancelled"}
<1>1. ASSUME NEW p \in Pipelines, Start(p) PROVE Kept
  BY <1>1 DEF Start, besidesPipeline, quitVars, deviceVars
<1>2. ASSUME NEW p \in Pipelines, Fault(p) PROVE Kept
  BY <1>2 DEF Fault, besidesPipeline, quitVars, deviceVars
<1>3. ASSUME NEW p \in Pipelines, Claim(p) PROVE Kept
  BY <1>3 DEF Claim, besidesPipeline, quitVars, deviceVars, Raise
<1>4. ASSUME NEW p \in Pipelines, Recheck(p) PROVE Kept
  BY <1>4 DEF Recheck, besidesPipeline, quitVars, deviceVars, Lower
<1>5. ASSUME NEW p \in Pipelines, LoadCommitted(p) PROVE Kept
  BY <1>5 DEF LoadCommitted, besidesPipeline, quitVars, deviceVars
<1>6. ASSUME NEW p \in Pipelines, StoreCancelled(p) PROVE Kept
  BY <1>6 DEF StoreCancelled, besidesPipeline, quitVars, deviceVars, Raise,
    Lower
<1>7. ASSUME NEW p \in Pipelines, Prepare(p) PROVE Kept
  BY <1>7 DEF Prepare, besidesPipeline, quitVars, deviceVars
<1>8. ASSUME NEW p \in Pipelines, Abandon(p) PROVE Kept
  BY <1>8 DEF Abandon, besidesPipeline, quitVars, deviceVars
<1>9. ASSUME NEW p \in Pipelines, MarkDirty(p) PROVE Kept
  BY <1>9 DEF MarkDirty, besidesPipeline, quitVars, deviceVars
<1>10. ASSUME NEW p \in Pipelines, FailOperation(p) PROVE Kept
  BY <1>10 DEF FailOperation, besidesPipeline, quitVars, deviceVars
<1>11. ASSUME NEW p \in Pipelines, EndRun(p) PROVE Kept
  BY <1>11 DEF EndRun, besidesPipeline, quitVars, deviceVars
<1>12. ASSUME NEW p \in Pipelines, TakeGate(p) PROVE Kept
  BY <1>12 DEF TakeGate, besidesPipeline, quitVars, deviceVars
<1>13. ASSUME NEW p \in Pipelines, Decide(p) PROVE Kept
  BY <1>13 DEF Decide, besidesPipeline, quitVars, deviceVars
<1>14. ASSUME NEW p \in Pipelines, CommitManifest(p) PROVE Kept
  BY <1>14 DEF CommitManifest, besidesPipeline, quitVars, deviceVars
<1>15. ASSUME NEW p \in Pipelines, Publish(p) PROVE Kept
  BY <1>15 DEF Publish, besidesPipeline, quitVars, deviceVars
<1>16. ASSUME NEW p \in Pipelines, Release(p) PROVE Kept
  BY <1>16 DEF Release, besidesPipeline, quitVars, deviceVars, Lower
<1>17. ASSUME NEW p \in Pipelines, NEW o \in Ops, Admit(p, o) PROVE Kept
  BY <1>17 DEF Admit, besidesPipeline, quitVars, deviceVars
<1> QED
  BY <1>1, <1>2, <1>3, <1>4, <1>5, <1>6, <1>7, <1>8, <1>9, <1>10, <1>11,
    <1>12, <1>13, <1>14, <1>15, <1>16, <1>17 DEF PipelineActions, PipelineStep

(* A request touches its counter, tokens and two flags.                     *)
LEMMA RequestFrame ==
  RequestActions =>
    /\ UNCHANGED <<status, target, gate, pipeline, job, faults, connected,
      remover, doomed, shutdown, tray, commands, core, saver, generation>>
    /\ raised' \ {"pipeline_cancelled", "quit_retry"} = raised \
      {"pipeline_cancelled", "quit_retry"}
  BY DEF RequestActions, Admission, TryAdmit, besidesRequest, pipeVars,
    deviceVars, quitVars, flagVars, Count, RecheckMutation, CancelPipeline,
    Raise, Respond, SeePipeline, RequestQuitRetry, RequestCancel

(* The device task touches devices, outcomes and tokens.                    *)
LEMMA DeviceFrame ==
  DeviceActions =>
    /\ UNCHANGED <<raised, mutations, target, gate, pipeline, job, faults,
      request, shutdown, tray, commands, core, saver, generation>>
  BY DEF DeviceActions, RemovalStep, Remove, besidesDevices, flagVars,
    pipeVars, quitVars, Reconnect, Scan, CancelDoomed, FailDoomed

(* The event loop touches its end of the channel and two flags.             *)
LEMMA TrayFrame ==
  TrayActions =>
    /\ UNCHANGED <<mutations, status, target, tokens, gate, pipeline, job,
      faults, request, connected, remover, doomed, shutdown, core, saver>>
    /\ raised' \ {"quit_retry", "stopping"} = raised \ {"quit_retry",
      "stopping"}
  BY DEF TrayActions, TrayStep, Quit, besidesTray, besidesQuit, pipeVars,
    deviceVars, TakeQuitRetry, Lower, SpawnWriter, Raise, AdvanceGeneration,
    HearWriter

(* The core loop touches the gate, the tokens, the tracker, three flags.    *)
LEMMA CoreFrame ==
  CoreStep =>
    /\ UNCHANGED <<mutations, status, target, pipeline, job, faults, request,
      connected, remover, doomed, generation>>
    /\ raised' \ {"admission_closed", "shutdown_committed",
      "pipeline_cancelled"} = raised \ {"admission_closed",
      "shutdown_committed", "pipeline_cancelled"}
<1> DEFINE Kept ==
      /\ UNCHANGED <<mutations, status, target, pipeline, job, faults, request,
        connected, remover, doomed, generation>>
      /\ raised' \ {"admission_closed", "shutdown_committed",
        "pipeline_cancelled"} = raised \ {"admission_closed",
        "shutdown_committed", "pipeline_cancelled"}
<1>1. ASSUME CloseAdmission PROVE Kept
  BY <1>1 DEF CloseAdmission, besidesCore, besidesQuit, pipeVars, deviceVars,
    Raise
<1>2. ASSUME BeginFence PROVE Kept
  BY <1>2 DEF BeginFence, besidesCore, besidesQuit, pipeVars, deviceVars
<1>3. ASSUME FailFence PROVE Kept
  BY <1>3 DEF FailFence, besidesCore, besidesQuit, pipeVars, deviceVars, Lower
<1>4. ASSUME BeginCommit PROVE Kept
  BY <1>4 DEF BeginCommit, besidesCore, besidesQuit, pipeVars, deviceVars
<1>5. ASSUME GateForCommit PROVE Kept
  BY <1>5 DEF GateForCommit, besidesCore, besidesQuit, pipeVars, deviceVars
<1>6. ASSUME CommitShutdown PROVE Kept
  BY <1>6 DEF CommitShutdown, besidesCore, besidesQuit, pipeVars, deviceVars,
    Raise
<1>7. ASSUME CancelPipelines PROVE Kept
  BY <1>7 DEF CancelPipelines, besidesCore, besidesQuit, pipeVars, deviceVars,
    Raise
<1>8. ASSUME CancelTokens PROVE Kept
  BY <1>8 DEF CancelTokens, besidesCore, besidesQuit, pipeVars, deviceVars
<1>9. ASSUME DrainPipeline PROVE Kept
  BY <1>9 DEF DrainPipeline, besidesCore, besidesQuit, pipeVars, deviceVars
<1>10. ASSUME DrainMutations PROVE Kept
  BY <1>10 DEF DrainMutations, besidesCore, besidesQuit, pipeVars, deviceVars
<1>11. ASSUME DrainCheckpoint PROVE Kept
  BY <1>11 DEF DrainCheckpoint, besidesCore, besidesQuit, pipeVars, deviceVars
<1>12. ASSUME JoinSaver PROVE Kept
  BY <1>12 DEF JoinSaver, besidesCore, besidesQuit, pipeVars, deviceVars
<1>13. ASSUME Teardown PROVE Kept
  BY <1>13 DEF Teardown, besidesCore, besidesQuit, pipeVars, deviceVars
<1> QED
  BY <1>1, <1>2, <1>3, <1>4, <1>5, <1>6, <1>7, <1>8, <1>9, <1>10, <1>11,
    <1>12, <1>13 DEF CoreStep

(* The checkpoint future touches the tracker and one flag.                  *)
LEMMA SaverFrame ==
  SaverActions =>
    /\ UNCHANGED <<mutations, status, target, tokens, gate, pipeline, job,
      faults, request, connected, remover, doomed, tray, commands, core,
      generation>>
    /\ raised' \ {"checkpoint_retry"} = raised \ {"checkpoint_retry"}
  BY DEF SaverActions, SaverStep, HearCheckpoint, besidesSaver, besidesQuit,
    pipeVars, deviceVars, TakeCheckpointRetry, Lower, RequestCheckpointRetry,
    Raise

(* The flags and the counter keep their types.                              *)
LEMMA FlagTypesNext == TypeOK /\ Next => FlagTypes'
<1> SUFFICES ASSUME TypeOK, Next PROVE FlagTypes'
    OBVIOUS
<1> USE DEF TypeOK
<1>1. CASE PipelineActions
  <2>1. ASSUME NEW p \in Pipelines, Claim(p) PROVE FlagTypes'
    BY <2>1 DEF Claim, besidesPipeline, Go, quitVars, deviceVars, Raise,
      FlagTypes, Flags, RequestAt
  <2>2. ASSUME NEW p \in Pipelines, Recheck(p) PROVE FlagTypes'
    BY <2>2 DEF Recheck, besidesPipeline, Go, quitVars, deviceVars, Lower,
      Open, FlagTypes, Flags, RequestAt
  <2>3. ASSUME NEW p \in Pipelines, StoreCancelled(p) PROVE FlagTypes'
    BY <2>3 DEF StoreCancelled, besidesPipeline, Go, quitVars, deviceVars,
      Raise, Lower, FlagTypes, Flags, RequestAt
  <2>4. ASSUME NEW p \in Pipelines, Release(p) PROVE FlagTypes'
    BY <2>4 DEF Release, besidesPipeline, Go, quitVars, deviceVars, Lower,
      FlagTypes, Flags, RequestAt
  <2>5. ASSUME NEW p \in Pipelines,
              Start(p) \/ Fault(p) \/ LoadCommitted(p) \/ Prepare(p) \/
                Abandon(p) \/ MarkDirty(p) \/ FailOperation(p) \/ EndRun(p) \/
                TakeGate(p) \/ Decide(p) \/ CommitManifest(p) \/ Publish(p)
         PROVE  FlagTypes'
    BY <2>5 DEF Start, besidesPipeline, quitVars, deviceVars, Fault,
      LoadCommitted, Prepare, Abandon, MarkDirty, FailOperation, EndRun,
      TakeGate, Decide, CommitManifest, Publish, FlagTypes, Flags, RequestAt
  <2>6. ASSUME NEW p \in Pipelines, NEW o \in Ops, Admit(p, o) PROVE FlagTypes'
    BY <2>6 DEF Admit, besidesPipeline, quitVars, deviceVars, FlagTypes,
      Flags, RequestAt
  <2> QED
    BY <1>1, <2>1, <2>2, <2>3, <2>4, <2>5, <2>6 DEF PipelineActions,
      PipelineStep
<1>2. CASE RequestActions
  <2>1. ASSUME NEW m \in Mutators, TryAdmit(m) PROVE FlagTypes'
    BY <2>1 DEF TryAdmit, besidesRequest, At, pipeVars, deviceVars, quitVars,
      flagVars, Open, Committed, FlagTypes, Flags, RequestAt
  <2>2. ASSUME NEW m \in Mutators, Count(m) PROVE FlagTypes'
    BY <2>2 DEF Count, besidesRequest, At, pipeVars, deviceVars, quitVars,
      flagVars, FlagTypes, Flags, RequestAt
  <2>3. ASSUME NEW m \in Mutators, RecheckMutation(m) PROVE FlagTypes'
    BY <2>3 DEF RecheckMutation, besidesRequest, At, pipeVars, deviceVars,
      quitVars, flagVars, Open, FlagTypes, Flags, RequestAt
  <2>4. ASSUME NEW m \in Mutators, CancelPipeline(m) PROVE FlagTypes'
    BY <2>4 DEF CancelPipeline, besidesRequest, At, pipeVars, deviceVars,
      quitVars, flagVars, Raise, FlagTypes, Flags, RequestAt
  <2>5. ASSUME NEW m \in Mutators, Respond(m) PROVE FlagTypes'
    BY <2>5 DEF Respond, besidesRequest, At, pipeVars, deviceVars, quitVars,
      flagVars, FlagTypes, Flags, RequestAt
  <2>6. ASSUME NEW m \in Mutators, SeePipeline(m) PROVE FlagTypes'
    BY <2>6 DEF SeePipeline, besidesRequest, At, pipeVars, deviceVars,
      quitVars, flagVars, FlagTypes, Flags, RequestAt
  <2>7. ASSUME NEW m \in Mutators, RequestQuitRetry(m) PROVE FlagTypes'
    BY <2>7 DEF RequestQuitRetry, besidesRequest, At, pipeVars, deviceVars,
      quitVars, flagVars, Raise, FlagTypes, Flags, RequestAt
  <2>8. ASSUME NEW m \in Mutators, NEW o \in Ops, RequestCancel(m, o) PROVE FlagTypes'
    BY <2>8 DEF RequestCancel, besidesRequest, pipeVars, deviceVars, quitVars,
      flagVars, FlagTypes, Flags, RequestAt
  <2> QED
    BY <1>2, <2>1, <2>2, <2>3, <2>4, <2>5, <2>6, <2>7, <2>8 DEF
      RequestActions, Admission
<1>3. CASE DeviceActions
  BY <1>3, DeviceFrame DEF FlagTypes, Flags, RequestAt
<1>4. CASE TrayActions
  <2>1. CASE TakeQuitRetry
    BY <2>1 DEF TakeQuitRetry, besidesTray, besidesQuit, pipeVars, deviceVars,
      Lower, Send, FlagTypes, Flags, RequestAt
  <2>2. CASE SpawnWriter
    BY <2>2 DEF SpawnWriter, besidesTray, besidesQuit, pipeVars, deviceVars,
      Raise, NoRetry, FlagTypes, Flags, RequestAt
  <2>3. CASE HearWriter
    BY <2>3 DEF HearWriter, besidesTray, besidesQuit, pipeVars, deviceVars,
      Lower, Send, NoRetry, FlagTypes, Flags, RequestAt
  <2>4. CASE Quit \/ AdvanceGeneration
    BY <2>4 DEF Quit, besidesTray, besidesQuit, pipeVars, deviceVars,
      AdvanceGeneration, FlagTypes, Flags, RequestAt
  <2> QED
    BY <1>4, <2>1, <2>2, <2>3, <2>4 DEF TrayActions, TrayStep
<1>5. CASE CoreStep
  <2>1. CASE CloseAdmission
    BY <2>1 DEF CloseAdmission, besidesCore, besidesQuit, pipeVars,
      deviceVars, Raise, Received, FlagTypes, Flags, RequestAt
  <2>2. CASE FailFence
    BY <2>2 DEF FailFence, besidesCore, besidesQuit, pipeVars, deviceVars,
      Lower, Received, FlagTypes, Flags, RequestAt
  <2>3. CASE CommitShutdown
    BY <2>3 DEF CommitShutdown, besidesCore, besidesQuit, pipeVars,
      deviceVars, Raise, Step, FlagTypes, Flags, RequestAt
  <2>4. CASE CancelPipelines
    BY <2>4 DEF CancelPipelines, besidesCore, besidesQuit, pipeVars,
      deviceVars, Raise, Step, FlagTypes, Flags, RequestAt
  <2>5. CASE BeginFence \/ BeginCommit \/ GateForCommit \/ CancelTokens \/
    DrainPipeline \/ DrainMutations \/ DrainCheckpoint \/ JoinSaver \/
    Teardown
    BY <2>5 DEF BeginFence, besidesCore, besidesQuit, pipeVars, deviceVars,
      BeginCommit, GateForCommit, CancelTokens, DrainPipeline, DrainMutations,
      DrainCheckpoint, JoinSaver, Teardown, FlagTypes, Flags, RequestAt
  <2> QED
    BY <1>5, <2>1, <2>2, <2>3, <2>4, <2>5 DEF CoreStep
<1>6. CASE SaverActions
  <2>1. CASE TakeCheckpointRetry
    BY <2>1 DEF TakeCheckpointRetry, besidesSaver, besidesQuit, pipeVars,
      deviceVars, Lower, Polled, FlagTypes, Flags, RequestAt
  <2>2. CASE RequestCheckpointRetry
    BY <2>2 DEF RequestCheckpointRetry, besidesSaver, besidesQuit, pipeVars,
      deviceVars, Raise, FlagTypes, Flags, RequestAt
  <2>3. CASE HearCheckpoint
    BY <2>3 DEF HearCheckpoint, besidesSaver, besidesQuit, pipeVars,
      deviceVars, FlagTypes, Flags, RequestAt
  <2> QED
    BY <1>6, <2>1, <2>2, <2>3 DEF SaverActions, SaverStep
<1> QED
  BY <1>1, <1>2, <1>3, <1>4, <1>5, <1>6, NextCases

(* Operations keep their types: who finishes one has its identity in job.   *)
LEMMA OpTypesNext == TypeOK /\ Next => OpTypes'
<1> SUFFICES ASSUME TypeOK, Next PROVE OpTypes'
    OBVIOUS
<1> USE DEF TypeOK
<1>1. CASE PipelineActions
  <2>1. ASSUME NEW p \in Pipelines, Fault(p) PROVE OpTypes'
    BY <2>1 DEF Fault, besidesPipeline, Go, quitVars, deviceVars, OpTypes,
      Statuses, PipeTypes, Claimed, Working, Serving
  <2>2. ASSUME NEW p \in Pipelines, FailOperation(p) PROVE OpTypes'
    BY <2>2 DEF FailOperation, besidesPipeline, Go, quitVars, deviceVars,
      Finish, Running, OpTypes, Statuses, PipeTypes, Claimed, Working, Serving
  <2>3. ASSUME NEW p \in Pipelines, Decide(p) PROVE OpTypes'
    BY <2>3 DEF Decide, besidesPipeline, Go, quitVars, deviceVars, Finish,
      Running, OpTypes, Statuses, PipeTypes, Claimed, Working, Serving
  <2>4. ASSUME NEW p \in Pipelines, Publish(p) PROVE OpTypes'
    BY <2>4 DEF Publish, besidesPipeline, Go, quitVars, deviceVars, Finish,
      OpTypes, Statuses, PipeTypes, Claimed, Working, Serving
  <2>5. ASSUME NEW p \in Pipelines, NEW o \in Ops, Admit(p, o) PROVE OpTypes'
    BY <2>5 DEF Admit, besidesPipeline, Go, quitVars, deviceVars, Finish,
      Committed, OpTypes, Statuses, PipeTypes, Claimed, Working, Serving
  <2>6. ASSUME NEW p \in Pipelines,
              Start(p) \/ Claim(p) \/ Recheck(p) \/ LoadCommitted(p) \/
                StoreCancelled(p) \/ Prepare(p) \/ Abandon(p) \/ MarkDirty(p)
                \/ EndRun(p) \/ TakeGate(p) \/ CommitManifest(p) \/ Release(p)
         PROVE  OpTypes'
    BY <2>6 DEF Start, besidesPipeline, quitVars, deviceVars, Claim, Raise,
      Recheck, Lower, LoadCommitted, StoreCancelled, Prepare, Abandon,
      MarkDirty, EndRun, TakeGate, CommitManifest, Release, OpTypes, Statuses,
      PipeTypes, Claimed, Working, Serving
  <2> QED
    BY <1>1, <2>1, <2>2, <2>3, <2>4, <2>5, <2>6 DEF PipelineActions,
      PipelineStep
<1>2. CASE RequestActions
  <2>1. ASSUME NEW m \in Mutators, NEW o \in Ops, RequestCancel(m, o) PROVE OpTypes'
    BY <2>1 DEF RequestCancel, besidesRequest, At, pipeVars, deviceVars,
      quitVars, flagVars, OpTypes, Statuses, PipeTypes, Claimed, Working,
      Serving
  <2>2. ASSUME NEW m \in Mutators,
              TryAdmit(m) \/ Count(m) \/ RecheckMutation(m) \/
                CancelPipeline(m) \/ Respond(m) \/ SeePipeline(m) \/
                RequestQuitRetry(m)
         PROVE  OpTypes'
    BY <2>2 DEF TryAdmit, besidesRequest, pipeVars, deviceVars, quitVars,
      flagVars, Count, RecheckMutation, CancelPipeline, Raise, Respond,
      SeePipeline, RequestQuitRetry, OpTypes, Statuses, PipeTypes, Claimed,
      Working, Serving
  <2> QED
    BY <1>2, <2>1, <2>2 DEF RequestActions, Admission
<1>3. CASE DeviceActions
  <2>1. ASSUME NEW o \in Ops, CancelDoomed(o) PROVE OpTypes'
    BY <2>1 DEF CancelDoomed, besidesDevices, flagVars, pipeVars, quitVars,
      OpTypes, Statuses, PipeTypes, Claimed, Working, Serving
  <2>2. ASSUME NEW o \in Ops, FailDoomed(o) PROVE OpTypes'
    BY <2>2 DEF FailDoomed, besidesDevices, flagVars, pipeVars, quitVars,
      Finish, Running, OpTypes, Statuses, PipeTypes, Claimed, Working, Serving
  <2>3. CASE Scan
    BY <2>3 DEF Scan, besidesDevices, flagVars, pipeVars, quitVars, OpTypes,
      Statuses, PipeTypes, Claimed, Working, Serving
  <2>4. ASSUME NEW d \in Devices,
              Remove(d) \/ Reconnect(d)
         PROVE  OpTypes'
    BY <2>4 DEF Remove, besidesDevices, flagVars, pipeVars, quitVars,
      Reconnect, OpTypes, Statuses, PipeTypes, Claimed, Working, Serving
  <2> QED
    BY <1>3, <2>1, <2>2, <2>3, <2>4 DEF DeviceActions, RemovalStep
<1>4. CASE TrayActions
  BY <1>4, TrayFrame DEF OpTypes, Statuses, PipeTypes, Claimed, Working,
    Serving
<1>5. CASE CoreStep
  <2>1. CASE CancelTokens
    BY <2>1 DEF CancelTokens, besidesCore, besidesQuit, pipeVars, deviceVars,
      Step, OpTypes, Statuses, PipeTypes, Claimed, Working, Serving
  <2>2. CASE CloseAdmission \/ BeginFence \/ FailFence \/ BeginCommit \/
    GateForCommit \/ CommitShutdown \/ CancelPipelines \/ DrainPipeline \/
    DrainMutations \/ DrainCheckpoint \/ JoinSaver \/ Teardown
    BY <2>2 DEF CloseAdmission, besidesCore, besidesQuit, pipeVars,
      deviceVars, Raise, BeginFence, FailFence, Lower, BeginCommit,
      GateForCommit, CommitShutdown, CancelPipelines, DrainPipeline,
      DrainMutations, DrainCheckpoint, JoinSaver, Teardown, OpTypes, Statuses,
      PipeTypes, Claimed, Working, Serving
  <2> QED
    BY <1>5, <2>1, <2>2 DEF CoreStep
<1>6. CASE SaverActions
  BY <1>6, SaverFrame DEF OpTypes, Statuses, PipeTypes, Claimed, Working,
    Serving
<1> QED
  BY <1>1, <1>2, <1>3, <1>4, <1>5, <1>6, NextCases

(* Pipelines keep their types, and a serving one keeps its operation.       *)
LEMMA PipeTypesNext == TypeOK /\ Next => PipeTypes'
<1> SUFFICES ASSUME TypeOK, Next PROVE PipeTypes'
    OBVIOUS
<1> USE DEF TypeOK
<1>1. CASE PipelineActions
  <2>1. ASSUME NEW p \in Pipelines, Start(p) PROVE PipeTypes'
    BY <2>1 DEF Start, besidesPipeline, Go, quitVars, deviceVars, Open,
      PipeTypes, PipelineAt, Claimed, Working, Serving
  <2>2. ASSUME NEW p \in Pipelines, Fault(p) PROVE PipeTypes'
    BY <2>2 DEF Fault, besidesPipeline, Go, quitVars, deviceVars, PipeTypes,
      PipelineAt, Claimed, Working, Serving
  <2>3. ASSUME NEW p \in Pipelines, Claim(p) PROVE PipeTypes'
    BY <2>3 DEF Claim, besidesPipeline, Go, quitVars, deviceVars, Raise,
      PipeTypes, PipelineAt, Claimed, Working, Serving
  <2>4. ASSUME NEW p \in Pipelines, Recheck(p) PROVE PipeTypes'
    BY <2>4 DEF Recheck, besidesPipeline, Go, quitVars, deviceVars, Lower,
      Open, PipeTypes, PipelineAt, Claimed, Working, Serving
  <2>5. ASSUME NEW p \in Pipelines, LoadCommitted(p) PROVE PipeTypes'
    BY <2>5 DEF LoadCommitted, besidesPipeline, Go, quitVars, deviceVars,
      Committed, PipeTypes, PipelineAt, Claimed, Working, Serving
  <2>6. ASSUME NEW p \in Pipelines, StoreCancelled(p) PROVE PipeTypes'
    BY <2>6 DEF StoreCancelled, besidesPipeline, Go, quitVars, deviceVars,
      Raise, Lower, PipeTypes, PipelineAt, Claimed, Working, Serving
  <2>7. ASSUME NEW p \in Pipelines, Prepare(p) PROVE PipeTypes'
    BY <2>7 DEF Prepare, besidesPipeline, Go, quitVars, deviceVars, Running,
      PipeTypes, PipelineAt, Claimed, Working, Serving
  <2>8. ASSUME NEW p \in Pipelines, Abandon(p) PROVE PipeTypes'
    BY <2>8 DEF Abandon, besidesPipeline, Go, quitVars, deviceVars, PipeTypes,
      PipelineAt, Claimed, Working, Serving
  <2>9. ASSUME NEW p \in Pipelines, MarkDirty(p) PROVE PipeTypes'
    BY <2>9 DEF MarkDirty, besidesPipeline, Go, quitVars, deviceVars,
      PipeTypes, PipelineAt, Claimed, Working, Serving
  <2>10. ASSUME NEW p \in Pipelines, FailOperation(p) PROVE PipeTypes'
    BY <2>10 DEF FailOperation, besidesPipeline, Go, quitVars, deviceVars,
      Finish, Running, PipeTypes, PipelineAt, Claimed, Working, Serving
  <2>11. ASSUME NEW p \in Pipelines, EndRun(p) PROVE PipeTypes'
    BY <2>11 DEF EndRun, besidesPipeline, Go, quitVars, deviceVars, PipeTypes,
      PipelineAt, Claimed, Working, Serving
  <2>12. ASSUME NEW p \in Pipelines, TakeGate(p) PROVE PipeTypes'
    BY <2>12 DEF TakeGate, besidesPipeline, Go, quitVars, deviceVars,
      PipeTypes, PipelineAt, Claimed, Working, Serving
  <2>13. ASSUME NEW p \in Pipelines, Decide(p) PROVE PipeTypes'
    BY <2>13 DEF Decide, besidesPipeline, Go, quitVars, deviceVars, Finish,
      Running, PipeTypes, PipelineAt, Claimed, Working, Serving
  <2>14. ASSUME NEW p \in Pipelines, CommitManifest(p) PROVE PipeTypes'
    BY <2>14 DEF CommitManifest, besidesPipeline, Go, quitVars, deviceVars,
      PipeTypes, PipelineAt, Claimed, Working, Serving
  <2>15. ASSUME NEW p \in Pipelines, Publish(p) PROVE PipeTypes'
    BY <2>15 DEF Publish, besidesPipeline, Go, quitVars, deviceVars, Finish,
      PipeTypes, PipelineAt, Claimed, Working, Serving
  <2>16. ASSUME NEW p \in Pipelines, Release(p) PROVE PipeTypes'
    BY <2>16 DEF Release, besidesPipeline, Go, quitVars, deviceVars, Lower,
      PipeTypes, PipelineAt, Claimed, Working, Serving
  <2>17. ASSUME NEW p \in Pipelines, NEW o \in Ops, Admit(p, o) PROVE PipeTypes'
    BY <2>17 DEF Admit, besidesPipeline, Go, quitVars, deviceVars, Finish,
      Committed, PipeTypes, PipelineAt, Claimed, Working, Serving
  <2> QED
    BY <1>1, <2>1, <2>2, <2>3, <2>4, <2>5, <2>6, <2>7, <2>8, <2>9, <2>10,
      <2>11, <2>12, <2>13, <2>14, <2>15, <2>16, <2>17 DEF PipelineActions,
      PipelineStep
<1>2. CASE RequestActions
  BY <1>2, RequestFrame DEF PipeTypes, PipelineAt, Claimed, Working, Serving
<1>3. CASE DeviceActions
  BY <1>3, DeviceFrame DEF PipeTypes, PipelineAt, Claimed, Working, Serving
<1>4. CASE TrayActions
  BY <1>4, TrayFrame DEF PipeTypes, PipelineAt, Claimed, Working, Serving
<1>5. CASE CoreStep
  <2>1. CASE GateForCommit
    BY <2>1 DEF GateForCommit, besidesCore, besidesQuit, pipeVars, deviceVars,
      Step, PipeTypes, PipelineAt, Claimed, Working, Serving
  <2>2. CASE CancelTokens
    BY <2>2 DEF CancelTokens, besidesCore, besidesQuit, pipeVars, deviceVars,
      Step, PipeTypes, PipelineAt, Claimed, Working, Serving
  <2>3. CASE CloseAdmission \/ BeginFence \/ FailFence \/ BeginCommit \/
    CommitShutdown \/ CancelPipelines \/ DrainPipeline \/ DrainMutations \/
    DrainCheckpoint \/ JoinSaver \/ Teardown
    BY <2>3 DEF CloseAdmission, besidesCore, besidesQuit, pipeVars,
      deviceVars, Raise, BeginFence, FailFence, Lower, BeginCommit,
      CommitShutdown, CancelPipelines, DrainPipeline, DrainMutations,
      DrainCheckpoint, JoinSaver, Teardown, PipeTypes, PipelineAt, Claimed,
      Working, Serving
  <2> QED
    BY <1>5, <2>1, <2>2, <2>3 DEF CoreStep
<1>6. CASE SaverActions
  BY <1>6, SaverFrame DEF PipeTypes, PipelineAt, Claimed, Working, Serving
<1> QED
  BY <1>1, <1>2, <1>3, <1>4, <1>5, <1>6, NextCases

(* The device task keeps its types.                                         *)
LEMMA DeviceTypesNext == TypeOK /\ Next => DeviceTypes'
<1> SUFFICES ASSUME TypeOK, Next PROVE DeviceTypes'
    OBVIOUS
<1> USE DEF TypeOK
<1>1. CASE PipelineActions
  BY <1>1, PipelineFrame DEF DeviceTypes
<1>2. CASE RequestActions
  BY <1>2, RequestFrame DEF DeviceTypes
<1>3. CASE DeviceActions
  <2>1. ASSUME NEW d \in Devices, Remove(d) PROVE DeviceTypes'
    BY <2>1 DEF Remove, besidesDevices, flagVars, pipeVars, quitVars,
      DeviceTypes
  <2>2. ASSUME NEW d \in Devices, Reconnect(d) PROVE DeviceTypes'
    BY <2>2 DEF Reconnect, besidesDevices, flagVars, pipeVars, quitVars,
      DeviceTypes
  <2>3. CASE Scan
    BY <2>3 DEF Scan, besidesDevices, flagVars, pipeVars, quitVars, Running,
      DeviceTypes
  <2>4. ASSUME NEW o \in Ops, CancelDoomed(o) PROVE DeviceTypes'
    BY <2>4 DEF CancelDoomed, besidesDevices, flagVars, pipeVars, quitVars,
      DeviceTypes
  <2>5. ASSUME NEW o \in Ops, FailDoomed(o) PROVE DeviceTypes'
    BY <2>5 DEF FailDoomed, besidesDevices, flagVars, pipeVars, quitVars,
      Finish, Running, DeviceTypes
  <2> QED
    BY <1>3, <2>1, <2>2, <2>3, <2>4, <2>5 DEF DeviceActions, RemovalStep
<1>4. CASE TrayActions
  BY <1>4, TrayFrame DEF DeviceTypes
<1>5. CASE CoreStep
  BY <1>5, CoreFrame DEF DeviceTypes
<1>6. CASE SaverActions
  BY <1>6, SaverFrame DEF DeviceTypes
<1> QED
  BY <1>1, <1>2, <1>3, <1>4, <1>5, <1>6, NextCases

(* The tracker, the two loops and their channel keep their types.           *)
LEMMA QuitTypesNext == TypeOK /\ Next => QuitTypes'
<1> SUFFICES ASSUME TypeOK, Next PROVE QuitTypes'
    OBVIOUS
<1> USE DEF TypeOK
<1>1. CASE PipelineActions
  BY <1>1, PipelineFrame DEF QuitTypes, Trackers, Phases, Checkpoints, TrayAt,
    CoreAt, Savers, CoreCommands
<1>2. CASE RequestActions
  BY <1>2, RequestFrame DEF QuitTypes, Trackers, Phases, Checkpoints, TrayAt,
    CoreAt, Savers, CoreCommands
<1>3. CASE DeviceActions
  BY <1>3, DeviceFrame DEF QuitTypes, Trackers, Phases, Checkpoints, TrayAt,
    CoreAt, Savers, CoreCommands
<1>4. CASE TrayActions
  <2>1. CASE Quit
    BY <2>1 DEF Quit, besidesTray, besidesQuit, pipeVars, deviceVars, Send,
      NoRetry, QuitTypes, Trackers, Phases, Checkpoints, TrayAt, CoreAt,
      Savers, CoreCommands
  <2>2. CASE TakeQuitRetry
    BY <2>2 DEF TakeQuitRetry, besidesTray, besidesQuit, pipeVars, deviceVars,
      Lower, Send, QuitTypes, Trackers, Phases, Checkpoints, TrayAt, CoreAt,
      Savers, CoreCommands
  <2>3. CASE SpawnWriter
    BY <2>3 DEF SpawnWriter, besidesTray, besidesQuit, pipeVars, deviceVars,
      Raise, NoRetry, QuitTypes, Trackers, Phases, Checkpoints, TrayAt,
      CoreAt, Savers, CoreCommands
  <2>4. CASE AdvanceGeneration
    BY <2>4 DEF AdvanceGeneration, besidesTray, besidesQuit, pipeVars,
      deviceVars, QuitTypes, Trackers, Phases, Checkpoints, TrayAt, CoreAt,
      Savers, CoreCommands
  <2>5. CASE HearWriter
    BY <2>5 DEF HearWriter, besidesTray, besidesQuit, pipeVars, deviceVars,
      Lower, Send, NoRetry, QuitTypes, Trackers, Phases, Checkpoints, TrayAt,
      CoreAt, Savers, CoreCommands
  <2> QED
    BY <1>4, <2>1, <2>2, <2>3, <2>4, <2>5 DEF TrayActions, TrayStep
<1>5. CASE CoreStep
  <2>1. CASE CloseAdmission
    BY <2>1 DEF CloseAdmission, besidesCore, besidesQuit, pipeVars,
      deviceVars, Raise, Received, QuitTypes, Trackers, Phases, Checkpoints,
      TrayAt, CoreAt, Savers, CoreCommands
  <2>2. CASE BeginFence
    BY <2>2 DEF BeginFence, besidesCore, besidesQuit, pipeVars, deviceVars,
      Step, QuitTypes, Trackers, Phases, Checkpoints, TrayAt, CoreAt, Savers,
      CoreCommands
  <2>3. CASE FailFence
    <3>1. commands' \in Seq(CoreCommands)
      BY <2>3 DEF FailFence, Received, QuitTypes
    <3>2. UNCHANGED <<tray, core, saver, generation>>
      BY <2>3 DEF FailFence, besidesCore
    <3>3. shutdown' \in Trackers
      BY <2>3 DEF FailFence, QuitTypes, Trackers, Phases
    <3> QED
      BY <3>1, <3>2, <3>3 DEF QuitTypes
  <2>4. CASE BeginCommit
    BY <2>4 DEF BeginCommit, besidesCore, besidesQuit, pipeVars, deviceVars,
      Received, QuitTypes, Trackers, Phases, Checkpoints, TrayAt, CoreAt,
      Savers, CoreCommands
  <2>5. CASE GateForCommit
    BY <2>5 DEF GateForCommit, besidesCore, besidesQuit, pipeVars, deviceVars,
      Step, QuitTypes, Trackers, Phases, Checkpoints, TrayAt, CoreAt, Savers,
      CoreCommands
  <2>6. CASE CommitShutdown
    BY <2>6 DEF CommitShutdown, besidesCore, besidesQuit, pipeVars,
      deviceVars, Raise, Step, QuitTypes, Trackers, Phases, Checkpoints,
      TrayAt, CoreAt, Savers, CoreCommands
  <2>7. CASE CancelPipelines
    BY <2>7 DEF CancelPipelines, besidesCore, besidesQuit, pipeVars,
      deviceVars, Raise, Step, QuitTypes, Trackers, Phases, Checkpoints,
      TrayAt, CoreAt, Savers, CoreCommands
  <2>8. CASE CancelTokens
    BY <2>8 DEF CancelTokens, besidesCore, besidesQuit, pipeVars, deviceVars,
      Step, QuitTypes, Trackers, Phases, Checkpoints, TrayAt, CoreAt, Savers,
      CoreCommands
  <2>9. CASE DrainPipeline
    BY <2>9 DEF DrainPipeline, besidesCore, besidesQuit, pipeVars, deviceVars,
      Miss, QuitTypes, Trackers, Phases, Checkpoints, TrayAt, CoreAt, Savers,
      CoreCommands
  <2>10. CASE DrainMutations
    BY <2>10 DEF DrainMutations, besidesCore, besidesQuit, pipeVars,
      deviceVars, Miss, QuitTypes, Trackers, Phases, Checkpoints, TrayAt,
      CoreAt, Savers, CoreCommands
  <2>11. CASE DrainCheckpoint
    BY <2>11 DEF DrainCheckpoint, besidesCore, besidesQuit, pipeVars,
      deviceVars, Miss, QuitTypes, Trackers, Phases, Checkpoints, TrayAt,
      CoreAt, Savers, CoreCommands
  <2>12. CASE JoinSaver
    BY <2>12 DEF JoinSaver, besidesCore, besidesQuit, pipeVars, deviceVars,
      Step, QuitTypes, Trackers, Phases, Checkpoints, TrayAt, CoreAt, Savers,
      CoreCommands
  <2>13. CASE Teardown
    BY <2>13 DEF Teardown, besidesCore, besidesQuit, pipeVars, deviceVars,
      Step, QuitTypes, Trackers, Phases, Checkpoints, TrayAt, CoreAt, Savers,
      CoreCommands
  <2> QED
    BY <1>5, <2>1, <2>2, <2>3, <2>4, <2>5, <2>6, <2>7, <2>8, <2>9, <2>10,
      <2>11, <2>12, <2>13 DEF CoreStep
<1>6. CASE SaverActions
  <2>1. CASE HearCheckpoint
    BY <2>1 DEF HearCheckpoint, besidesSaver, besidesQuit, pipeVars,
      deviceVars, Polled, QuitTypes, Trackers, Phases, Checkpoints, TrayAt,
      CoreAt, Savers, CoreCommands
  <2>2. CASE TakeCheckpointRetry
    BY <2>2 DEF TakeCheckpointRetry, besidesSaver, besidesQuit, pipeVars,
      deviceVars, Lower, Polled, QuitTypes, Trackers, Phases, Checkpoints,
      TrayAt, CoreAt, Savers, CoreCommands
  <2>3. CASE RequestCheckpointRetry
    BY <2>3 DEF RequestCheckpointRetry, besidesSaver, besidesQuit, pipeVars,
      deviceVars, Raise, QuitTypes, Trackers, Phases, Checkpoints, TrayAt,
      CoreAt, Savers, CoreCommands
  <2> QED
    BY <1>6, <2>1, <2>2, <2>3 DEF SaverActions, SaverStep
<1> QED
  BY <1>1, <1>2, <1>3, <1>4, <1>5, <1>6, NextCases

(* compare_exchange lets one pipeline in; outcomes precede the release.     *)
LEMMA OwnerNext == IInv /\ Next => OwnerInv'
<1> SUFFICES ASSUME IInv, Next PROVE OwnerInv'
    OBVIOUS
<1> USE DEF IInv
<1>1. CASE PipelineActions
  <2>1. ASSUME NEW p \in Pipelines, Start(p) PROVE OwnerInv'
    BY <2>1 DEF Start, besidesPipeline, Go, quitVars, deviceVars, Open,
      OwnerInv, PipeTypes, OpTypes, TypeOK, Running, Claimed, Working, Serving
  <2>2. ASSUME NEW p \in Pipelines, Claim(p) PROVE OwnerInv'
    BY <2>2 DEF Claim, besidesPipeline, Go, quitVars, deviceVars, Raise,
      OwnerInv, PipeTypes, OpTypes, TypeOK, Running, Claimed, Working, Serving
  <2>3. ASSUME NEW p \in Pipelines, Recheck(p) PROVE OwnerInv'
    BY <2>3 DEF Recheck, besidesPipeline, Go, quitVars, deviceVars, Lower,
      Open, OwnerInv, PipeTypes, OpTypes, TypeOK, Running, Claimed, Working,
      Serving
  <2>4. ASSUME NEW p \in Pipelines, LoadCommitted(p) PROVE OwnerInv'
    BY <2>4 DEF LoadCommitted, besidesPipeline, Go, quitVars, deviceVars,
      Committed, OwnerInv, PipeTypes, OpTypes, TypeOK, Running, Claimed,
      Working, Serving
  <2>5. ASSUME NEW p \in Pipelines, StoreCancelled(p) PROVE OwnerInv'
    BY <2>5 DEF StoreCancelled, besidesPipeline, Go, quitVars, deviceVars,
      Raise, Lower, OwnerInv, PipeTypes, OpTypes, TypeOK, Running, Claimed,
      Working, Serving
  <2>6. ASSUME NEW p \in Pipelines, Prepare(p) PROVE OwnerInv'
    BY <2>6 DEF Prepare, besidesPipeline, Go, quitVars, deviceVars, Running,
      OwnerInv, PipeTypes, OpTypes, TypeOK, Claimed, Working, Serving
  <2>7. ASSUME NEW p \in Pipelines, Abandon(p) PROVE OwnerInv'
    BY <2>7 DEF Abandon, besidesPipeline, Go, quitVars, deviceVars, OwnerInv,
      PipeTypes, OpTypes, TypeOK, Running, Claimed, Working, Serving
  <2>8. ASSUME NEW p \in Pipelines, MarkDirty(p) PROVE OwnerInv'
    BY <2>8 DEF MarkDirty, besidesPipeline, Go, quitVars, deviceVars,
      OwnerInv, PipeTypes, OpTypes, TypeOK, Running, Claimed, Working, Serving
  <2>9. ASSUME NEW p \in Pipelines, FailOperation(p) PROVE OwnerInv'
    BY <2>9 DEF FailOperation, besidesPipeline, Go, quitVars, deviceVars,
      Finish, Running, OwnerInv, PipeTypes, OpTypes, TypeOK, Claimed, Working,
      Serving
  <2>10. ASSUME NEW p \in Pipelines, EndRun(p) PROVE OwnerInv'
    BY <2>10 DEF EndRun, besidesPipeline, Go, quitVars, deviceVars, OwnerInv,
      PipeTypes, OpTypes, TypeOK, Running, Claimed, Working, Serving
  <2>11. ASSUME NEW p \in Pipelines, TakeGate(p) PROVE OwnerInv'
    BY <2>11 DEF TakeGate, besidesPipeline, Go, quitVars, deviceVars,
      OwnerInv, PipeTypes, OpTypes, TypeOK, Running, Claimed, Working, Serving
  <2>12. ASSUME NEW p \in Pipelines, Decide(p) PROVE OwnerInv'
    BY <2>12 DEF Decide, besidesPipeline, Go, quitVars, deviceVars, Finish,
      Running, OwnerInv, PipeTypes, OpTypes, TypeOK, Claimed, Working, Serving
  <2>13. ASSUME NEW p \in Pipelines, CommitManifest(p) PROVE OwnerInv'
    BY <2>13 DEF CommitManifest, besidesPipeline, Go, quitVars, deviceVars,
      OwnerInv, PipeTypes, OpTypes, TypeOK, Running, Claimed, Working, Serving
  <2>14. ASSUME NEW p \in Pipelines, Publish(p) PROVE OwnerInv'
    BY <2>14 DEF Publish, besidesPipeline, Go, quitVars, deviceVars, Finish,
      OwnerInv, PipeTypes, OpTypes, TypeOK, Running, Claimed, Working, Serving
  <2>15. ASSUME NEW p \in Pipelines, Release(p) PROVE OwnerInv'
    BY <2>15 DEF Release, besidesPipeline, Go, quitVars, deviceVars, Lower,
      OwnerInv, PipeTypes, OpTypes, TypeOK, Running, Claimed, Working, Serving
  <2>16. ASSUME NEW p \in Pipelines, NEW o \in Ops, Admit(p, o) PROVE OwnerInv'
    BY <2>16 DEF Admit, besidesPipeline, Go, quitVars, deviceVars, Finish,
      Committed, OwnerInv, PipeTypes, OpTypes, TypeOK, Running, Claimed,
      Working, Serving
  <2>17. ASSUME NEW p \in Pipelines, Fault(p) PROVE OwnerInv'
    BY <2>17 DEF Fault, besidesPipeline, quitVars, deviceVars, OwnerInv,
      PipeTypes, OpTypes, TypeOK, Running, Claimed, Working, Serving
  <2> QED
    BY <1>1, <2>1, <2>2, <2>3, <2>4, <2>5, <2>6, <2>7, <2>8, <2>9, <2>10,
      <2>11, <2>12, <2>13, <2>14, <2>15, <2>16, <2>17 DEF PipelineActions,
      PipelineStep
<1>2. CASE RequestActions
  BY <1>2, RequestFrame DEF OwnerInv, PipeTypes, OpTypes, TypeOK, Running,
    Claimed, Working, Serving
<1>3. CASE DeviceActions
  <2>1. ASSUME NEW o \in Ops, FailDoomed(o) PROVE OwnerInv'
    BY <2>1 DEF FailDoomed, besidesDevices, flagVars, pipeVars, quitVars,
      Finish, Running, OwnerInv, PipeTypes, OpTypes, TypeOK, Claimed, Working,
      Serving
  <2>2. CASE Scan
    BY <2>2 DEF Scan, besidesDevices, flagVars, pipeVars, quitVars, OwnerInv,
      PipeTypes, OpTypes, TypeOK, Running, Claimed, Working, Serving
  <2>3. ASSUME NEW d \in Devices,
              Remove(d) \/ Reconnect(d)
         PROVE  OwnerInv'
    BY <2>3 DEF Remove, besidesDevices, flagVars, pipeVars, quitVars,
      Reconnect, OwnerInv, PipeTypes, OpTypes, TypeOK, Running, Claimed,
      Working, Serving
  <2>4. ASSUME NEW o \in Ops, CancelDoomed(o) PROVE OwnerInv'
    BY <2>4 DEF CancelDoomed, besidesDevices, flagVars, pipeVars, quitVars,
      OwnerInv, PipeTypes, OpTypes, TypeOK, Running, Claimed, Working, Serving
  <2> QED
    BY <1>3, <2>1, <2>2, <2>3, <2>4 DEF DeviceActions, RemovalStep
<1>4. CASE TrayActions
  BY <1>4, TrayFrame DEF OwnerInv, PipeTypes, OpTypes, TypeOK, Running,
    Claimed, Working, Serving
<1>5. CASE CoreStep
  BY <1>5, CoreFrame DEF OwnerInv, PipeTypes, OpTypes, TypeOK, Running,
    Claimed, Working, Serving
<1>6. CASE SaverActions
  BY <1>6, SaverFrame DEF OwnerInv, PipeTypes, OpTypes, TypeOK, Running,
    Claimed, Working, Serving
<1> QED
  BY <1>1, <1>2, <1>3, <1>4, <1>5, <1>6, NextCases

(* The gate has one holder at a time.                                       *)
LEMMA GateNext == IInv /\ Next => GateInv'
<1> SUFFICES ASSUME IInv, Next PROVE GateInv'
    OBVIOUS
<1> USE DEF IInv
<1>1. CASE PipelineActions
  <2>1. ASSUME NEW p \in Pipelines, Start(p) PROVE GateInv'
    BY <2>1, ConstantsAssumption DEF Start, besidesPipeline, Go, quitVars,
      deviceVars, Open, GateInv, OwnerInv, PipeTypes, TypeOK, Finalizing,
      Claimed, Working, Serving
  <2>2. ASSUME NEW p \in Pipelines, Claim(p) PROVE GateInv'
    BY <2>2, ConstantsAssumption DEF Claim, besidesPipeline, Go, quitVars,
      deviceVars, Raise, GateInv, OwnerInv, PipeTypes, TypeOK, Finalizing,
      Claimed, Working, Serving
  <2>3. ASSUME NEW p \in Pipelines, Recheck(p) PROVE GateInv'
    BY <2>3, ConstantsAssumption DEF Recheck, besidesPipeline, Go, quitVars,
      deviceVars, Lower, Open, GateInv, OwnerInv, PipeTypes, TypeOK,
      Finalizing, Claimed, Working, Serving
  <2>4. ASSUME NEW p \in Pipelines, LoadCommitted(p) PROVE GateInv'
    BY <2>4, ConstantsAssumption DEF LoadCommitted, besidesPipeline, Go,
      quitVars, deviceVars, Committed, GateInv, OwnerInv, PipeTypes, TypeOK,
      Finalizing, Claimed, Working, Serving
  <2>5. ASSUME NEW p \in Pipelines, StoreCancelled(p) PROVE GateInv'
    BY <2>5, ConstantsAssumption DEF StoreCancelled, besidesPipeline, Go,
      quitVars, deviceVars, Raise, Lower, GateInv, OwnerInv, PipeTypes,
      TypeOK, Finalizing, Claimed, Working, Serving
  <2>6. ASSUME NEW p \in Pipelines, Prepare(p) PROVE GateInv'
    BY <2>6, ConstantsAssumption DEF Prepare, besidesPipeline, Go, quitVars,
      deviceVars, Running, GateInv, OwnerInv, PipeTypes, TypeOK, Finalizing,
      Claimed, Working, Serving
  <2>7. ASSUME NEW p \in Pipelines, Abandon(p) PROVE GateInv'
    BY <2>7, ConstantsAssumption DEF Abandon, besidesPipeline, Go, quitVars,
      deviceVars, GateInv, OwnerInv, PipeTypes, TypeOK, Finalizing, Claimed,
      Working, Serving
  <2>8. ASSUME NEW p \in Pipelines, MarkDirty(p) PROVE GateInv'
    BY <2>8, ConstantsAssumption DEF MarkDirty, besidesPipeline, Go, quitVars,
      deviceVars, GateInv, OwnerInv, PipeTypes, TypeOK, Finalizing, Claimed,
      Working, Serving
  <2>9. ASSUME NEW p \in Pipelines, FailOperation(p) PROVE GateInv'
    BY <2>9, ConstantsAssumption DEF FailOperation, besidesPipeline, Go,
      quitVars, deviceVars, Finish, Running, GateInv, OwnerInv, PipeTypes,
      TypeOK, Finalizing, Claimed, Working, Serving
  <2>10. ASSUME NEW p \in Pipelines, EndRun(p) PROVE GateInv'
    BY <2>10, ConstantsAssumption DEF EndRun, besidesPipeline, Go, quitVars,
      deviceVars, GateInv, OwnerInv, PipeTypes, TypeOK, Finalizing, Claimed,
      Working, Serving
  <2>11. ASSUME NEW p \in Pipelines, TakeGate(p) PROVE GateInv'
    BY <2>11, ConstantsAssumption DEF TakeGate, besidesPipeline, Go, quitVars,
      deviceVars, GateInv, OwnerInv, PipeTypes, TypeOK, Finalizing, Claimed,
      Working, Serving
  <2>12. ASSUME NEW p \in Pipelines, Decide(p) PROVE GateInv'
    BY <2>12, ConstantsAssumption DEF Decide, besidesPipeline, Go, quitVars,
      deviceVars, Finish, Running, GateInv, OwnerInv, PipeTypes, TypeOK,
      Finalizing, Claimed, Working, Serving
  <2>13. ASSUME NEW p \in Pipelines, CommitManifest(p) PROVE GateInv'
    BY <2>13, ConstantsAssumption DEF CommitManifest, besidesPipeline, Go,
      quitVars, deviceVars, GateInv, OwnerInv, PipeTypes, TypeOK, Finalizing,
      Claimed, Working, Serving
  <2>14. ASSUME NEW p \in Pipelines, Publish(p) PROVE GateInv'
    BY <2>14, ConstantsAssumption DEF Publish, besidesPipeline, Go, quitVars,
      deviceVars, Finish, GateInv, OwnerInv, PipeTypes, TypeOK, Finalizing,
      Claimed, Working, Serving
  <2>15. ASSUME NEW p \in Pipelines, Release(p) PROVE GateInv'
    BY <2>15, ConstantsAssumption DEF Release, besidesPipeline, Go, quitVars,
      deviceVars, Lower, GateInv, OwnerInv, PipeTypes, TypeOK, Finalizing,
      Claimed, Working, Serving
  <2>16. ASSUME NEW p \in Pipelines, NEW o \in Ops, Admit(p, o) PROVE GateInv'
    BY <2>16, ConstantsAssumption DEF Admit, besidesPipeline, Go, quitVars,
      deviceVars, Finish, Committed, GateInv, OwnerInv, PipeTypes, TypeOK,
      Finalizing, Claimed, Working, Serving
  <2>17. ASSUME NEW p \in Pipelines, Fault(p) PROVE GateInv'
    BY <2>17 DEF Fault, besidesPipeline, quitVars, deviceVars, GateInv,
      OwnerInv, PipeTypes, TypeOK, Finalizing, Claimed, Working, Serving
  <2> QED
    BY <1>1, <2>1, <2>2, <2>3, <2>4, <2>5, <2>6, <2>7, <2>8, <2>9, <2>10,
      <2>11, <2>12, <2>13, <2>14, <2>15, <2>16, <2>17 DEF PipelineActions,
      PipelineStep
<1>2. CASE RequestActions
  BY <1>2, RequestFrame DEF GateInv, OwnerInv, PipeTypes, TypeOK, Finalizing,
    Claimed, Working, Serving
<1>3. CASE DeviceActions
  BY <1>3, DeviceFrame DEF GateInv, OwnerInv, PipeTypes, TypeOK, Finalizing,
    Claimed, Working, Serving
<1>4. CASE TrayActions
  BY <1>4, TrayFrame DEF GateInv, OwnerInv, PipeTypes, TypeOK, Finalizing,
    Claimed, Working, Serving
<1>5. CASE CoreStep
  <2>1. CASE CloseAdmission
    BY <2>1, ConstantsAssumption DEF CloseAdmission, besidesCore, besidesQuit,
      pipeVars, deviceVars, Raise, Received, GateInv, OwnerInv, PipeTypes,
      TypeOK, Finalizing, Claimed, Working, Serving
  <2>2. CASE BeginFence
    BY <2>2, ConstantsAssumption DEF BeginFence, besidesCore, besidesQuit,
      pipeVars, deviceVars, Step, GateInv, OwnerInv, PipeTypes, TypeOK,
      Finalizing, Claimed, Working, Serving
  <2>3. CASE BeginCommit
    BY <2>3, ConstantsAssumption DEF BeginCommit, besidesCore, besidesQuit,
      pipeVars, deviceVars, Received, GateInv, OwnerInv, PipeTypes, TypeOK,
      Finalizing, Claimed, Working, Serving
  <2>4. CASE GateForCommit
    BY <2>4, ConstantsAssumption DEF GateForCommit, besidesCore, besidesQuit,
      pipeVars, deviceVars, Step, GateInv, OwnerInv, PipeTypes, TypeOK,
      Finalizing, Claimed, Working, Serving
  <2>5. CASE CommitShutdown
    BY <2>5, ConstantsAssumption DEF CommitShutdown, besidesCore, besidesQuit,
      pipeVars, deviceVars, Raise, Step, GateInv, OwnerInv, PipeTypes, TypeOK,
      Finalizing, Claimed, Working, Serving
  <2>6. CASE CancelPipelines
    BY <2>6, ConstantsAssumption DEF CancelPipelines, besidesCore,
      besidesQuit, pipeVars, deviceVars, Raise, Step, GateInv, OwnerInv,
      PipeTypes, TypeOK, Finalizing, Claimed, Working, Serving
  <2>7. CASE CancelTokens
    BY <2>7, ConstantsAssumption DEF CancelTokens, besidesCore, besidesQuit,
      pipeVars, deviceVars, Step, GateInv, OwnerInv, PipeTypes, TypeOK,
      Finalizing, Claimed, Working, Serving
  <2>8. CASE DrainPipeline
    BY <2>8, ConstantsAssumption DEF DrainPipeline, besidesCore, besidesQuit,
      pipeVars, deviceVars, Miss, GateInv, OwnerInv, PipeTypes, TypeOK,
      Finalizing, Claimed, Working, Serving
  <2>9. CASE DrainMutations
    BY <2>9, ConstantsAssumption DEF DrainMutations, besidesCore, besidesQuit,
      pipeVars, deviceVars, Miss, GateInv, OwnerInv, PipeTypes, TypeOK,
      Finalizing, Claimed, Working, Serving
  <2>10. CASE DrainCheckpoint
    BY <2>10, ConstantsAssumption DEF DrainCheckpoint, besidesCore,
      besidesQuit, pipeVars, deviceVars, Miss, GateInv, OwnerInv, PipeTypes,
      TypeOK, Finalizing, Claimed, Working, Serving
  <2>11. CASE JoinSaver
    BY <2>11, ConstantsAssumption DEF JoinSaver, besidesCore, besidesQuit,
      pipeVars, deviceVars, Step, GateInv, OwnerInv, PipeTypes, TypeOK,
      Finalizing, Claimed, Working, Serving
  <2>12. CASE Teardown
    BY <2>12, ConstantsAssumption DEF Teardown, besidesCore, besidesQuit,
      pipeVars, deviceVars, Step, GateInv, OwnerInv, PipeTypes, TypeOK,
      Finalizing, Claimed, Working, Serving
  <2>13. CASE FailFence
    BY <2>13 DEF FailFence, besidesCore, besidesQuit, pipeVars, deviceVars,
      Lower, GateInv, OwnerInv, PipeTypes, TypeOK, Finalizing, Claimed,
      Working, Serving
  <2> QED
    BY <1>5, <2>1, <2>2, <2>3, <2>4, <2>5, <2>6, <2>7, <2>8, <2>9, <2>10,
      <2>11, <2>12, <2>13 DEF CoreStep
<1>6. CASE SaverActions
  BY <1>6, SaverFrame DEF GateInv, OwnerInv, PipeTypes, TypeOK, Finalizing,
    Claimed, Working, Serving
<1> QED
  BY <1>1, <1>2, <1>3, <1>4, <1>5, <1>6, NextCases

(* Who holds the gate decides on an operation nobody else can finish.       *)
LEMMA OutcomeNext == IInv /\ Next => OutcomeInv'
<1> SUFFICES ASSUME IInv, Next PROVE OutcomeInv'
    OBVIOUS
<1> USE DEF IInv
<1>1. CASE PipelineActions
  <2>1. ASSUME NEW p \in Pipelines, Start(p) PROVE OutcomeInv'
    BY <2>1, ConstantsAssumption DEF Start, besidesPipeline, Go, quitVars,
      deviceVars, Open, OutcomeInv, CancelReaches, GateInv, OwnerInv,
      PipeTypes, OpTypes, TypeOK, Finalizing, Committed, Running, Claimed,
      Working, Serving
  <2>2. ASSUME NEW p \in Pipelines, Fault(p) PROVE OutcomeInv'
    BY <2>2, ConstantsAssumption DEF Fault, besidesPipeline, Go, quitVars,
      deviceVars, OutcomeInv, CancelReaches, GateInv, OwnerInv, PipeTypes,
      OpTypes, TypeOK, Finalizing, Committed, Running, Claimed, Working,
      Serving
  <2>3. ASSUME NEW p \in Pipelines, Claim(p) PROVE OutcomeInv'
    BY <2>3, ConstantsAssumption DEF Claim, besidesPipeline, Go, quitVars,
      deviceVars, Raise, OutcomeInv, CancelReaches, GateInv, OwnerInv,
      PipeTypes, OpTypes, TypeOK, Finalizing, Committed, Running, Claimed,
      Working, Serving
  <2>4. ASSUME NEW p \in Pipelines, Recheck(p) PROVE OutcomeInv'
    BY <2>4, ConstantsAssumption DEF Recheck, besidesPipeline, Go, quitVars,
      deviceVars, Lower, Open, OutcomeInv, CancelReaches, GateInv, OwnerInv,
      PipeTypes, OpTypes, TypeOK, Finalizing, Committed, Running, Claimed,
      Working, Serving
  <2>5. ASSUME NEW p \in Pipelines, LoadCommitted(p) PROVE OutcomeInv'
    BY <2>5, ConstantsAssumption DEF LoadCommitted, besidesPipeline, Go,
      quitVars, deviceVars, Committed, OutcomeInv, CancelReaches, GateInv,
      OwnerInv, PipeTypes, OpTypes, TypeOK, Finalizing, Running, Claimed,
      Working, Serving
  <2>6. ASSUME NEW p \in Pipelines, StoreCancelled(p) PROVE OutcomeInv'
    BY <2>6, ConstantsAssumption DEF StoreCancelled, besidesPipeline, Go,
      quitVars, deviceVars, Raise, Lower, OutcomeInv, CancelReaches, GateInv,
      OwnerInv, PipeTypes, OpTypes, TypeOK, Finalizing, Committed, Running,
      Claimed, Working, Serving
  <2>7. ASSUME NEW p \in Pipelines, Prepare(p) PROVE OutcomeInv'
    BY <2>7, ConstantsAssumption DEF Prepare, besidesPipeline, Go, quitVars,
      deviceVars, Running, OutcomeInv, CancelReaches, GateInv, OwnerInv,
      PipeTypes, OpTypes, TypeOK, Finalizing, Committed, Claimed, Working,
      Serving
  <2>8. ASSUME NEW p \in Pipelines, Abandon(p) PROVE OutcomeInv'
    BY <2>8, ConstantsAssumption DEF Abandon, besidesPipeline, Go, quitVars,
      deviceVars, OutcomeInv, CancelReaches, GateInv, OwnerInv, PipeTypes,
      OpTypes, TypeOK, Finalizing, Committed, Running, Claimed, Working,
      Serving
  <2>9. ASSUME NEW p \in Pipelines, MarkDirty(p) PROVE OutcomeInv'
    BY <2>9, ConstantsAssumption DEF MarkDirty, besidesPipeline, Go, quitVars,
      deviceVars, OutcomeInv, CancelReaches, GateInv, OwnerInv, PipeTypes,
      OpTypes, TypeOK, Finalizing, Committed, Running, Claimed, Working,
      Serving
  <2>10. ASSUME NEW p \in Pipelines, FailOperation(p) PROVE OutcomeInv'
    BY <2>10, ConstantsAssumption DEF FailOperation, besidesPipeline, Go,
      quitVars, deviceVars, Finish, Running, OutcomeInv, CancelReaches,
      GateInv, OwnerInv, PipeTypes, OpTypes, TypeOK, Finalizing, Committed,
      Claimed, Working, Serving
  <2>11. ASSUME NEW p \in Pipelines, EndRun(p) PROVE OutcomeInv'
    BY <2>11, ConstantsAssumption DEF EndRun, besidesPipeline, Go, quitVars,
      deviceVars, OutcomeInv, CancelReaches, GateInv, OwnerInv, PipeTypes,
      OpTypes, TypeOK, Finalizing, Committed, Running, Claimed, Working,
      Serving
  <2>12. ASSUME NEW p \in Pipelines, TakeGate(p) PROVE OutcomeInv'
    BY <2>12, ConstantsAssumption DEF TakeGate, besidesPipeline, Go, quitVars,
      deviceVars, OutcomeInv, CancelReaches, GateInv, OwnerInv, PipeTypes,
      OpTypes, TypeOK, Finalizing, Committed, Running, Claimed, Working,
      Serving
  <2>13. ASSUME NEW p \in Pipelines, Decide(p) PROVE OutcomeInv'
    BY <2>13, ConstantsAssumption DEF Decide, besidesPipeline, Go, quitVars,
      deviceVars, Finish, Running, OutcomeInv, CancelReaches, GateInv,
      OwnerInv, PipeTypes, OpTypes, TypeOK, Finalizing, Committed, Claimed,
      Working, Serving
  <2>14. ASSUME NEW p \in Pipelines, CommitManifest(p) PROVE OutcomeInv'
    BY <2>14, ConstantsAssumption DEF CommitManifest, besidesPipeline, Go,
      quitVars, deviceVars, OutcomeInv, CancelReaches, GateInv, OwnerInv,
      PipeTypes, OpTypes, TypeOK, Finalizing, Committed, Running, Claimed,
      Working, Serving
  <2>15. ASSUME NEW p \in Pipelines, Publish(p) PROVE OutcomeInv'
    BY <2>15, ConstantsAssumption DEF Publish, besidesPipeline, Go, quitVars,
      deviceVars, Finish, OutcomeInv, CancelReaches, GateInv, OwnerInv,
      PipeTypes, OpTypes, TypeOK, Finalizing, Committed, Running, Claimed,
      Working, Serving
  <2>16. ASSUME NEW p \in Pipelines, Release(p) PROVE OutcomeInv'
    BY <2>16, ConstantsAssumption DEF Release, besidesPipeline, Go, quitVars,
      deviceVars, Lower, OutcomeInv, CancelReaches, GateInv, OwnerInv,
      PipeTypes, OpTypes, TypeOK, Finalizing, Committed, Running, Claimed,
      Working, Serving
  <2>17. ASSUME NEW p \in Pipelines, NEW o \in Ops, Admit(p, o) PROVE OutcomeInv'
    BY <2>17, ConstantsAssumption DEF Admit, besidesPipeline, Go, quitVars,
      deviceVars, Finish, Committed, OutcomeInv, CancelReaches, GateInv,
      OwnerInv, PipeTypes, OpTypes, TypeOK, Finalizing, Running, Claimed,
      Working, Serving
  <2> QED
    BY <1>1, <2>1, <2>2, <2>3, <2>4, <2>5, <2>6, <2>7, <2>8, <2>9, <2>10,
      <2>11, <2>12, <2>13, <2>14, <2>15, <2>16, <2>17 DEF PipelineActions,
      PipelineStep
<1>2. CASE RequestActions
  <2>1. ASSUME NEW m \in Mutators, NEW o \in Ops, RequestCancel(m, o) PROVE OutcomeInv'
    BY <2>1, ConstantsAssumption DEF RequestCancel, besidesRequest, At,
      pipeVars, deviceVars, quitVars, flagVars, OutcomeInv, CancelReaches,
      GateInv, OwnerInv, PipeTypes, OpTypes, TypeOK, Finalizing, Committed,
      Running, Claimed, Working, Serving
  <2>2. ASSUME NEW m \in Mutators,
              TryAdmit(m) \/ Count(m) \/ RecheckMutation(m) \/
                CancelPipeline(m) \/ Respond(m) \/ SeePipeline(m) \/
                RequestQuitRetry(m)
         PROVE  OutcomeInv'
    BY <2>2 DEF TryAdmit, besidesRequest, pipeVars, deviceVars, quitVars,
      flagVars, Count, RecheckMutation, CancelPipeline, Raise, Respond,
      SeePipeline, RequestQuitRetry, OutcomeInv, CancelReaches, GateInv,
      OwnerInv, PipeTypes, OpTypes, TypeOK, Finalizing, Committed, Running,
      Claimed, Working, Serving
  <2> QED
    BY <1>2, <2>1, <2>2 DEF RequestActions, Admission
<1>3. CASE DeviceActions
  <2>1. ASSUME NEW o \in Ops, CancelDoomed(o) PROVE OutcomeInv'
    BY <2>1, ConstantsAssumption DEF CancelDoomed, besidesDevices, flagVars,
      pipeVars, quitVars, OutcomeInv, CancelReaches, GateInv, OwnerInv,
      PipeTypes, OpTypes, TypeOK, Finalizing, Committed, Running, Claimed,
      Working, Serving
  <2>2. ASSUME NEW o \in Ops, FailDoomed(o) PROVE OutcomeInv'
    BY <2>2, ConstantsAssumption DEF FailDoomed, besidesDevices, flagVars,
      pipeVars, quitVars, Finish, Running, OutcomeInv, CancelReaches, GateInv,
      OwnerInv, PipeTypes, OpTypes, TypeOK, Finalizing, Committed, Claimed,
      Working, Serving
  <2>3. CASE Scan
    BY <2>3 DEF Scan, besidesDevices, flagVars, pipeVars, quitVars,
      OutcomeInv, CancelReaches, GateInv, OwnerInv, PipeTypes, OpTypes,
      TypeOK, Finalizing, Committed, Running, Claimed, Working, Serving
  <2>4. ASSUME NEW d \in Devices,
              Remove(d) \/ Reconnect(d)
         PROVE  OutcomeInv'
    BY <2>4 DEF Remove, besidesDevices, flagVars, pipeVars, quitVars,
      Reconnect, OutcomeInv, CancelReaches, GateInv, OwnerInv, PipeTypes,
      OpTypes, TypeOK, Finalizing, Committed, Running, Claimed, Working,
      Serving
  <2> QED
    BY <1>3, <2>1, <2>2, <2>3, <2>4 DEF DeviceActions, RemovalStep
<1>4. CASE TrayActions
  BY <1>4, TrayFrame DEF OutcomeInv, CancelReaches, GateInv, OwnerInv,
    PipeTypes, OpTypes, TypeOK, Finalizing, Committed, Running, Claimed,
    Working, Serving
<1>5. CASE CoreStep
  <2>1. CASE CloseAdmission
    BY <2>1, ConstantsAssumption DEF CloseAdmission, besidesCore, besidesQuit,
      pipeVars, deviceVars, Raise, Received, OutcomeInv, CancelReaches,
      GateInv, OwnerInv, PipeTypes, OpTypes, TypeOK, Finalizing, Committed,
      Running, Claimed, Working, Serving
  <2>2. CASE BeginFence
    BY <2>2, ConstantsAssumption DEF BeginFence, besidesCore, besidesQuit,
      pipeVars, deviceVars, Step, OutcomeInv, CancelReaches, GateInv,
      OwnerInv, PipeTypes, OpTypes, TypeOK, Finalizing, Committed, Running,
      Claimed, Working, Serving
  <2>3. CASE BeginCommit
    BY <2>3, ConstantsAssumption DEF BeginCommit, besidesCore, besidesQuit,
      pipeVars, deviceVars, Received, OutcomeInv, CancelReaches, GateInv,
      OwnerInv, PipeTypes, OpTypes, TypeOK, Finalizing, Committed, Running,
      Claimed, Working, Serving
  <2>4. CASE GateForCommit
    BY <2>4, ConstantsAssumption DEF GateForCommit, besidesCore, besidesQuit,
      pipeVars, deviceVars, Step, OutcomeInv, CancelReaches, GateInv,
      OwnerInv, PipeTypes, OpTypes, TypeOK, Finalizing, Committed, Running,
      Claimed, Working, Serving
  <2>5. CASE CommitShutdown
    BY <2>5, ConstantsAssumption DEF CommitShutdown, besidesCore, besidesQuit,
      pipeVars, deviceVars, Raise, Step, OutcomeInv, CancelReaches, GateInv,
      OwnerInv, PipeTypes, OpTypes, TypeOK, Finalizing, Committed, Running,
      Claimed, Working, Serving
  <2>6. CASE CancelPipelines
    BY <2>6, ConstantsAssumption DEF CancelPipelines, besidesCore,
      besidesQuit, pipeVars, deviceVars, Raise, Step, OutcomeInv,
      CancelReaches, GateInv, OwnerInv, PipeTypes, OpTypes, TypeOK,
      Finalizing, Committed, Running, Claimed, Working, Serving
  <2>7. CASE CancelTokens
    BY <2>7, ConstantsAssumption DEF CancelTokens, besidesCore, besidesQuit,
      pipeVars, deviceVars, Step, OutcomeInv, CancelReaches, GateInv,
      OwnerInv, PipeTypes, OpTypes, TypeOK, Finalizing, Committed, Running,
      Claimed, Working, Serving
  <2>8. CASE DrainPipeline
    BY <2>8, ConstantsAssumption DEF DrainPipeline, besidesCore, besidesQuit,
      pipeVars, deviceVars, Miss, OutcomeInv, CancelReaches, GateInv,
      OwnerInv, PipeTypes, OpTypes, TypeOK, Finalizing, Committed, Running,
      Claimed, Working, Serving
  <2>9. CASE DrainMutations
    BY <2>9, ConstantsAssumption DEF DrainMutations, besidesCore, besidesQuit,
      pipeVars, deviceVars, Miss, OutcomeInv, CancelReaches, GateInv,
      OwnerInv, PipeTypes, OpTypes, TypeOK, Finalizing, Committed, Running,
      Claimed, Working, Serving
  <2>10. CASE DrainCheckpoint
    BY <2>10, ConstantsAssumption DEF DrainCheckpoint, besidesCore,
      besidesQuit, pipeVars, deviceVars, Miss, OutcomeInv, CancelReaches,
      GateInv, OwnerInv, PipeTypes, OpTypes, TypeOK, Finalizing, Committed,
      Running, Claimed, Working, Serving
  <2>11. CASE JoinSaver
    BY <2>11, ConstantsAssumption DEF JoinSaver, besidesCore, besidesQuit,
      pipeVars, deviceVars, Step, OutcomeInv, CancelReaches, GateInv,
      OwnerInv, PipeTypes, OpTypes, TypeOK, Finalizing, Committed, Running,
      Claimed, Working, Serving
  <2>12. CASE Teardown
    BY <2>12, ConstantsAssumption DEF Teardown, besidesCore, besidesQuit,
      pipeVars, deviceVars, Step, OutcomeInv, CancelReaches, GateInv,
      OwnerInv, PipeTypes, OpTypes, TypeOK, Finalizing, Committed, Running,
      Claimed, Working, Serving
  <2>13. CASE FailFence
    BY <2>13 DEF FailFence, besidesCore, besidesQuit, pipeVars, deviceVars,
      Lower, OutcomeInv, CancelReaches, GateInv, OwnerInv, PipeTypes, OpTypes,
      TypeOK, Finalizing, Committed, Running, Claimed, Working, Serving
  <2> QED
    BY <1>5, <2>1, <2>2, <2>3, <2>4, <2>5, <2>6, <2>7, <2>8, <2>9, <2>10,
      <2>11, <2>12, <2>13 DEF CoreStep
<1>6. CASE SaverActions
  BY <1>6, SaverFrame DEF OutcomeInv, CancelReaches, GateInv, OwnerInv,
    PipeTypes, OpTypes, TypeOK, Finalizing, Committed, Running, Claimed,
    Working, Serving
<1> QED
  BY <1>1, <1>2, <1>3, <1>4, <1>5, <1>6, NextCases

(* A Quit goes round the two loops in order.                                *)
LEMMA QuitNext == IInv /\ Next => QuitInv'
<1> SUFFICES ASSUME IInv, Next PROVE QuitInv'
    OBVIOUS
<1> USE DEF IInv
<1>1. CASE PipelineActions
  BY <1>1, PipelineFrame DEF QuitInv, Open, CoreCommands
<1>2. CASE RequestActions
  BY <1>2, RequestFrame DEF QuitInv, Open, CoreCommands
<1>3. CASE DeviceActions
  BY <1>3, DeviceFrame DEF QuitInv, Open, CoreCommands
<1>4. CASE TrayActions
  <2>1. CASE Quit
    BY <2>1, ChannelFacts DEF Quit, besidesTray, besidesQuit, pipeVars,
      deviceVars, Send, NoRetry, QuitInv, Open, CoreCommands
  <2>2. CASE TakeQuitRetry
    BY <2>2, ChannelFacts DEF TakeQuitRetry, besidesTray, besidesQuit,
      pipeVars, deviceVars, Lower, Send, QuitInv, Open, CoreCommands
  <2>3. CASE SpawnWriter
    BY <2>3, ChannelFacts DEF SpawnWriter, besidesTray, besidesQuit, pipeVars,
      deviceVars, Raise, NoRetry, QuitInv, Open, CoreCommands
  <2>4. CASE AdvanceGeneration
    BY <2>4, ChannelFacts DEF AdvanceGeneration, besidesTray, besidesQuit,
      pipeVars, deviceVars, QuitInv, Open, CoreCommands
  <2>5. CASE HearWriter
    BY <2>5, ChannelFacts DEF HearWriter, besidesTray, besidesQuit, pipeVars,
      deviceVars, Lower, Send, NoRetry, QuitInv, Open, CoreCommands
  <2> QED
    BY <1>4, <2>1, <2>2, <2>3, <2>4, <2>5 DEF TrayActions, TrayStep
<1>5. CASE CoreStep
  <2>1. CASE CloseAdmission
    <3>1. tray = "asked" /\ generation = 0 /\ commands = <<"begin">>
      BY <2>1, ChannelFacts DEF CloseAdmission, Received, QuitInv, CoreCommands
    <3>2. commands' = <<>> /\ core' = "fence" /\ UNCHANGED <<tray, generation>> /\ ~Open'
      BY <2>1, <3>1, ChannelFacts
      DEF CloseAdmission, Received, besidesCore, Raise, Open, CoreCommands
    <3> QED
      BY <3>1, <3>2 DEF QuitInv
  <2>2. CASE BeginFence
    BY <2>2, ChannelFacts DEF BeginFence, besidesCore, besidesQuit, pipeVars,
      deviceVars, Step, QuitInv, Open, CoreCommands
  <2>3. CASE FailFence
    <3>1. /\ core = "loop" /\ generation = 0
          /\ \/ tray = "idle" /\ commands = <<"fenceFailed">>
             \/ tray = "asked" /\ commands = <<"fenceFailed", "begin">>
      BY <2>3, ChannelFacts DEF FailFence, Received, QuitInv, CoreCommands
    <3>2. UNCHANGED <<tray, core, generation>> /\ commands' = Tail(commands)
      BY <2>3 DEF FailFence, Received, besidesCore
    <3>3. \/ tray = "idle" /\ commands' = <<>>
          \/ tray = "asked" /\ commands' = <<"begin">>
      BY <3>1, <3>2, ChannelFacts DEF CoreCommands
    <3> QED
      BY <3>1, <3>2, <3>3 DEF QuitInv
  <2>4. CASE BeginCommit
    <3>1. tray = "pending" /\ ~Open /\ generation = 1 /\ commands = <<"commit">>
      BY <2>4, ChannelFacts DEF BeginCommit, Received, QuitInv, CoreCommands
    <3>2. commands' = <<>> /\ core' = "gate" /\ UNCHANGED <<tray, generation, raised>>
      BY <2>4, <3>1, ChannelFacts DEF BeginCommit, Received, besidesCore, CoreCommands
    <3> QED
      BY <3>1, <3>2 DEF QuitInv, Open
  <2>5. CASE GateForCommit
    BY <2>5, ChannelFacts DEF GateForCommit, besidesCore, besidesQuit,
      pipeVars, deviceVars, Step, QuitInv, Open, CoreCommands
  <2>6. CASE CommitShutdown
    BY <2>6, ChannelFacts DEF CommitShutdown, besidesCore, besidesQuit,
      pipeVars, deviceVars, Raise, Step, QuitInv, Open, CoreCommands
  <2>7. CASE CancelPipelines
    BY <2>7, ChannelFacts DEF CancelPipelines, besidesCore, besidesQuit,
      pipeVars, deviceVars, Raise, Step, QuitInv, Open, CoreCommands
  <2>8. CASE CancelTokens
    BY <2>8, ChannelFacts DEF CancelTokens, besidesCore, besidesQuit,
      pipeVars, deviceVars, Step, QuitInv, Open, CoreCommands
  <2>9. CASE DrainPipeline
    BY <2>9, ChannelFacts DEF DrainPipeline, besidesCore, besidesQuit,
      pipeVars, deviceVars, Miss, QuitInv, Open, CoreCommands
  <2>10. CASE DrainMutations
    BY <2>10, ChannelFacts DEF DrainMutations, besidesCore, besidesQuit,
      pipeVars, deviceVars, Miss, QuitInv, Open, CoreCommands
  <2>11. CASE DrainCheckpoint
    BY <2>11, ChannelFacts DEF DrainCheckpoint, besidesCore, besidesQuit,
      pipeVars, deviceVars, Miss, QuitInv, Open, CoreCommands
  <2>12. CASE JoinSaver
    BY <2>12, ChannelFacts DEF JoinSaver, besidesCore, besidesQuit, pipeVars,
      deviceVars, Step, QuitInv, Open, CoreCommands
  <2>13. CASE Teardown
    BY <2>13, ChannelFacts DEF Teardown, besidesCore, besidesQuit, pipeVars,
      deviceVars, Step, QuitInv, Open, CoreCommands
  <2> QED
    BY <1>5, <2>1, <2>2, <2>3, <2>4, <2>5, <2>6, <2>7, <2>8, <2>9, <2>10,
      <2>11, <2>12, <2>13 DEF CoreStep
<1>6. CASE SaverActions
  BY <1>6, SaverFrame DEF QuitInv, Open, CoreCommands
<1> QED
  BY <1>1, <1>2, <1>3, <1>4, <1>5, <1>6, NextCases

(* What one turn of the drain has seen cannot come back.                    *)
LEMMA DrainNext == IInv /\ Next => DrainInv'
<1> SUFFICES ASSUME IInv, Next PROVE DrainInv'
    OBVIOUS
<1> USE DEF IInv
<1>1. CASE PipelineActions
  <2>1. ASSUME NEW p \in Pipelines, Start(p) PROVE DrainInv'
    BY <2>1 DEF Start, besidesPipeline, Go, quitVars, deviceVars, Open,
      DrainInv, QuitInv, OwnerInv, PipeTypes, FlagTypes, TypeOK, Claimed,
      Working, Serving
  <2>2. ASSUME NEW p \in Pipelines, Claim(p) PROVE DrainInv'
    BY <2>2 DEF Claim, besidesPipeline, Go, quitVars, deviceVars, Raise,
      DrainInv, QuitInv, OwnerInv, PipeTypes, FlagTypes, TypeOK, Open,
      Claimed, Working, Serving
  <2>3. ASSUME NEW p \in Pipelines, Recheck(p) PROVE DrainInv'
    BY <2>3 DEF Recheck, besidesPipeline, Go, quitVars, deviceVars, Lower,
      Open, DrainInv, QuitInv, OwnerInv, PipeTypes, FlagTypes, TypeOK,
      Claimed, Working, Serving
  <2>4. ASSUME NEW p \in Pipelines, LoadCommitted(p) PROVE DrainInv'
    BY <2>4 DEF LoadCommitted, besidesPipeline, Go, quitVars, deviceVars,
      Committed, DrainInv, QuitInv, OwnerInv, PipeTypes, FlagTypes, TypeOK,
      Open, Claimed, Working, Serving
  <2>5. ASSUME NEW p \in Pipelines, StoreCancelled(p) PROVE DrainInv'
    BY <2>5 DEF StoreCancelled, besidesPipeline, Go, quitVars, deviceVars,
      Raise, Lower, DrainInv, QuitInv, OwnerInv, PipeTypes, FlagTypes, TypeOK,
      Open, Claimed, Working, Serving
  <2>6. ASSUME NEW p \in Pipelines, Prepare(p) PROVE DrainInv'
    BY <2>6 DEF Prepare, besidesPipeline, Go, quitVars, deviceVars, Running,
      DrainInv, QuitInv, OwnerInv, PipeTypes, FlagTypes, TypeOK, Open,
      Claimed, Working, Serving
  <2>7. ASSUME NEW p \in Pipelines, Abandon(p) PROVE DrainInv'
    BY <2>7 DEF Abandon, besidesPipeline, Go, quitVars, deviceVars, DrainInv,
      QuitInv, OwnerInv, PipeTypes, FlagTypes, TypeOK, Open, Claimed, Working,
      Serving
  <2>8. ASSUME NEW p \in Pipelines, MarkDirty(p) PROVE DrainInv'
    BY <2>8 DEF MarkDirty, besidesPipeline, Go, quitVars, deviceVars,
      DrainInv, QuitInv, OwnerInv, PipeTypes, FlagTypes, TypeOK, Open,
      Claimed, Working, Serving
  <2>9. ASSUME NEW p \in Pipelines, FailOperation(p) PROVE DrainInv'
    BY <2>9 DEF FailOperation, besidesPipeline, Go, quitVars, deviceVars,
      Finish, Running, DrainInv, QuitInv, OwnerInv, PipeTypes, FlagTypes,
      TypeOK, Open, Claimed, Working, Serving
  <2>10. ASSUME NEW p \in Pipelines, EndRun(p) PROVE DrainInv'
    BY <2>10 DEF EndRun, besidesPipeline, Go, quitVars, deviceVars, DrainInv,
      QuitInv, OwnerInv, PipeTypes, FlagTypes, TypeOK, Open, Claimed, Working,
      Serving
  <2>11. ASSUME NEW p \in Pipelines, TakeGate(p) PROVE DrainInv'
    BY <2>11 DEF TakeGate, besidesPipeline, Go, quitVars, deviceVars,
      DrainInv, QuitInv, OwnerInv, PipeTypes, FlagTypes, TypeOK, Open,
      Claimed, Working, Serving
  <2>12. ASSUME NEW p \in Pipelines, Decide(p) PROVE DrainInv'
    BY <2>12 DEF Decide, besidesPipeline, Go, quitVars, deviceVars, Finish,
      Running, DrainInv, QuitInv, OwnerInv, PipeTypes, FlagTypes, TypeOK,
      Open, Claimed, Working, Serving
  <2>13. ASSUME NEW p \in Pipelines, CommitManifest(p) PROVE DrainInv'
    BY <2>13 DEF CommitManifest, besidesPipeline, Go, quitVars, deviceVars,
      DrainInv, QuitInv, OwnerInv, PipeTypes, FlagTypes, TypeOK, Open,
      Claimed, Working, Serving
  <2>14. ASSUME NEW p \in Pipelines, Publish(p) PROVE DrainInv'
    BY <2>14 DEF Publish, besidesPipeline, Go, quitVars, deviceVars, Finish,
      DrainInv, QuitInv, OwnerInv, PipeTypes, FlagTypes, TypeOK, Open,
      Claimed, Working, Serving
  <2>15. ASSUME NEW p \in Pipelines, Release(p) PROVE DrainInv'
    BY <2>15 DEF Release, besidesPipeline, Go, quitVars, deviceVars, Lower,
      DrainInv, QuitInv, OwnerInv, PipeTypes, FlagTypes, TypeOK, Open,
      Claimed, Working, Serving
  <2>16. ASSUME NEW p \in Pipelines, NEW o \in Ops, Admit(p, o) PROVE DrainInv'
    BY <2>16 DEF Admit, besidesPipeline, Go, quitVars, deviceVars, Finish,
      Committed, DrainInv, QuitInv, OwnerInv, PipeTypes, FlagTypes, TypeOK,
      Open, Claimed, Working, Serving
  <2>17. ASSUME NEW p \in Pipelines, Fault(p) PROVE DrainInv'
    BY <2>17 DEF Fault, besidesPipeline, quitVars, deviceVars, DrainInv,
      QuitInv, OwnerInv, PipeTypes, FlagTypes, TypeOK, Open, Claimed, Working,
      Serving
  <2> QED
    BY <1>1, <2>1, <2>2, <2>3, <2>4, <2>5, <2>6, <2>7, <2>8, <2>9, <2>10,
      <2>11, <2>12, <2>13, <2>14, <2>15, <2>16, <2>17 DEF PipelineActions,
      PipelineStep
<1>2. CASE RequestActions
  <2>1. ASSUME NEW m \in Mutators, TryAdmit(m) PROVE DrainInv'
    BY <2>1 DEF TryAdmit, besidesRequest, At, pipeVars, deviceVars, quitVars,
      flagVars, Open, Committed, DrainInv, QuitInv, OwnerInv, PipeTypes,
      FlagTypes, TypeOK, Claimed, Working, Serving
  <2>2. ASSUME NEW m \in Mutators, Count(m) PROVE DrainInv'
    BY <2>2 DEF Count, besidesRequest, At, pipeVars, deviceVars, quitVars,
      flagVars, DrainInv, QuitInv, OwnerInv, PipeTypes, FlagTypes, TypeOK,
      Open, Claimed, Working, Serving
  <2>3. ASSUME NEW m \in Mutators, RecheckMutation(m) PROVE DrainInv'
    BY <2>3 DEF RecheckMutation, besidesRequest, At, pipeVars, deviceVars,
      quitVars, flagVars, Open, DrainInv, QuitInv, OwnerInv, PipeTypes,
      FlagTypes, TypeOK, Claimed, Working, Serving
  <2>4. ASSUME NEW m \in Mutators, CancelPipeline(m) PROVE DrainInv'
    BY <2>4 DEF CancelPipeline, besidesRequest, At, pipeVars, deviceVars,
      quitVars, flagVars, Raise, DrainInv, QuitInv, OwnerInv, PipeTypes,
      FlagTypes, TypeOK, Open, Claimed, Working, Serving
  <2>5. ASSUME NEW m \in Mutators, Respond(m) PROVE DrainInv'
    BY <2>5 DEF Respond, besidesRequest, At, pipeVars, deviceVars, quitVars,
      flagVars, DrainInv, QuitInv, OwnerInv, PipeTypes, FlagTypes, TypeOK,
      Open, Claimed, Working, Serving
  <2>6. ASSUME NEW m \in Mutators, SeePipeline(m) PROVE DrainInv'
    BY <2>6 DEF SeePipeline, besidesRequest, At, pipeVars, deviceVars,
      quitVars, flagVars, DrainInv, QuitInv, OwnerInv, PipeTypes, FlagTypes,
      TypeOK, Open, Claimed, Working, Serving
  <2>7. ASSUME NEW m \in Mutators, RequestQuitRetry(m) PROVE DrainInv'
    BY <2>7 DEF RequestQuitRetry, besidesRequest, pipeVars, deviceVars,
      quitVars, flagVars, Raise, DrainInv, QuitInv, OwnerInv, PipeTypes,
      FlagTypes, TypeOK, Open, Claimed, Working, Serving
  <2>8. ASSUME NEW m \in Mutators, NEW o \in Ops, RequestCancel(m, o) PROVE DrainInv'
    BY <2>8 DEF RequestCancel, besidesRequest, pipeVars, deviceVars, quitVars,
      flagVars, DrainInv, QuitInv, OwnerInv, PipeTypes, FlagTypes, TypeOK,
      Open, Claimed, Working, Serving
  <2> QED
    BY <1>2, <2>1, <2>2, <2>3, <2>4, <2>5, <2>6, <2>7, <2>8 DEF
      RequestActions, Admission
<1>3. CASE DeviceActions
  BY <1>3, DeviceFrame DEF DrainInv, QuitInv, OwnerInv, PipeTypes, FlagTypes,
    TypeOK, Open, Claimed, Working, Serving
<1>4. CASE TrayActions
  BY <1>4, TrayFrame DEF DrainInv, QuitInv, OwnerInv, PipeTypes, FlagTypes,
    TypeOK, Open, Claimed, Working, Serving
<1>5. CASE CoreStep
  <2>1. CASE CloseAdmission
    BY <2>1 DEF CloseAdmission, besidesCore, besidesQuit, pipeVars,
      deviceVars, Raise, Received, DrainInv, QuitInv, OwnerInv, PipeTypes,
      FlagTypes, TypeOK, Open, Claimed, Working, Serving
  <2>2. CASE BeginFence
    BY <2>2 DEF BeginFence, besidesCore, besidesQuit, pipeVars, deviceVars,
      Step, DrainInv, QuitInv, OwnerInv, PipeTypes, FlagTypes, TypeOK, Open,
      Claimed, Working, Serving
  <2>3. CASE BeginCommit
    BY <2>3 DEF BeginCommit, besidesCore, besidesQuit, pipeVars, deviceVars,
      Received, DrainInv, QuitInv, OwnerInv, PipeTypes, FlagTypes, TypeOK,
      Open, Claimed, Working, Serving
  <2>4. CASE GateForCommit
    BY <2>4 DEF GateForCommit, besidesCore, besidesQuit, pipeVars, deviceVars,
      Step, DrainInv, QuitInv, OwnerInv, PipeTypes, FlagTypes, TypeOK, Open,
      Claimed, Working, Serving
  <2>5. CASE CommitShutdown
    BY <2>5 DEF CommitShutdown, besidesCore, besidesQuit, pipeVars,
      deviceVars, Raise, Step, DrainInv, QuitInv, OwnerInv, PipeTypes,
      FlagTypes, TypeOK, Open, Claimed, Working, Serving
  <2>6. CASE CancelPipelines
    BY <2>6 DEF CancelPipelines, besidesCore, besidesQuit, pipeVars,
      deviceVars, Raise, Step, DrainInv, QuitInv, OwnerInv, PipeTypes,
      FlagTypes, TypeOK, Open, Claimed, Working, Serving
  <2>7. CASE CancelTokens
    BY <2>7 DEF CancelTokens, besidesCore, besidesQuit, pipeVars, deviceVars,
      Step, DrainInv, QuitInv, OwnerInv, PipeTypes, FlagTypes, TypeOK, Open,
      Claimed, Working, Serving
  <2>8. CASE DrainPipeline
    BY <2>8 DEF DrainPipeline, besidesCore, besidesQuit, pipeVars, deviceVars,
      Miss, DrainInv, QuitInv, OwnerInv, PipeTypes, FlagTypes, TypeOK, Open,
      Claimed, Working, Serving
  <2>9. CASE DrainMutations
    BY <2>9 DEF DrainMutations, besidesCore, besidesQuit, pipeVars,
      deviceVars, Miss, DrainInv, QuitInv, OwnerInv, PipeTypes, FlagTypes,
      TypeOK, Open, Claimed, Working, Serving
  <2>10. CASE DrainCheckpoint
    BY <2>10 DEF DrainCheckpoint, besidesCore, besidesQuit, pipeVars,
      deviceVars, Miss, DrainInv, QuitInv, OwnerInv, PipeTypes, FlagTypes,
      TypeOK, Open, Claimed, Working, Serving
  <2>11. CASE JoinSaver
    BY <2>11 DEF JoinSaver, besidesCore, besidesQuit, pipeVars, deviceVars,
      Step, DrainInv, QuitInv, OwnerInv, PipeTypes, FlagTypes, TypeOK, Open,
      Claimed, Working, Serving
  <2>12. CASE Teardown
    BY <2>12 DEF Teardown, besidesCore, besidesQuit, pipeVars, deviceVars,
      Step, DrainInv, QuitInv, OwnerInv, PipeTypes, FlagTypes, TypeOK, Open,
      Claimed, Working, Serving
  <2>13. CASE FailFence
    BY <2>13 DEF FailFence, besidesCore, besidesQuit, pipeVars, deviceVars,
      Lower, DrainInv, QuitInv, OwnerInv, PipeTypes, FlagTypes, TypeOK, Open,
      Claimed, Working, Serving
  <2> QED
    BY <1>5, <2>1, <2>2, <2>3, <2>4, <2>5, <2>6, <2>7, <2>8, <2>9, <2>10,
      <2>11, <2>12, <2>13 DEF CoreStep
<1>6. CASE SaverActions
  BY <1>6, SaverFrame DEF DrainInv, QuitInv, OwnerInv, PipeTypes, FlagTypes,
    TypeOK, Open, Claimed, Working, Serving
<1> QED
  BY <1>1, <1>2, <1>3, <1>4, <1>5, <1>6, NextCases

(* A removal misses no running operation of its device.                     *)
LEMMA RemovalNext == IInv /\ Next => RemovalInv'
<1> SUFFICES ASSUME IInv, Next PROVE RemovalInv'
    OBVIOUS
<1> USE DEF IInv
<1>1. CASE PipelineActions
  <2>1. ASSUME NEW p \in Pipelines, FailOperation(p) PROVE RemovalInv'
    BY <2>1 DEF FailOperation, besidesPipeline, Go, quitVars, deviceVars,
      Finish, Running, RemovalInv, OpTypes, TypeOK
  <2>2. ASSUME NEW p \in Pipelines, Decide(p) PROVE RemovalInv'
    BY <2>2 DEF Decide, besidesPipeline, Go, quitVars, deviceVars, Finish,
      Running, RemovalInv, OpTypes, TypeOK
  <2>3. ASSUME NEW p \in Pipelines, Publish(p) PROVE RemovalInv'
    BY <2>3 DEF Publish, besidesPipeline, Go, quitVars, deviceVars, Finish,
      RemovalInv, OpTypes, TypeOK, Running
  <2>4. ASSUME NEW p \in Pipelines, NEW o \in Ops, Admit(p, o) PROVE RemovalInv'
    BY <2>4 DEF Admit, besidesPipeline, Go, quitVars, deviceVars, Finish,
      Committed, RemovalInv, OpTypes, TypeOK, Running
  <2>5. ASSUME NEW p \in Pipelines,
              Start(p) \/ Fault(p) \/ Claim(p) \/ Recheck(p) \/
                LoadCommitted(p) \/ StoreCancelled(p) \/ Prepare(p) \/
                Abandon(p) \/ MarkDirty(p) \/ EndRun(p) \/ TakeGate(p) \/
                CommitManifest(p) \/ Release(p)
         PROVE  RemovalInv'
    BY <2>5 DEF Start, besidesPipeline, quitVars, deviceVars, Fault, Claim,
      Raise, Recheck, Lower, LoadCommitted, StoreCancelled, Prepare, Abandon,
      MarkDirty, EndRun, TakeGate, CommitManifest, Release, RemovalInv,
      OpTypes, TypeOK, Running
  <2> QED
    BY <1>1, <2>1, <2>2, <2>3, <2>4, <2>5 DEF PipelineActions, PipelineStep
<1>2. CASE RequestActions
  BY <1>2, RequestFrame DEF RemovalInv, OpTypes, TypeOK, Running
<1>3. CASE DeviceActions
  <2>1. ASSUME NEW d \in Devices, Remove(d) PROVE RemovalInv'
    BY <2>1 DEF Remove, besidesDevices, flagVars, pipeVars, quitVars,
      RemovalInv, OpTypes, TypeOK, Running
  <2>2. ASSUME NEW d \in Devices, Reconnect(d) PROVE RemovalInv'
    BY <2>2 DEF Reconnect, besidesDevices, flagVars, pipeVars, quitVars,
      RemovalInv, OpTypes, TypeOK, Running
  <2>3. CASE Scan
    BY <2>3 DEF Scan, besidesDevices, flagVars, pipeVars, quitVars, Running,
      RemovalInv, OpTypes, TypeOK
  <2>4. ASSUME NEW o \in Ops, CancelDoomed(o) PROVE RemovalInv'
    BY <2>4 DEF CancelDoomed, besidesDevices, flagVars, pipeVars, quitVars,
      RemovalInv, OpTypes, TypeOK, Running
  <2>5. ASSUME NEW o \in Ops, FailDoomed(o) PROVE RemovalInv'
    BY <2>5 DEF FailDoomed, besidesDevices, flagVars, pipeVars, quitVars,
      Finish, Running, RemovalInv, OpTypes, TypeOK
  <2> QED
    BY <1>3, <2>1, <2>2, <2>3, <2>4, <2>5 DEF DeviceActions, RemovalStep
<1>4. CASE TrayActions
  BY <1>4, TrayFrame DEF RemovalInv, OpTypes, TypeOK, Running
<1>5. CASE CoreStep
  BY <1>5, CoreFrame DEF RemovalInv, OpTypes, TypeOK, Running
<1>6. CASE SaverActions
  BY <1>6, SaverFrame DEF RemovalInv, OpTypes, TypeOK, Running
<1> QED
  BY <1>1, <1>2, <1>3, <1>4, <1>5, <1>6, NextCases

(***************************************************************************)
(* The theorems.                                                           *)
(***************************************************************************)

(* IInv is inductive.                                                      *)
LEMMA InitIInv == Init => IInv
<1> SUFFICES ASSUME Init PROVE IInv
    OBVIOUS
<1>1. TypeOK
  BY DEF Init, TypeOK, FlagTypes, OpTypes, PipeTypes, DeviceTypes, QuitTypes, Flags,
    Statuses, PipelineAt, Claimed, Working, Serving, RequestAt, Trackers, Phases,
    Checkpoints, TrayAt, CoreAt, Savers, CoreCommands
<1>2. OwnerInv /\ GateInv
  BY DEF Init, OwnerInv, GateInv, Running, Claimed, Working, Serving, Finalizing
<1>3. OutcomeInv /\ RemovalInv
  BY DEF Init, OutcomeInv, RemovalInv, CancelReaches, Committed, Running, Finalizing
<1>4. QuitInv /\ DrainInv
  BY DEF Init, QuitInv, DrainInv
<1> QED
  BY <1>1, <1>2, <1>3, <1>4 DEF IInv

LEMMA NextIInv == IInv /\ [Next]_vars => IInv'
<1> SUFFICES ASSUME IInv, [Next]_vars PROVE IInv'
    OBVIOUS
<1>1. CASE Next
  <2>1. TypeOK'
    BY <1>1, FlagTypesNext, OpTypesNext, PipeTypesNext, DeviceTypesNext, QuitTypesNext
    DEF IInv, TypeOK
  <2> QED
    BY <1>1, <2>1, OwnerNext, GateNext, OutcomeNext, QuitNext, DrainNext, RemovalNext
    DEF IInv
<1>2. CASE UNCHANGED vars
  <2> USE <1>2 DEF IInv, vars, flagVars, opVars, pipeVars, deviceVars, quitVars
  <2>1. TypeOK'
    BY DEF TypeOK, FlagTypes, OpTypes, PipeTypes, DeviceTypes, QuitTypes
  <2>2. OwnerInv' /\ GateInv'
    BY DEF OwnerInv, GateInv, Running
  <2>3. OutcomeInv' /\ RemovalInv'
    BY DEF OutcomeInv, RemovalInv, CancelReaches, Committed, Running
  <2>4. QuitInv' /\ DrainInv'
    BY DEF QuitInv, DrainInv, Open
  <2> QED
    BY <2>1, <2>2, <2>3, <2>4
<1> QED
  BY <1>1, <1>2

THEOREM Inductive == Spec => []IInv
  BY InitIInv, NextIInv, PTL DEF Spec

(* Every variable has its type in every reachable state.                   *)
THEOREM TypeCorrect == Spec => []TypeOK
<1>1. IInv => TypeOK
  BY DEF IInv
<1> QED
  BY <1>1, Inductive, PTL

(* One pipeline works at a time, and no operation is left running by it.   *)
THEOREM OneAtATime == Spec => []OneSync
<1>1. IInv => OneSync
  BY DEF IInv, OwnerInv, OneSync, Claimed, Working
<1> QED
  BY <1>1, Inductive, PTL

(* A drain that has been waited for has nothing left to wait for: no       *)
(* pipeline is at work, hence no operation runs, and no request is.        *)
THEOREM DrainFinal == Spec => []DrainIsFinal
<1>1. IInv => DrainIsFinal
  BY DEF IInv, OwnerInv, DrainInv, DrainIsFinal, Drained, Working
<1> QED
  BY <1>1, Inductive, PTL

(* No operation outlives a committed Quit without its token set.           *)
THEOREM CancelSafe == Spec => []CancelReaches
<1>1. IInv => CancelReaches
  BY DEF IInv, OutcomeInv
<1> QED
  BY <1>1, Inductive, PTL

(* No operation runs on for a device that is gone.                         *)
THEOREM RemovalSafe == Spec => []RemovedNotRunning
<1>1. IInv => RemovedNotRunning
  BY DEF IInv, RemovalInv, RemovedNotRunning
<1> QED
  BY <1>1, Inductive, PTL

(* A spent launch generation is spent once, behind a closed admission.     *)
THEOREM FenceSafe == Spec => []FenceHolds
<1>1. IInv => FenceHolds
  BY DEF IInv, QuitInv, FenceHolds
<1> QED
  BY <1>1, Inductive, PTL

(* Only Publish completes an operation, and it holds the gate for an       *)
(* operation whose token was not set, so the shutdown is not committed.    *)
THEOREM OutcomeSafe == Spec => OutcomeBoundary
<1>1. IInv /\ [Next]_vars =>
        [\A o \in Ops : status[o] # "complete" /\ status'[o] = "complete" => ~Committed]_vars
  <2> SUFFICES ASSUME IInv, Next, NEW o \in Ops, status[o] # "complete",
                      status'[o] = "complete"
               PROVE  ~Committed
    OBVIOUS
  <2> USE DEF IInv, TypeOK, OpTypes, PipeTypes
  <2>1. ASSUME NEW p \in Pipelines, Start(p) \/ Fault(p) \/ PipelineStep(p)
        PROVE  ~Committed
    <3>1. CASE FailOperation(p)
      BY <3>1 DEF FailOperation, Finish, Running, Serving, OutcomeInv,
        Finalizing
    <3>2. CASE Decide(p)
      BY <3>2 DEF Decide, Finish, Running, Serving, OutcomeInv, Finalizing
    <3>3. CASE Publish(p)
      BY <3>3 DEF Publish, Finish, Running, Serving, OutcomeInv, Finalizing
    <3>4. ASSUME NEW r \in Ops, Admit(p, r) PROVE ~Committed
      BY <3>4 DEF Admit, Finish, Serving, OutcomeInv, Finalizing
    <3>5. CASE Start(p) \/ Fault(p) \/ Claim(p) \/ Recheck(p) \/
                      LoadCommitted(p) \/ StoreCancelled(p) \/ Prepare(p) \/
                      Abandon(p) \/ MarkDirty(p) \/ EndRun(p) \/ TakeGate(p)
                      \/ CommitManifest(p) \/ Release(p)
      BY <3>5 DEF Start, besidesPipeline, Fault, Claim, Raise, Recheck, Lower,
        LoadCommitted, StoreCancelled, Prepare, Abandon, MarkDirty, EndRun,
        TakeGate, CommitManifest, Release
    <3> QED
      BY <2>1, <3>1, <3>2, <3>3, <3>4, <3>5 DEF PipelineStep
  <2>2. CASE DeviceActions
    <3>1. ASSUME NEW r \in Ops, FailDoomed(r) PROVE ~Committed
      BY <3>1 DEF FailDoomed, Finish, Running
    <3>2. CASE Scan \/ (\E r \in Ops : CancelDoomed(r)) \/ \E d \in Devices : Remove(d) \/ Reconnect(d)
      BY <3>2 DEF Scan, CancelDoomed, Remove, Reconnect
    <3> QED
      BY <2>2, <3>1, <3>2 DEF DeviceActions, RemovalStep
  <2>3. CASE RequestActions \/ TrayActions \/ CoreStep \/ SaverActions
    BY <2>3, RequestFrame, TrayFrame, CoreFrame, SaverFrame
  <2> QED
    BY <2>1, <2>2, <2>3, NextCases DEF PipelineActions
<1> QED
  BY <1>1, Inductive, PTL DEF Spec, OutcomeBoundary

(* Whoever writes an outcome finds the operation running.                  *)
THEOREM OutcomeFinal == Spec => TerminalSticks
<1>1. IInv /\ [Next]_vars =>
        [\A o \in Ops : status[o] \notin {"absent", "running"} => status'[o] = status[o]]_vars
  <2> SUFFICES ASSUME IInv, Next, NEW o \in Ops, status[o] \notin {"absent", "running"}
               PROVE  status'[o] = status[o]
    OBVIOUS
  <2> USE DEF IInv, TypeOK, OpTypes, PipeTypes
  <2>1. ASSUME NEW p \in Pipelines, Start(p) \/ Fault(p) \/ PipelineStep(p)
        PROVE  status'[o] = status[o]
    <3>1. CASE FailOperation(p)
      BY <3>1 DEF FailOperation, Finish, Running, Serving, OutcomeInv,
        Finalizing
    <3>2. CASE Decide(p)
      <4>1. CASE job[p] = o
        BY <3>2, <4>1 DEF Decide, Finish, Running
      <4>2. CASE job[p] # o
        BY <3>2, <4>2 DEF Decide, Finish
      <4> QED
        BY <4>1, <4>2
    <3>3. CASE Publish(p)
      BY <3>3 DEF Publish, Finish, Running, Serving, OutcomeInv, Finalizing
    <3>4. ASSUME NEW r \in Ops, Admit(p, r) PROVE status'[o] = status[o]
      BY <3>4 DEF Admit, Finish, Serving, OutcomeInv, Finalizing
    <3>5. CASE Start(p) \/ Fault(p) \/ Claim(p) \/ Recheck(p) \/
                      LoadCommitted(p) \/ StoreCancelled(p) \/ Prepare(p) \/
                      Abandon(p) \/ MarkDirty(p) \/ EndRun(p) \/ TakeGate(p)
                      \/ CommitManifest(p) \/ Release(p)
      BY <3>5 DEF Start, besidesPipeline, Fault, Claim, Raise, Recheck, Lower,
        LoadCommitted, StoreCancelled, Prepare, Abandon, MarkDirty, EndRun,
        TakeGate, CommitManifest, Release
    <3> QED
      BY <2>1, <3>1, <3>2, <3>3, <3>4, <3>5 DEF PipelineStep
  <2>2. CASE DeviceActions
    <3>1. ASSUME NEW r \in Ops, FailDoomed(r) PROVE status'[o] = status[o]
      BY <3>1 DEF FailDoomed, Finish, Running
    <3>2. CASE Scan \/ (\E r \in Ops : CancelDoomed(r)) \/ \E d \in Devices : Remove(d) \/ Reconnect(d)
      BY <3>2 DEF Scan, CancelDoomed, Remove, Reconnect
    <3> QED
      BY <2>2, <3>1, <3>2 DEF DeviceActions, RemovalStep
  <2>3. CASE RequestActions \/ TrayActions \/ CoreStep \/ SaverActions
    BY <2>3, RequestFrame, TrayFrame, CoreFrame, SaverFrame
  <2> QED
    BY <2>1, <2>2, <2>3, NextCases DEF PipelineActions
<1> QED
  BY <1>1, Inductive, PTL DEF Spec, TerminalSticks

(* The two together: the outcome of every operation is decided once, and   *)
(* never as complete after the commit of a shutdown.                       *)
THEOREM OutcomesDecided == Spec => OutcomesFinal
BY OutcomeSafe, OutcomeFinal DEF OutcomesFinal
=============================================================================
