--------------------------- MODULE PlaybackSettles ---------------------------
(***************************************************************************)
(* What the player does once its users stop asking: the progress of        *)
(* PlaybackSystem under fairness. "quiet" says that no more commands come. *)
(*                                                                         *)
(* Fairness is that of the code's threads: the owner polls its events and  *)
(* the presented boundary every 25 ms, an admitted effect is dispatched by *)
(* the task that admitted it, a preparation has a deadline, an installed   *)
(* pipeline's worker opens the output or fails, and a submitted boundary   *)
(* is heard. Nothing is asked of faults, checkpoints and progress.         *)
(***************************************************************************)
EXTENDS PlaybackSystem

VARIABLE quiet

Asking == \E c \in Asked, f \in Disk : Command(c, f)
Absorbing == \E f \in Disk : TakeEvent(f)
Adopting == \E f \in Disk : TakeBoundary(f)
Saving == \E f \in Disk : PeriodicCheckpoint(f)
Preparing == Install \/ FailPreparation

QuietInit == Init /\ quiet = FALSE

FallQuiet == ~quiet /\ quiet' = TRUE /\ UNCHANGED vars
QuietNext ==
  \/ FallQuiet
  \/ UNCHANGED quiet /\ \/ ~quiet /\ Asking
                        \/ Absorbing \/ Adopting \/ Saving \/ TakeProgress
                        \/ Preparation \/ Worker \/ Lifecycle

(* Weak fairness, spelled out with the guards where TLC would evaluate      *)
(* ENABLED of the action far more slowly.                                   *)
Fairness ==
  /\ []<>(mail = <<>>) \/ []<><<Absorbing>>_vars
  /\ []<>(~Presented(World)) \/ []<><<Adopting>>_vars
  /\ []<>(~(Running /\ effect # NoTask)) \/ []<><<Dispatch>>_vars
  /\ []<>(~(Running /\ task # NoTask /\ Settled)) \/ []<><<Preparing>>_vars
  /\ WF_vars(Open)
  /\ []<>(~(pipe # NoPipe /\ pipe.next = "claimed")) \/ []<><<Hear>>_vars

QuietSpec == QuietInit /\ [][QuietNext]_<<vars, quiet>> /\ Fairness

(* A seek or a Back that was admitted is settled one way or the other: it   *)
(* does not stay pending for ever, whatever pipeline fails or is superseded *)
(* in the meantime.  A disk that refuses the write of a Back breaks it: the *)
(* seek that was pending is superseded, and nobody says so.                 *)
QuietSettles == quiet ~> [](play.seek = "no" /\ ~play.back)

(* The player does not go on claiming to play over a pipeline that is gone  *)
(* with nothing on its way to replace it or to say so.                      *)
NoPhantom ==
  quiet ~> [](gate => \/ effect # NoTask \/ task # NoTask \/ mail # <<>>
                      \/ Reusable(World))
=============================================================================
