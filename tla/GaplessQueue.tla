---------------------------- MODULE GaplessQueue ----------------------------
(***************************************************************************)
(* What gapless playback promises about the queue, without saying how: the *)
(* listener hears the queue's current track; when it ends he hears, with   *)
(* no gap, the track the queue names next; from that crossing until the    *)
(* queue has advanced past it the queue cannot be edited. The promise ends *)
(* when the output is given up ("over"): another output then starts from   *)
(* the queue's current track.                                              *)
(***************************************************************************)
EXTENDS Naturals, Sequences

VARIABLES
  cur, upcoming,  \* the queue's current track and the ones after it
  crossed,        \* the listener is in the next track, the queue not yet
  over            \* this output is no longer the one in use

vars == <<cur, upcoming, crossed, over>>

Init ==
  /\ cur \in Nat /\ upcoming \in Seq(Nat)
  /\ crossed = FALSE /\ over = FALSE

Edit ==
  /\ ~over /\ ~crossed
  /\ upcoming' \in Seq(Nat)
  /\ UNCHANGED <<cur, crossed, over>>

Cross ==
  /\ ~over /\ ~crossed /\ upcoming # <<>>
  /\ crossed' = TRUE
  /\ UNCHANGED <<cur, upcoming, over>>

Advance ==
  /\ ~over /\ crossed
  /\ cur' = Head(upcoming) /\ upcoming' = Tail(upcoming)
  /\ crossed' = FALSE
  /\ UNCHANGED over

(* The output is given up, or was: the queue goes on without it.            *)
GiveUp ==
  /\ over' = TRUE /\ crossed' = FALSE
  /\ cur' \in Nat /\ upcoming' \in Seq(Nat)

Next == Edit \/ Cross \/ Advance \/ GiveUp

Spec == Init /\ [][Next]_vars
=============================================================================
