----------------------------- MODULE MCPlayback -----------------------------
(***************************************************************************)
(* The player under fairness, and by themselves the two outputs that sound *)
(* for it: the one that takes back what was not played (Windows) and the   *)
(* one behind a Pulse server (Linux).  "who" names the one that moves;     *)
(* they share no variable and are not composed.                            *)
(***************************************************************************)
EXTENDS PlaybackSettles

VARIABLE who
VARIABLES line, cb, pcm, tail, replay, count, mark, shut, place, until, worker, holder, hist
VARIABLES stream, ledger, slots, sent, bound, receipt, feeder, shown, let, cancel, request, asker,
  past
tailVars == <<line, cb, pcm, tail, replay, count, mark, shut, place, until, worker, holder, hist>>
pulseVars ==
  <<stream, ledger, slots, sent, bound, receipt, feeder, shown, let, cancel, request, asker, past>>

(* Two tracks and two pauses with a buffer of two frames; three tracks, a  *)
(* pause and a decoder that is late once, with a buffer of one.            *)
Two == INSTANCE OutputTail
         WITH Tracks <- <<2, 1>>, Frames <- 2, TailCap <- 3, MaxPauses <- 2, MaxGaps <- 0,
              gate <- shut, owner <- holder
Three == INSTANCE OutputTail
           WITH Tracks <- <<1, 2, 1>>, Frames <- 1, TailCap <- 3, MaxPauses <- 1, MaxGaps <- 1,
                gate <- shut, owner <- holder
(* Two tracks, the first from its second frame; two pauses, one of which   *)
(* may go unanswered, and a decoder that is late once.                     *)
Pulse == INSTANCE PulseOutput
           WITH Tracks <- <<3, 2>>, Start <- 1, Frames <- 2, Chunk <- 2, Target <- 2,
                LedgerCap <- 5, MaxPauses <- 2, MaxGaps <- 1,
                pcm <- slots, worker <- feeder, place <- shown, gate <- let, owner <- asker,
                hist <- past

Only(name) == who = name
OutputsInit ==
  /\ who \in {"owner", "two", "three", "pulse"}
  /\ QuietInit /\ Two!Init /\ Pulse!Init
(* An output comes to rest; the owner never may.                           *)
OutputsNext ==
  /\ UNCHANGED who
  /\ \/ Only("owner") /\ QuietNext /\ UNCHANGED <<tailVars, pulseVars>>
     \/ Only("two") /\ Two!Next /\ UNCHANGED <<vars, quiet, pulseVars>>
     \/ Only("three") /\ Three!Next /\ UNCHANGED <<vars, quiet, pulseVars>>
     \/ Only("pulse") /\ Pulse!Next /\ UNCHANGED <<vars, quiet, tailVars>>
     \/ ~Only("owner") /\ UNCHANGED <<vars, quiet, tailVars, pulseVars>>
OutputsSpec ==
  OutputsInit /\ [][OutputsNext]_<<who, vars, quiet, tailVars, pulseVars>> /\ Fairness

-----------------------------------------------------------------------------
(* What was decoded is heard once and in order, through pauses that throw  *)
(* away what the device holds; a pause keeps the place where the listener  *)
(* is; an answered pause is silent; a track is named current when all      *)
(* before it was heard, and a pipeline ends when all of it was.            *)
OutputSafe ==
  /\ Only("two") => Two!TypeOK /\ Two!TailSafe
  /\ Only("three") => Three!TypeOK /\ Three!TailSafe
  /\ Only("pulse") => Pulse!TypeOK /\ Pulse!PulseSafe
=============================================================================
