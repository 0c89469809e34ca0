----------------------------- MODULE MCPipelines ----------------------------
(***************************************************************************)
(* What lives around the audio pipeline, in one run: the gapless handoff   *)
(* inside one generation (the queue <<1, 2, 3>>, appended tracks 4, 5...), *)
(* the selection of the endpoint across generations, the reporter that tells a *)
(* server how far its book was heard, and the source the decoder reads     *)
(* from.  "who" names the one that moves; they share no variable and are   *)
(* not composed.                                                           *)
(***************************************************************************)
EXTENDS SuccessorHandoff, TLC

VARIABLE who
VARIABLES plugged, seen, scan, file, queued, writing, newest, result, chooser, tasks, installed,
  retiring, events, left
VARIABLES player, row, timing, tried, pend, jobs, shelf, rep, wanted, past, room
VARIABLES served, src, win, dec, cancel, faults

(* Two endpoints, and what disturbs them: a few things of every kind, or   *)
(* transport controls alone.                                               *)
EndPoints == {"a", "b"}
Disturbed(select, change, control, fault, all) ==
  [select |-> select, change |-> change, control |-> control, fault |-> fault, all |-> all]
Out == INSTANCE OutputSelection
         WITH Outputs <- EndPoints, Default <- "a",
              Limits <- {Disturbed(2, 1, 2, 1, 3), Disturbed(0, 0, 4, 0, 4)},
              owner <- chooser, pipe <- installed, old <- retiring
outVars == <<plugged, seen, scan, file, queued, writing, newest, result, chooser, tasks, installed,
  retiring, events, left>>

(* A book of two files of length 2, a shelf where nobody or somebody else  *)
(* listened, and three ways to be disturbed: by controls, by a bit of      *)
(* everything while music plays, by a second book.                         *)
Asked(play, control, edit, fault, rescan, all, music) ==
  [play |-> play, control |-> control, edit |-> edit, fault |-> fault, shelf |-> rescan,
   all |-> all, look |-> 1, music |-> music]
Progress(whole, kept) == [whole |-> whole, fin |-> FALSE, kept |-> kept]
Books == INSTANCE BookProgress
           WITH PartLen <- 2, Slack <- 1, BackLimit <- 0, Lasts <- {1, 3},
                Kept <- {Progress(0, FALSE), Progress(3, TRUE)},
                Limits <- {Asked(1, 2, 0, 1, 0, 3, FALSE), Asked(1, 1, 1, 1, 1, 2, TRUE),
                           Asked(2, 1, 0, 0, 0, 2, FALSE)}
bookVars == <<player, row, timing, tried, pend, jobs, shelf, rep, wanted, past, room>>

(* Two files of three pieces, a window of two, one failure.                *)
Source == INSTANCE HttpSource
            WITH Size <- <<3, 3>>, Window <- 2, MaxPiece <- 2, Looks <- 4, MaxFaults <- 1
srcVars == <<served, src, win, dec, cancel, faults>>

Only(name) == who = name
(* The file is missing, invalid, or names the other endpoint, which the    *)
(* machine may lack.                                                       *)
OutStart ==
  /\ Out!Init /\ file # "a"
  /\ plugged = EndPoints \/ (plugged = {"a"} /\ file = "b")
  /\ left.select = 0 => plugged = EndPoints /\ file = "b"
OutIdle == Out!Init /\ plugged = {} /\ file = "a" /\ left.all = 4
(* The file is shorter than the server says, or, in one of the three ways, *)
(* longer.                                                                 *)
BookStart == Books!Init /\ (player.real = 1 \/ room.edit = 1)
BookIdle == Books!Init /\ player.real = 1 /\ room.control = 2

PipeInit ==
  /\ Init /\ Source!Init
  /\ \/ (Only("handoff") \/ Only("source")) /\ OutIdle /\ BookIdle
     \/ Only("outputs") /\ OutStart /\ BookIdle
     \/ Only("books") /\ OutIdle /\ BookStart
PipeNext ==
  /\ UNCHANGED who
  /\ \/ Only("handoff") /\ Next /\ UNCHANGED <<outVars, bookVars, srcVars>>
     \/ Only("outputs") /\ Out!Next /\ UNCHANGED <<vars, bookVars, srcVars>>
     \/ Only("books") /\ Books!Next /\ UNCHANGED <<vars, outVars, srcVars>>
     \/ Only("source") /\ Source!Next /\ UNCHANGED <<vars, outVars, bookVars>>

(* The fairness of each, asked of the one that moves.                      *)
HandoffFair ==
  /\ WF_vars(Only("handoff") /\ OwnerTurn)
  /\ WF_vars(Only("handoff") /\ (EditFence \/ EditWrite \/ PauseGate \/ PauseFreeze \/ PauseEnd))
  /\ WF_vars(Only("handoff") /\ WkNext)
  /\ WF_vars(Only("handoff") /\ (CbClaim \/ CbRecord))
  /\ WF_vars(Only("handoff") /\ DevicePlays)
OutputsFair ==
  /\ WF_outVars(Only("outputs") /\ Out!ScanBegins) /\ WF_outVars(Only("outputs") /\ Out!ScanEnds)
  /\ WF_outVars(Only("outputs") /\ Out!Saving) /\ WF_outVars(Only("outputs") /\ Out!Starting)
  /\ WF_outVars(Only("outputs") /\ Out!Round) /\ WF_outVars(Only("outputs") /\ Out!Reconcile)
  /\ WF_outVars(Only("outputs") /\ Out!Hear)
  /\ WF_outVars(Only("outputs") /\ Out!PipeStep(installed))
  /\ WF_outVars(Only("outputs") /\ Out!PipeStep(retiring))
BooksFair == WF_bookVars(Only("books") /\ Books!Report /\ UNCHANGED wanted)
PipeSpec ==
  /\ PipeInit /\ [][PipeNext]_<<who, vars, outVars, bookVars, srcVars>>
  /\ HandoffFair /\ OutputsFair /\ BooksFair

-----------------------------------------------------------------------------
(* The endpoint: what sounds is what was chosen, the choice survives, and  *)
(* what is shown as active is held.  The book: the row on disk belongs to  *)
(* what is current, the server is told what was heard and not more, and an *)
(* album is queued only while it is still wanted.  The source: a track     *)
(* that counts as decoded to its end was read to its end, of one file.     *)
PartsSafe ==
  /\ Only("outputs") => Out!TypeOK /\ Out!OutputsSafe
  /\ Only("books") => Books!BooksSafe
  /\ Only("source") => Source!SourceSafe

(* Nothing hangs: a claimed boundary is adopted or given up, and a switch  *)
(* is decided and brings the sound back where it is still wanted; the last *)
(* place in a book reaches the server.                                     *)
Waits == Busy \/ Out!Undecided \/ Books!FinalDue
WaitIsOver ==
  \/ Only("handoff") /\ GoesOn
  \/ Only("outputs") /\ ~Out!Undecided
  \/ Only("books") /\ (~Books!FinalDue \/ Books!FinalTold)
NothingHangs ==
  /\ Waits ~> WaitIsOver
  /\ Out!Undecided /\ chooser.intent = "playing" ~> Out!SoundIsBack
=============================================================================
