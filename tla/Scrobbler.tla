------------------------------ MODULE Scrobbler ------------------------------
(***************************************************************************)
(* Plays made on a device are reported to Jellyfin when it is plugged in.  *)
(* Every detection spawns a task that reads the log of the device, goes    *)
(* through its entries, reports each play in two requests and records it   *)
(* in scrobble_history.  Nothing keeps two tasks of one device apart, and  *)
(* the log is never shortened.                                             *)
(***************************************************************************)
EXTENDS Naturals, Sequences, FiniteSets

CONSTANTS
  Plays,      \* what the user plays in turn: the key of scrobble_history
              \* (names and second), whether it was listened to, and
              \* whether the manifest or the server knows the track
  Tasks,      \* detections of the device
  MaxSlips    \* requests, reads and writes that fail, and crashes

ASSUME TasksAssumption ==
  /\ Plays \in Seq([key : STRING, liked : BOOLEAN, listed : BOOLEAN, known : BOOLEAN])
  /\ IsFiniteSet(Tasks) /\ MaxSlips \in Nat

VARIABLES
  log,        \* how many plays are in the log
  history,    \* scrobble_history: the keys that are recorded
  task,       \* the tasks
  played,     \* what the server counts, per key
  debts,      \* history: what went wrong with a play, per key
  faults

Keys == {Plays[i].key : i \in 1 .. Len(Plays)}
Unborn == [at |-> "unborn", total |-> 0, said |-> <<>>]
scrobVars == <<log, history, task, played, debts, faults>>

ScrobInit ==
  /\ log = 0 /\ history = {} /\ task = [t \in Tasks |-> Unborn]
  /\ played = [k \in Keys |-> 0] /\ debts = [k \in Keys |-> 0] /\ faults = 0

Slip == faults < MaxSlips /\ faults' = faults + 1
Owe(k) == debts' = [debts EXCEPT ![k] = @ + 1]
TaskAt(t, label) == task[t].at = label
TaskTo(t, label) == task' = [task EXCEPT ![t].at = label]
Noted(t) == Plays[Len(task[t].said) + 1]
(* The entry at hand is settled, the next one is looked at.                *)
Say(t, outcome) ==
  task' = [task EXCEPT ![t].said = Append(@, outcome),
                       ![t].at = IF Len(task[t].said) + 1 = task[t].total THEN "done" ELSE "rate"]

Play ==
  log < Len(Plays) /\ log' = log + 1 /\ UNCHANGED <<history, task, played, debts, faults>>

(* The log as it is when the task comes to read it.                        *)
ReadLog(t) ==
  /\ TaskAt(t, "unborn")
  /\ \/ /\ UNCHANGED faults
        /\ task' = [task EXCEPT ![t].total = log, ![t].at = IF log = 0 THEN "done" ELSE "rate"]
     \/ Slip /\ TaskTo(t, "done")
  /\ UNCHANGED <<log, history, played, debts>>

(* Only what was listened to counts, and only once.                        *)
Rate(t) ==
  /\ TaskAt(t, "rate")
  /\ IF Noted(t).liked THEN TaskTo(t, "check") ELSE Say(t, "skipped")
  /\ UNCHANGED <<log, history, played, debts, faults>>

(* Another task is between its check and its record of the same play.      *)
Elsewhere(t) ==
  \E o \in Tasks \ {t} :
    task[o].at \in {"match", "start", "stop", "record"} /\ Noted(o).key = Noted(t).key
Check(t) ==
  /\ TaskAt(t, "check")
  /\ \/ /\ Noted(t).key \in history /\ Say(t, "duplicate") /\ UNCHANGED <<faults, debts>>
     \/ /\ Noted(t).key \notin history /\ TaskTo(t, "match") /\ UNCHANGED faults
        /\ IF Elsewhere(t) THEN Owe(Noted(t).key) ELSE UNCHANGED debts
     \/ Slip /\ TaskTo(t, "match") /\ Owe(Noted(t).key)
  /\ UNCHANGED <<log, history, played>>

(* The manifest by the path, the server by the names.                      *)
Match(t) ==
  /\ TaskAt(t, "match")
  /\ \/ /\ UNCHANGED faults
        /\ IF Noted(t).listed \/ Noted(t).known THEN TaskTo(t, "start") ELSE Say(t, "unmatched")
     \/ ~Noted(t).listed /\ Slip /\ Say(t, "failed")
  /\ UNCHANGED <<log, history, played, debts>>

(***************************************************************************)
(* The session is opened, and after a pause closed, which is what counts;  *)
(* a request whose answer is lost may have been heard.                     *)
(***************************************************************************)
StartPost(t) ==
  /\ TaskAt(t, "start")
  /\ (TaskTo(t, "stop") /\ UNCHANGED faults) \/ (Slip /\ Say(t, "failed"))
  /\ UNCHANGED <<log, history, played, debts>>
Count(k) == played' = [played EXCEPT ![k] = @ + 1]
(* Seeded bug: a session that could not be closed counts as reported.      *)
StopPostAnyhow(t) ==
  /\ TaskAt(t, "stop") /\ TaskTo(t, "record")
  /\ (Count(Noted(t).key) /\ UNCHANGED faults) \/ (Slip /\ UNCHANGED played)
  /\ UNCHANGED <<log, history, debts>>
StopPost(t) ==
  /\ TaskAt(t, "stop")
  /\ \/ Count(Noted(t).key) /\ TaskTo(t, "record") /\ UNCHANGED <<faults, debts>>
     \/ Slip /\ Say(t, "failed") /\ UNCHANGED <<played, debts>>
     \/ Slip /\ Say(t, "failed") /\ Count(Noted(t).key) /\ Owe(Noted(t).key)
  /\ UNCHANGED <<log, history>>

Record(t) ==
  /\ TaskAt(t, "record")
  /\ \/ /\ history' = history \cup {Noted(t).key} /\ Say(t, "submitted")
        /\ UNCHANGED <<faults, debts>>
     \/ Slip /\ Say(t, "failed") /\ Owe(Noted(t).key) /\ UNCHANGED history
  /\ UNCHANGED <<log, played>>

(* What was counted and not yet recorded is owed.                          *)
Die ==
  /\ Slip
  /\ task' = [t \in Tasks |-> IF TaskAt(t, "unborn") THEN Unborn ELSE [Unborn EXCEPT !.at = "done"]]
  /\ debts' = [k \in Keys |->
       debts[k] + Cardinality({t \in Tasks : TaskAt(t, "record") /\ Noted(t).key = k})]
  /\ UNCHANGED <<log, history, played>>

TaskStep(t) ==
  ReadLog(t) \/ Rate(t) \/ Check(t) \/ Match(t) \/ StartPost(t) \/ StopPost(t) \/ Record(t)
ScrobNext == Play \/ (\E t \in Tasks : TaskStep(t)) \/ Die
ScrobSpec == ScrobInit /\ [][ScrobNext]_scrobVars

-----------------------------------------------------------------------------
ScrobTypeOK ==
  /\ log \in 0 .. Len(Plays) /\ history \in SUBSET Keys /\ faults \in 0 .. MaxSlips
  /\ played \in [Keys -> Nat] /\ debts \in [Keys -> Nat]
  /\ \A t \in Tasks : Len(task[t].said) <= task[t].total /\ task[t].total <= log

(* A play is recorded only when the server counts it: a play that failed   *)
(* is tried again at the next detection.                                   *)
RecordedIsCounted == \A k \in history : played[k] > 0

(* Whatever is plugged and whenever, the server counts a play once and no  *)
(* more, but for each time that an answer or a record was lost after it    *)
(* was counted, the check failed, or two tasks were at the same play.      *)
CountedOnce == \A k \in Keys : played[k] <= 1 + debts[k]

(* What a task tells of an entry is so: the recorded and the doubles are   *)
(* in the history, what had no match is known to nobody.                   *)
ToldTruly ==
  \A t \in Tasks : \A i \in 1 .. Len(task[t].said) :
    CASE task[t].said[i] \in {"submitted", "duplicate"} -> Plays[i].key \in history
      [] task[t].said[i] = "unmatched" -> ~Plays[i].listed /\ ~Plays[i].known
      [] OTHER -> TRUE
(* A task that ends undisturbed leaves no play behind that was listened to *)
(* and that someone knows.                                                 *)
NoneLeftOut ==
  \A t \in Tasks : TaskAt(t, "done") /\ faults = 0 =>
    \A i \in 1 .. task[t].total :
      Plays[i].liked /\ (Plays[i].listed \/ Plays[i].known) => Plays[i].key \in history

(* A recorded play is counted by the server, once but for the known        *)
(* windows; a task reports truly and leaves nothing out.                   *)
ScrobblesSafe ==
  ScrobTypeOK /\ RecordedIsCounted /\ CountedOnce /\ ToldTruly /\ NoneLeftOut
=============================================================================
