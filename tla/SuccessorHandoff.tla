-------------------------- MODULE SuccessorHandoff --------------------------
(***************************************************************************)
(* Gapless handoff inside ONE output generation of the daemon's player.    *)
(*                                                                         *)
(* Four threads share one pipeline:                                        *)
(*   - the playback owner edits the durable queue, pauses, resumes and     *)
(*     adopts a boundary the listener has heard  (session.rs);             *)
(*   - the coordinator resolves and fetches the queue's successor while    *)
(*     the current track plays                   (commands.rs, audio.rs);  *)
(*   - the output worker installs, authorizes, retires and cleans up that  *)
(*     preparation                               (audio.rs, run_output);   *)
(*   - the real-time callback may cross into it without ever locking       *)
(*                                               (output.rs, render).      *)
(* The only authority between them is SuccessorFence, one atomic word: an  *)
(* epoch plus a READY or CLAIMED mark (continuity.rs).                     *)
(*                                                                         *)
(* Data is abstracted to what decides the protocol: a prepared source is   *)
(* the pair of tracks its token names, PCM is "enough" or not, frames and  *)
(* clocks are the two facts "submitted" and "presented".                   *)
(***************************************************************************)
EXTENDS Naturals, Sequences, SequencesExt

CONSTANTS
  NoToken,      \* model value: nothing prepared (None)
  MaxEdits,     \* bound on queue edits
  MaxControls   \* bound on Pause and Resume, each of which advances the epoch

(* A prepared successor: the tracks and the queue revision its token names, *)
(* the control epoch it was admitted under, the fence epoch of its ticket.  *)
(* Occurrence ids are fresh for ever (UUIDs): numbers, never reused.        *)
Token == [pred : Nat, succ : Nat, rev : Nat, ctl : Nat, epoch : Nat]

ASSUME TokenAssumption == NoToken \notin Token
ASSUME BoundsAssumption == MaxEdits \in Nat /\ MaxControls \in Nat

VARIABLES
  cur, upcoming,  \* durable queue: the current occurrence and those after it
  ctl,            \* control_epoch, which event_epoch follows
  owner,          \* where the owner stands while it holds the inner lock
  gen,            \* "current" while the owner's generation is this pipeline's
  rev,            \* queue_revision, advanced by every committed edit
  edits,          \* queue edits begun: the bound, and the source of fresh ids
  fence,          \* SuccessorFence: [epoch, mark]
  gate,           \* the output gate: "open" or "shut"
  pipe,           \* "running", "cancelled" (flag raised), "gone" (worker ended)
  receipt,        \* HandoffReceipt: pending, submitted, presented, adopted
  co,             \* coordinator: pc, ticket epoch, candidate, attempted key
  chan,           \* successor_tx/rx, a channel of capacity one
  wk,             \* worker: pc, message in hand, installed token, published
  slot,           \* the inactive PCM slot: prepared token, ready and free flags
  cb, playing,    \* callback: pc and the occurrence its active slot holds
  event           \* the HandoffPresented event in the owner's mailbox

queueVars == <<cur, upcoming, rev>>
ownerVars == <<ctl, owner, gen, edits>>
pipeVars == <<gate, pipe>>
workerVars == <<wk, slot, receipt>>
prepVars == <<co, chan>>
hearVars == <<cb, playing>>
vars == <<queueVars, ownerVars, pipeVars, workerVars, prepVars, hearVars,
          fence, event>>

NoPrep == [epoch |-> 0, ctl |-> 0]
NoReceipt == [pending |-> NoToken, submitted |-> FALSE,
              presented |-> FALSE, adopted |-> FALSE]
EmptySlot == [token |-> NoToken, ready |-> FALSE, free |-> TRUE]

Alive == pipe # "gone"
Running == pipe = "running"
Cancelled == IF Running THEN "cancelled" ELSE pipe

-----------------------------------------------------------------------------
(* SuccessorFence. A step of the code is one compare-and-swap or            *)
(* fetch_update, so one step here.                                          *)

(* The definitions named ...Blind, ...Rewinding and so on are what the code  *)
(* next to them would be with one plausible mistake: nothing uses them, and  *)
(* every property below fails for one of them.                               *)
AuthorizedBlind(f, epoch) ==
  IF f.mark = "idle" THEN [f EXCEPT !.mark = "ready"] ELSE f

Authorized(f, epoch) ==
  IF f.epoch = epoch /\ f.mark = "idle" THEN [f EXCEPT !.mark = "ready"] ELSE f

ClaimableIdle(f) == f.mark # "claimed"
Claimable(f) == f.mark = "ready"

Revocable(f) == f.mark # "claimed"
RevokedMarked(f) == [f EXCEPT !.epoch = @ + 1]
Revoked(f) == [epoch |-> f.epoch + 1, mark |-> "idle"]

Disarmable(f, epoch) == f.epoch = epoch /\ f.mark # "claimed"
Disarmed(f) == [f EXCEPT !.mark = "idle"]

AdoptedFence(f) == IF f.mark = "claimed" THEN Revoked(f) ELSE f

-----------------------------------------------------------------------------
Init ==
  /\ cur = 1 /\ upcoming = <<2, 3>>
  /\ ctl = 1
  /\ owner = "free"
  /\ gen = "current"
  /\ rev = 0 /\ edits = 0
  /\ fence = [epoch |-> 0, mark |-> "idle"]
  /\ gate = "open" /\ pipe = "running"
  /\ receipt = NoReceipt
  /\ co = [pc |-> "idle", epoch |-> 0, token |-> NoToken, attempted |-> NoPrep]
  /\ chan = NoToken
  /\ wk = [pc |-> "top", msg |-> NoToken, inst |-> NoToken, published |-> FALSE]
  /\ slot = EmptySlot
  /\ cb = "idle"
  /\ playing = cur
  /\ event = NoToken

-----------------------------------------------------------------------------
(* OWNER. Every handler runs under the inner lock; "owner" says how far the *)
(* one that holds it has come, so that the other threads may run between    *)
(* its atomic accesses.                                                     *)

(* The token presented_handoff() reports: the pending one once the device   *)
(* has played the boundary, stamped with the pipeline's event epoch.        *)
Presented == receipt.pending # NoToken /\ receipt.presented

(* adopt_presented_handoff refuses a token of a superseded position,        *)
(* revision or control epoch. A failed terminal write freezes the session   *)
(* and stops the pipeline.                                                  *)
Adoptable(token, epoch) ==
  /\ gen = "current" /\ token.pred = cur /\ token.rev = rev /\ epoch = ctl
  /\ token.succ \in ToSet(upcoming)

Adopts(token) ==
  \/ \E n \in 1..Len(upcoming) :
       /\ upcoming[n] = token.succ
       /\ cur' = token.succ
       /\ upcoming' = SubSeq(upcoming, n + 1, Len(upcoming))
       /\ receipt' = [receipt EXCEPT !.adopted = TRUE]
       /\ UNCHANGED <<gen, gate, pipe>>
  \/ /\ gen' = "superseded" /\ gate' = "shut" /\ pipe' = Cancelled
     /\ UNCHANGED <<cur, upcoming, receipt>>

KeepQueue == UNCHANGED <<cur, upcoming, receipt, gen, gate, pipe>>

(* reconcile_presented_handoff, called by the owner loop on every turn and  *)
(* at the head of every queue edit.                                         *)
ReconcilePresented ==
  IF Presented /\ Adoptable(receipt.pending, ctl)
  THEN Adopts(receipt.pending)
  ELSE KeepQueue

OwnerTurn ==
  /\ owner = "free"
  /\ Presented /\ Adoptable(receipt.pending, ctl)
  /\ ReconcilePresented
  /\ UNCHANGED <<prepVars, hearVars, rev, ctl, owner, edits, fence, wk, slot,
                 event>>

(* A HandoffPresented event the worker published (kind 6): adopted under    *)
(* the same checks, dropped otherwise.                                      *)
OwnerEvent ==
  /\ owner = "free"
  /\ event # NoToken
  /\ IF Adoptable(event, event.ctl)
     THEN Adopts(event)
     ELSE KeepQueue
  /\ event' = NoToken
  /\ UNCHANGED <<prepVars, hearVars, rev, ctl, owner, edits, fence, wk, slot>>

(* A queue edit (append, remove, move): reconcile, then ask the fence, then *)
(* write. A claimed boundary answers PLAYBACK_BUSY and changes nothing.     *)
EditBegin ==
  /\ owner = "free" /\ gen = "current" /\ edits < MaxEdits
  /\ ReconcilePresented
  /\ owner' = IF gen' = "current" THEN "fencing" ELSE "free"
  /\ edits' = edits + 1
  /\ UNCHANGED <<prepVars, hearVars, rev, ctl, fence, wk, slot, event>>

EditFence ==
  /\ owner = "fencing"
  /\ IF Alive /\ ~Revocable(fence)
     THEN owner' = "free" /\ UNCHANGED fence
     ELSE /\ owner' = "writing"
          /\ fence' = IF Alive THEN Revoked(fence) ELSE fence
  /\ UNCHANGED <<queueVars, pipeVars, workerVars, prepVars, hearVars, ctl,
                 gen, edits, event>>

Edited(q) ==
  {Append(q, 3 + edits)}
  \cup {RemoveAt(q, n) : n \in 1..Len(q)}
  \cup {InsertAt(RemoveAt(q, m), n, q[m]) : m, n \in 1..Len(q)}

(* The write commits, or fails and leaves the queue as it was.              *)
EditWrite ==
  /\ owner = "writing"
  /\ \/ upcoming' \in Edited(upcoming) /\ rev' = rev + 1
     \/ UNCHANGED <<upcoming, rev>>
  /\ owner' = "free"
  /\ UNCHANGED <<pipeVars, workerVars, prepVars, hearVars, cur, ctl, gen,
                 edits, fence, event>>

(* Pause: close the gate, wait for a callback in flight, then freeze the    *)
(* receipt of a submitted boundary (keeping it only if it was already       *)
(* heard) and retire the pipeline; reconcile, and advance the epoch.        *)
PauseBegin ==
  /\ owner = "free" /\ gen = "current" /\ ctl <= MaxControls
  /\ ReconcilePresented
  /\ owner' = IF gen' = "current" THEN "pausing" ELSE "free"
  /\ UNCHANGED <<prepVars, hearVars, rev, ctl, edits, fence, wk, slot, event>>

PauseGate ==
  /\ owner = "pausing"
  /\ gate' = "shut"
  /\ owner' = "draining"
  /\ UNCHANGED <<queueVars, workerVars, prepVars, hearVars, ctl, gen, edits,
                 fence, pipe, event>>

PauseFreeze ==
  /\ owner = "draining" /\ cb = "idle"
  /\ IF receipt.submitted
     THEN /\ pipe' = Cancelled
          /\ receipt' = IF Presented THEN receipt ELSE NoReceipt
     ELSE UNCHANGED <<pipe, receipt>>
  /\ owner' = "paused"
  /\ UNCHANGED <<queueVars, prepVars, hearVars, ctl, gen, edits, fence, gate,
                 wk, slot, event>>

PauseEnd ==
  /\ owner = "paused"
  /\ ReconcilePresented
  /\ ctl' = ctl + 1
  /\ owner' = "free"
  /\ UNCHANGED <<prepVars, hearVars, rev, edits, fence, wk, slot, event>>

(* Resume of the installed pipeline (resume_existing): reuse it only when   *)
(* it is alive and not cancelled, and stamp it with the new epoch.          *)
Resume ==
  /\ owner = "free" /\ gen = "current" /\ ctl <= MaxControls
  /\ gate = "shut" /\ Running
  /\ gate' = "open"
  /\ ctl' = ctl + 1
  /\ UNCHANGED <<queueVars, workerVars, prepVars, hearVars, owner, gen, edits,
                 fence, pipe, event>>

(* Stop, Next, seek, play, select, preview, terminal: the owner rotates its *)
(* generation and stops this pipeline; its queue goes on elsewhere.         *)
Supersede ==
  /\ owner = "free" /\ gen = "current"
  /\ gen' = "superseded" /\ gate' = "shut" /\ pipe' = Cancelled
  /\ IF upcoming = <<>>
     THEN UNCHANGED <<cur, upcoming>>
     ELSE \/ cur' = Head(upcoming) /\ upcoming' = Tail(upcoming)
          \/ UNCHANGED <<cur, upcoming>>
  /\ UNCHANGED <<workerVars, prepVars, hearVars, rev, ctl, owner, edits,
                 fence, event>>

-----------------------------------------------------------------------------
(* COORDINATOR. Ticket first, candidate second, network last.               *)

TicketCurrent == Running /\ fence.epoch = co.epoch

CoTicket ==
  /\ co.pc = "idle"
  /\ Running /\ slot.free /\ fence.mark # "claimed"
  /\ co' = [co EXCEPT !.pc = "ticket", !.epoch = fence.epoch]
  /\ UNCHANGED <<queueVars, ownerVars, pipeVars, workerVars, hearVars, fence,
                 chan, event>>

(* successor_candidate takes the inner lock, so never in mid-edit. A key    *)
(* (fence epoch, control epoch) is attempted once.                          *)
CoCandidate ==
  /\ co.pc = "ticket" /\ owner = "free"
  /\ LET key == [epoch |-> co.epoch, ctl |-> ctl]
     IN IF key = co.attempted \/ gen # "current" \/ upcoming = <<>>
        THEN co' = [co EXCEPT !.pc = "idle"]
        ELSE co' = [co EXCEPT !.pc = "resolving", !.attempted = key,
                      !.token = [pred |-> cur, succ |-> Head(upcoming),
                                 rev |-> rev, ctl |-> ctl, epoch |-> co.epoch]]
  /\ UNCHANGED <<queueVars, ownerVars, pipeVars, workerVars, hearVars, fence,
                 chan, event>>

(* prepare_successor's first check, under the engine lock.                  *)
CoAdmit ==
  /\ co.pc = "resolving"
  /\ co' = IF TicketCurrent /\ co.token.ctl = ctl
           THEN [co EXCEPT !.pc = "fetching"]
           ELSE [co EXCEPT !.pc = "idle", !.token = NoToken]
  /\ UNCHANGED <<queueVars, ownerVars, pipeVars, workerVars, hearVars, fence,
                 chan, event>>

(* The fetch answers, or it fails, times out or is cancelled.               *)
CoFetch ==
  /\ co.pc = "fetching"
  /\ \/ TicketCurrent /\ co' = [co EXCEPT !.pc = "sending"]
     \/ co' = [co EXCEPT !.pc = "idle", !.token = NoToken]
  /\ UNCHANGED <<queueVars, ownerVars, pipeVars, workerVars, hearVars, fence,
                 chan, event>>

CoSendUnmarked ==
  /\ co.pc = "sending"
  /\ chan' = IF chan = NoToken /\ Alive THEN co.token ELSE chan
  /\ co' = [co EXCEPT !.pc = "idle", !.token = NoToken]
  /\ UNCHANGED <<queueVars, ownerVars, pipeVars, hearVars, fence, workerVars,
                 event>>

(* The slot is marked busy before the send; a full channel gives it back.   *)
CoSend ==
  /\ co.pc = "sending"
  /\ IF chan = NoToken /\ Alive
     THEN chan' = co.token /\ slot' = [slot EXCEPT !.free = FALSE]
     ELSE UNCHANGED chan /\ slot' = [slot EXCEPT !.free = TRUE]
  /\ co' = [co EXCEPT !.pc = "idle", !.token = NoToken]
  /\ UNCHANGED <<queueVars, ownerVars, pipeVars, hearVars, fence, receipt, wk,
                 event>>

-----------------------------------------------------------------------------
(* WORKER. One turn of run_output's loop: retire, receive, run.             *)

(* The inactive decoder is dropped and its slot given back.                 *)
DropInstalled ==
  /\ slot' = EmptySlot
  /\ receipt' = NoReceipt

WkRetire ==
  /\ Running /\ wk.pc = "top"
  /\ IF wk.inst # NoToken /\ wk.inst.epoch # fence.epoch
     THEN /\ DropInstalled
          /\ wk' = [wk EXCEPT !.pc = "receive", !.inst = NoToken]
     ELSE /\ wk' = [wk EXCEPT !.pc = "receive"]
          /\ UNCHANGED <<slot, receipt>>
  /\ UNCHANGED <<queueVars, ownerVars, pipeVars, prepVars, hearVars, fence,
                 event>>

(* A message prepared under another fence epoch is dropped unopened.        *)
WkReceive ==
  /\ Alive /\ wk.pc = "receive"
  /\ IF wk.inst # NoToken \/ chan = NoToken
     THEN /\ wk' = [wk EXCEPT !.pc = "run"]
          /\ UNCHANGED <<chan, slot>>
     ELSE /\ chan' = NoToken
          /\ IF chan.epoch # fence.epoch
             THEN /\ wk' = [wk EXCEPT !.pc = "top"]
                  /\ slot' = [slot EXCEPT !.free = TRUE]
             ELSE /\ wk' = [wk EXCEPT !.pc = "install", !.msg = chan]
                  /\ UNCHANGED slot
  /\ UNCHANGED <<queueVars, ownerVars, pipeVars, hearVars, fence, receipt, co,
                 event>>

(* Arm the receipt and start decoding into the inactive slot.               *)
WkInstall ==
  /\ Alive /\ wk.pc = "install"
  /\ wk' = [wk EXCEPT !.pc = "run", !.inst = wk.msg, !.msg = NoToken]
  /\ receipt' = [receipt EXCEPT !.pending = wk.msg]
  /\ slot' = [slot EXCEPT !.token = wk.msg, !.ready = FALSE]
  /\ UNCHANGED <<queueVars, ownerVars, pipeVars, prepVars, hearVars, fence,
                 event>>

(* The prepared decoder failed or produced nothing: disarm the fence, and   *)
(* only if that succeeds take the preparation back.                         *)
WkDisarm ==
  /\ Alive /\ wk.pc = "run" /\ wk.inst # NoToken
  /\ Disarmable(fence, wk.inst.epoch)
  /\ fence' = Disarmed(fence)
  /\ DropInstalled
  /\ wk' = [wk EXCEPT !.pc = "report", !.inst = NoToken]
  /\ UNCHANGED <<queueVars, ownerVars, pipeVars, prepVars, hearVars, event>>

(* Enough PCM is queued: authorize the boundary, then raise the ready flag, *)
(* whether or not the authorization took.                                   *)
WkAuthorize ==
  /\ Alive /\ wk.pc = "run" /\ wk.inst # NoToken
  /\ slot.token # NoToken /\ ~slot.ready
  /\ fence' = Authorized(fence, wk.inst.epoch)
  /\ wk' = [wk EXCEPT !.pc = "authorized"]
  /\ UNCHANGED <<queueVars, ownerVars, pipeVars, prepVars, hearVars, receipt,
                 slot, event>>

WkReady ==
  /\ Alive /\ wk.pc = "authorized"
  /\ slot' = [slot EXCEPT !.ready = TRUE]
  /\ wk' = [wk EXCEPT !.pc = "report"]
  /\ UNCHANGED <<queueVars, ownerVars, pipeVars, prepVars, hearVars, fence,
                 receipt, event>>

(* Neither: the preparation is still filling, or there is none.             *)
WkDecode ==
  /\ Alive /\ wk.pc = "run"
  /\ wk' = [wk EXCEPT !.pc = "report"]
  /\ UNCHANGED <<queueVars, ownerVars, pipeVars, prepVars, hearVars, fence,
                 receipt, slot, event>>

(* Once the boundary was heard, tell the owner, one time.                   *)
WkReport ==
  /\ Alive /\ wk.pc = "report"
  /\ IF ~wk.published /\ Presented
     THEN /\ event' = [receipt.pending EXCEPT !.ctl = ctl]
          /\ wk' = [wk EXCEPT !.pc = "settle", !.published = TRUE]
     ELSE /\ wk' = [wk EXCEPT !.pc = "settle"]
          /\ UNCHANGED event
  /\ UNCHANGED <<queueVars, ownerVars, pipeVars, prepVars, hearVars, fence,
                 receipt, slot>>

(* Once the owner acknowledged, retire the predecessor's slot and clear the *)
(* receipt, and only then release the fence and the slot.                   *)
WkSettle ==
  /\ Alive /\ wk.pc = "settle"
  /\ IF wk.published /\ wk.inst # NoToken /\ receipt.adopted
     THEN /\ wk' = [wk EXCEPT !.pc = "release", !.inst = NoToken,
                              !.published = FALSE]
          /\ slot' = [EmptySlot EXCEPT !.free = FALSE]
          /\ receipt' = NoReceipt
     ELSE /\ wk' = [wk EXCEPT !.pc = "top"]
          /\ UNCHANGED <<slot, receipt>>
  /\ UNCHANGED <<queueVars, ownerVars, pipeVars, prepVars, hearVars, fence,
                 event>>

WkRelease ==
  /\ Alive /\ wk.pc = "release"
  /\ fence' = AdoptedFence(fence)
  /\ slot' = [slot EXCEPT !.free = TRUE]
  /\ wk' = [wk EXCEPT !.pc = "top"]
  /\ UNCHANGED <<queueVars, ownerVars, pipeVars, prepVars, hearVars, receipt,
                 event>>

(* The loop ends: cancelled at its head, completed with nothing prepared,   *)
(* or the device or the active decoder failed, which closes the gate.       *)
WkExit ==
  /\ Alive
  /\ \/ wk.pc = "top" /\ pipe = "cancelled" /\ UNCHANGED gate
     \/ wk.pc = "settle" /\ wk.inst = NoToken /\ UNCHANGED gate
     \/ wk.pc = "run" /\ gate' = "shut"
  /\ pipe' = "gone"
  /\ UNCHANGED <<queueVars, ownerVars, workerVars, prepVars, hearVars, fence,
                 event>>

-----------------------------------------------------------------------------
(* CALLBACK. The flags are loaded first, the claim comes later in the       *)
(* render loop, the boundary frame is stored last; nothing locks.           *)

CbEnter ==
  /\ cb = "idle" /\ Running /\ gate = "open" /\ slot.ready
  /\ cb' = "draining"
  /\ UNCHANGED <<queueVars, ownerVars, pipeVars, workerVars, prepVars, fence,
                 playing, event>>

(* The active queue has run dry at its end of file and the other holds a    *)
(* frame: claim, or go on in silence. The gate is loaded once more for the  *)
(* frame, before the claim, so a gate closed meanwhile may or may not be    *)
(* seen.                                                                    *)
CbClaim ==
  /\ cb = "draining"
  /\ \/ /\ slot.token # NoToken /\ Claimable(fence)
        /\ fence' = [fence EXCEPT !.mark = "claimed"]
        /\ playing' = slot.token.succ
        /\ cb' = "crossed"
     \/ /\ gate = "shut" \/ slot.token = NoToken \/ ~Claimable(fence)
        /\ cb' = "idle"
        /\ UNCHANGED <<fence, playing>>
  /\ UNCHANGED <<queueVars, ownerVars, pipeVars, workerVars, prepVars, event>>

CbRecord ==
  /\ cb = "crossed"
  /\ receipt' = [receipt EXCEPT !.submitted = TRUE]
  /\ cb' = "idle"
  /\ UNCHANGED <<queueVars, ownerVars, pipeVars, prepVars, fence, wk, slot,
                 playing, event>>

(* The device reaches the submitted boundary: its deadline passes.          *)
DevicePlays ==
  /\ receipt.submitted /\ ~receipt.presented
  /\ receipt' = [receipt EXCEPT !.presented = TRUE]
  /\ UNCHANGED <<queueVars, ownerVars, pipeVars, prepVars, hearVars, fence,
                 wk, slot, event>>

-----------------------------------------------------------------------------
OwnerNext ==
  \/ OwnerTurn \/ OwnerEvent
  \/ EditBegin \/ EditFence \/ EditWrite
  \/ PauseBegin \/ PauseGate \/ PauseFreeze \/ PauseEnd
  \/ Resume \/ Supersede

CoNext == CoTicket \/ CoCandidate \/ CoAdmit \/ CoFetch \/ CoSend

WkNext ==
  \/ WkRetire \/ WkReceive \/ WkInstall
  \/ WkDisarm \/ WkAuthorize \/ WkReady
  \/ WkDecode \/ WkReport \/ WkSettle \/ WkRelease
  \/ WkExit

CbNext == CbEnter \/ CbClaim \/ CbRecord

Next == OwnerNext \/ CoNext \/ WkNext \/ CbNext \/ DevicePlays

(* The owner polls every 25 ms, the worker loops every 25 ms, a callback    *)
(* that has been entered returns, and the device plays what was submitted:  *)
(* each takes its next step whatever the others do. Nothing is assumed of   *)
(* the network, of the user, or of whether a write succeeds.                *)
Fairness ==
  /\ WF_vars(OwnerTurn)
  /\ WF_vars(EditFence \/ EditWrite \/ PauseGate \/ PauseFreeze \/ PauseEnd)
  /\ WF_vars(WkNext)
  /\ WF_vars(CbClaim \/ CbRecord)
  /\ WF_vars(DevicePlays)

Spec == Init /\ [][Next]_vars
FairSpec == Spec /\ Fairness

-----------------------------------------------------------------------------
(* PROPERTIES                                                               *)

(* Type correctness, one part per group of variables. It says that a failed *)
(* or superseded step never leaves a thread between two places of its code. *)
TypeQueue ==
  cur \in Nat /\ upcoming \in Seq(Nat) /\ rev \in Nat

TypeOwner ==
  /\ ctl \in Nat /\ edits \in Nat
  /\ owner \in {"free", "fencing", "writing", "pausing", "draining", "paused"}
  /\ gen \in {"current", "superseded"}

TypePipe == gate \in {"open", "shut"} /\ pipe \in {"running", "cancelled", "gone"}

TypeWk ==
  wk \in [pc : {"top", "receive", "install", "run", "authorized",
                "report", "settle", "release"},
          msg : Token \cup {NoToken}, inst : Token \cup {NoToken},
          published : BOOLEAN]

TypeSlot ==
  slot \in [token : Token \cup {NoToken}, ready : BOOLEAN, free : BOOLEAN]

TypeReceipt ==
  receipt \in [pending : Token \cup {NoToken}, submitted : BOOLEAN,
               presented : BOOLEAN, adopted : BOOLEAN]

TypeCo ==
  co \in [pc : {"idle", "ticket", "resolving", "fetching", "sending"},
          epoch : Nat, token : Token \cup {NoToken},
          attempted : [epoch : Nat, ctl : Nat]]

TypeChan == chan \in Token \cup {NoToken}

TypeHear == cb \in {"idle", "draining", "crossed"} /\ playing \in Nat

TypeFence == fence \in [epoch : Nat, mark : {"idle", "ready", "claimed"}]

TypeEvent == event \in Token \cup {NoToken}

TypeOK ==
  /\ TypeQueue /\ TypeOwner /\ TypePipe /\ TypeFence /\ TypeEvent
  /\ TypeWk /\ TypeSlot /\ TypeReceipt /\ TypeCo /\ TypeChan /\ TypeHear

(* While a pipeline is in use the listener hears the queue's current track, *)
(* or, once the boundary is claimed, exactly the track the queue promised   *)
(* next: no edit, pause, retry or late preparation ever makes the callback  *)
(* cross into a track the queue no longer names.                            *)
HeardIsQueued ==
  (gen = "current" /\ Running) =>
    \/ playing = cur
    \/ fence.mark = "claimed" /\ upcoming # <<>> /\ playing = Head(upcoming)

(* A queue edit that has been let through the fence cannot be overtaken by  *)
(* the callback: between the revocation and the durable write no boundary   *)
(* is claimed, so PLAYBACK_BUSY and a committed edit exclude each other.    *)
EditExcludesBoundary == (owner = "writing" /\ Running) => fence.mark # "claimed"

(* There is at most one preparation in the slot's custody: while a message  *)
(* is queued, held or installed the slot is not offered to the coordinator. *)
OnePreparation ==
  LET held == {chan, wk.msg, wk.inst} \ {NoToken}
  IN held # {} => (~slot.free /\ co.pc = "idle")

(* A claimed boundary is not left claimed for ever: the owner adopts it and *)
(* the worker releases it, or the pipeline is given up. PLAYBACK_BUSY tells *)
(* the user to "retry after playback advances"; this is that advance.       *)
Busy == fence.mark = "claimed"
GoesOn == ~Busy \/ gen # "current" \/ ~Alive
BusyIsTransient == Busy ~> GoesOn

(* Refinement: the four threads and their fence implement the promise of    *)
(* GaplessQueue. The listener has crossed when the active slot holds another*)
(* track than the queue's current one; the output is over once the owner's  *)
(* generation moved on, the pipeline is cancelled, or its worker is gone.   *)
Over == gen # "current" \/ ~Running

Gapless == INSTANCE GaplessQueue
             WITH crossed <- ~Over /\ playing # cur, over <- Over

KeepsGaplessPromise == Gapless!Spec
=============================================================================
