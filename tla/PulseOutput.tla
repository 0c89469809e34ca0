----------------------------- MODULE PulseOutput -----------------------------
(***************************************************************************)
(* The output on Linux.  One worker decodes, writes to a Pulse stream,     *)
(* asks it how much was played and holds a ledger of what it wrote, so     *)
(* that silence does not count.  A Pause goes through the worker: the      *)
(* owner shuts the gate, sends a request and waits 250 ms for the answer;  *)
(* without one it cancels the pipeline.  The stream keeps what it holds    *)
(* while it is corked.                                                     *)
(*                                                                         *)
(* Frames are numbered through the tracks of the queue; 0 is silence.      *)
(* Pulse itself is external: a cork is acknowledged, a drain ends when     *)
(* everything was played, the time it tells may lag unless it was asked to *)
(* update it.  The worker, which turns every 5 ms, keeps ahead of the      *)
(* stream's 100 ms.                                                        *)
(***************************************************************************)
EXTENDS Integers, Sequences, FiniteSets, SequencesExt

CONSTANTS
  Tracks,    \* the frames of each track, in queue order
  Start,     \* where the first one is started
  Frames,    \* frames the stream holds
  Chunk,     \* frames written at once
  Target,    \* frames written before the stream is let go
  LedgerCap, \* entries of the ledger
  MaxPauses, MaxGaps

VARIABLES
  stream,   \* Pulse: corked, what it holds, what was heard
  ledger,   \* what was written and not yet presented, and how much was
  pcm,      \* next frame, the active track, the successor that is ready
  sent,     \* frames of music submitted, and of those primed
  bound,    \* the boundary: its frame in the stream, the music before it
  receipt,  \* the track before the successor, frames of it presented, adoption
  worker,   \* the worker's loop and its locals
  place,    \* the position shown
  gate, cancel,
  request,  \* the Pause the worker is asked for
  owner,    \* the session's current track, its position and where the owner is
  hist      \* bounds, and what the exception is about
vars == <<stream, ledger, pcm, sent, bound, receipt, worker, place, gate, cancel, request, owner,
          hist>>

-----------------------------------------------------------------------------
FirstOf(k) == 1 + FoldLeft(+, 0, SubSeq(Tracks, 1, k - 1))
LastOf(k) == FirstOf(k) + Tracks[k] - 1
TrackOf(f) == CHOOSE k \in DOMAIN Tracks : f \in FirstOf(k) .. LastOf(k)
Never == 10000
Less(a, b) == IF a > b THEN a - b ELSE 0
Least(S) == CHOOSE x \in S : \A y \in S : x <= y
NoBoundary == [frame |-> Never, audio |-> 0]
NoReceipt == [after |-> 0, offset |-> Never, adopted |-> FALSE]

Init ==
  /\ stream = [corked |-> TRUE, holds |-> <<>>, heard |-> <<>>]
  /\ ledger = [pending |-> <<>>, presented |-> 0]
  /\ pcm = [next |-> Start + 1, track |-> 1, ready |-> FALSE]
  /\ sent = [audio |-> 0, primed |-> 0]
  /\ bound = NoBoundary /\ receipt = NoReceipt
  /\ worker = [at |-> "top", enabled |-> FALSE, pending |-> FALSE, published |-> FALSE, base |-> Start,
               from |-> 0, last |-> 0, unseen |-> 0, end |-> "none"]
  /\ place = Start
  /\ gate = TRUE /\ cancel = FALSE /\ request = "none"
  /\ owner = [at |-> "idle", track |-> 1, pos |-> Start, playing |-> TRUE, was |-> 1, heard |-> FALSE]
  /\ hist = [pauses |-> 0, gaps |-> 0, unsettled |-> FALSE]

Alive == worker.end = "none"
At(a) == Alive /\ worker.at = a
Room == Frames - Len(stream.holds)
Finished == pcm.next > LastOf(pcm.track)
(* StartupPrimer::is_ready                                                 *)
Primed == sent.primed >= Target \/ pcm.track > 1 \/ Finished

-----------------------------------------------------------------------------
(* The consumer fills a chunk: music, across the end of the track if the   *)
(* successor is ready, and silence once it has none or is not let.         *)
Reach == IF pcm.ready THEN pcm.track + 1 ELSE pcm.track
Music(n) == Least({n, LastOf(Reach) - pcm.next + 1})
(* How much music the chunk holds: all there is; or less, when the gate    *)
(* was shut meanwhile or the decoder is late.                              *)
Amount(n) == {m \in 0 .. Music(n) : ~gate \/ m = Music(n) \/ hist.gaps < MaxGaps}
(* SubmissionCursor: where the next frame goes, counted from what was seen *)
(* as played; Pulse's own cursor is never ahead of it.                     *)
Cursor == worker.unseen + Len(stream.holds)
Entry(start, m) == [from |-> start, to |-> start + m]
Chunked(m, n) == [i \in 1 .. n |-> IF i <= m THEN pcm.next + i - 1 ELSE 0]

(* One write of n frames, m of them music: the boundary it may contain, and *)
(* its entry in the ledger.                                                *)
Writes(n, m) ==
  LET crosses == m > 0 /\ pcm.next + m - 1 > LastOf(pcm.track)
      before == Less(LastOf(pcm.track) + 1, pcm.next)
  IN /\ stream' = [stream EXCEPT !.corked = ~worker.enabled, !.holds = @ \o Chunked(m, n)]
     /\ ledger' = [ledger EXCEPT !.pending = IF m = 0 THEN @ ELSE Append(@, Entry(Cursor, m))]
     /\ pcm' = [next |-> pcm.next + m, track |-> IF crosses THEN pcm.track + 1 ELSE pcm.track,
                ready |-> pcm.ready /\ ~crosses]
     /\ bound' = IF crosses THEN [frame |-> Cursor + before, audio |-> sent.audio + before]
                 ELSE bound
     /\ sent' = [audio |-> sent.audio + m,
                 primed |-> IF Primed THEN sent.primed ELSE sent.primed + m]
     /\ hist' = [hist EXCEPT !.gaps = IF gate /\ m < Music(n) THEN @ + 1 ELSE @]
Accepts == Room > 0 /\ Len(ledger.pending) < LedgerCap

(* The first frames, into the corked stream.                               *)
WkPrime ==
  /\ At("prime") /\ ~Primed /\ gate /\ Accepts
  /\ LET n == Least({Room, Chunk, Target - sent.primed}) IN \E m \in Amount(n) : Writes(n, m)
  /\ worker' = [worker EXCEPT !.at = "enable"]
  /\ UNCHANGED <<receipt, place, gate, cancel, request, owner>>
(* What the gate says now decides the rest of the turn.                    *)
Enabled == Primed /\ gate
WkEnable ==
  /\ worker.at = "prime" => Primed \/ ~gate \/ ~Accepts
  /\ Alive /\ worker.at \in {"prime", "enable"}
  /\ worker' = [worker EXCEPT !.enabled = Enabled, !.at = "write"]
  /\ UNCHANGED <<stream, ledger, pcm, sent, bound, receipt, place, gate, cancel, request, owner,
                 hist>>
(* set_paused, acknowledged; then write what the stream has room for.      *)
WkWrite ==
  /\ At("write")
  /\ IF worker.enabled /\ Accepts
     THEN LET n == Least({Room, Chunk}) IN \E m \in Amount(n) : Writes(n, m)
     ELSE /\ stream' = [stream EXCEPT !.corked = ~worker.enabled]
          /\ UNCHANGED <<ledger, pcm, sent, bound, hist>>
  /\ worker' = [worker EXCEPT !.at = "played"]
  /\ UNCHANGED <<receipt, place, gate, cancel, request, owner>>

(* PresentationLedger::advance: n more frames were played.                 *)
Part(e, n) == Least({Less(n, e.from), e.to - e.from})
Advance(n) ==
  LET rest == SelectSeq(ledger.pending, LAMBDA e : e.to > n)
  IN [presented |-> ledger.presented + FoldLeft(LAMBDA sum, e : sum + Part(e, n), 0, ledger.pending),
      pending |-> [i \in DOMAIN rest |-> [from |-> Less(rest[i].from, n), to |-> rest[i].to - n]]]
(* The boundary comes nearer, and once it was played its receipt tells how *)
(* much of the successor was.                                              *)
Nearer(n) == IF bound.frame = Never THEN bound ELSE [bound EXCEPT !.frame = Less(@, n)]
Told(n, frames) ==
  IF n >= bound.frame THEN [receipt EXCEPT !.offset = Less(frames, bound.audio)] ELSE receipt

(* What was played by now, or a little earlier, is looked at: the boundary *)
(* is published and the position reported.                                 *)
WkPlayed ==
  /\ At("played")
  /\ \E n \in {worker.unseen, Less(worker.unseen, 1)} :
       LET l == Advance(n)
           r == Told(n, l.presented)
           own == Less(l.presented, worker.from)
       IN /\ ledger' = l /\ receipt' = r /\ bound' = Nearer(n)
          /\ place' = IF own > worker.last THEN worker.base + own ELSE place
          /\ worker' = [worker EXCEPT !.unseen = @ - n, !.at = "settle",
                          !.published = @ \/ (r.after # 0 /\ r.offset # Never),
                          !.last = IF own > @ THEN own ELSE @]
  /\ UNCHANGED <<stream, pcm, sent, gate, cancel, request, owner, hist>>
(* An adopted successor becomes what the position is counted in.  With all *)
(* decoded and written and no successor, the stream plays out.             *)
WkSettle ==
  /\ At("settle")
  /\ LET settles == worker.published /\ receipt.adopted
         next == IF settles
                 THEN [worker EXCEPT !.base = 0, !.last = 0, !.from = bound.audio, !.pending = FALSE,
                                     !.published = FALSE]
                 ELSE worker
     IN /\ worker' = [next EXCEPT !.at = IF worker.enabled /\ ~next.pending /\ Finished THEN "drain"
                                         ELSE "top"]
        /\ bound' = IF settles THEN NoBoundary ELSE bound
        /\ receipt' = IF settles THEN NoReceipt ELSE receipt
  /\ UNCHANGED <<stream, ledger, pcm, sent, place, gate, cancel, request, owner, hist>>
WkDrained ==
  /\ At("drain") /\ stream.holds = <<>>
  /\ worker' = [worker EXCEPT !.at = "retire"]
  /\ UNCHANGED <<stream, ledger, pcm, sent, bound, receipt, place, gate, cancel, request, owner,
                 hist>>

(* The top of the loop: a Pause is answered first.                         *)
WkAsked ==
  /\ At("top") /\ request = "sent"
  /\ stream' = [stream EXCEPT !.corked = TRUE]
  /\ worker' = [worker EXCEPT !.at = "answer"]
  /\ request' = "taken"
  /\ UNCHANGED <<ledger, pcm, sent, bound, receipt, place, gate, cancel, owner, hist>>
(* pause_snapshot: corked and asked anew, the time is exact.               *)
WkAnswer ==
  /\ At("answer")
  /\ LET l == Advance(worker.unseen) IN
       /\ ledger' = l /\ receipt' = Told(worker.unseen, l.presented)
       /\ place' = worker.base + Less(l.presented, worker.from)
  /\ bound' = Nearer(worker.unseen)
  /\ worker' = [worker EXCEPT !.unseen = 0, !.at = "go"]
  /\ request' = IF owner.at = "wait" THEN "answered" ELSE "none"
  /\ UNCHANGED <<stream, pcm, sent, gate, cancel, owner, hist>>
(* Then a cancelled pipeline ends, or a successor is installed.            *)
WkGo ==
  /\ At("go") \/ (At("top") /\ request # "sent")
  /\ worker' = [worker EXCEPT !.at = IF cancel THEN "retire" ELSE "prime"]
  /\ UNCHANGED <<stream, ledger, pcm, sent, bound, receipt, place, gate, cancel, request, owner,
                 hist>>
WkInstall ==
  /\ At("prime") /\ ~worker.pending /\ pcm.track < Len(Tracks)
  /\ pcm' = [pcm EXCEPT !.ready = TRUE]
  /\ worker' = [worker EXCEPT !.pending = TRUE]
  /\ receipt' = [NoReceipt EXCEPT !.after = pcm.track]
  /\ UNCHANGED <<stream, ledger, sent, bound, place, gate, cancel, request, owner, hist>>
(* retire: the gate is shut, the stream corked and flushed; the end is     *)
(* told unless the pipeline was cancelled.                                 *)
WkRetire ==
  /\ At("retire")
  /\ gate' = FALSE
  /\ stream' = [stream EXCEPT !.corked = TRUE, !.holds = <<>>]
  /\ worker' = [worker EXCEPT !.end = IF cancel THEN "cancelled" ELSE "completed"]
  /\ UNCHANGED <<ledger, pcm, sent, bound, receipt, place, cancel, request, owner, hist>>

Worker ==
  \/ WkPrime \/ WkEnable \/ WkWrite \/ WkPlayed \/ WkSettle \/ WkDrained
  \/ WkAsked \/ WkAnswer \/ WkGo \/ WkInstall \/ WkRetire

DevicePlays ==
  /\ ~stream.corked /\ stream.holds # <<>>
  /\ stream' = [stream EXCEPT !.holds = Tail(@),
                  !.heard = IF Head(stream.holds) = 0 THEN @ ELSE Append(@, Head(stream.holds))]
  /\ worker' = [worker EXCEPT !.unseen = @ + 1]
  /\ UNCHANGED <<ledger, pcm, sent, bound, receipt, place, gate, cancel, request, owner, hist>>

-----------------------------------------------------------------------------
(* The owner.                                                              *)
(* The receipt names the track before it, which must be the current one.  *)
Presented == receipt.after = owner.track /\ receipt.offset # Never
Adopted == [owner EXCEPT !.track = @ + 1, !.pos = receipt.offset]
OwnerTick ==
  /\ owner.at = "idle" /\ Presented
  /\ owner' = Adopted
  /\ receipt' = [receipt EXCEPT !.adopted = TRUE]
  /\ UNCHANGED <<stream, ledger, pcm, sent, bound, worker, place, gate, cancel, request, hist>>

PauseGate ==
  /\ Alive /\ ~cancel /\ owner.at = "idle" /\ owner.playing /\ hist.pauses < MaxPauses
  /\ gate' = FALSE
  /\ request' = "sent"
  /\ owner' = [owner EXCEPT !.at = "wait", !.was = owner.track, !.heard = FALSE]
  /\ hist' = [hist EXCEPT !.pauses = @ + 1, !.unsettled = receipt.adopted]
  /\ UNCHANGED <<stream, ledger, pcm, sent, bound, receipt, worker, place, cancel>>
PauseHeard ==
  /\ owner.at = "wait" /\ request = "answered"
  /\ owner' = [owner EXCEPT !.at = "kept", !.heard = TRUE]
  /\ request' = "none"
  /\ UNCHANGED <<stream, ledger, pcm, sent, bound, receipt, worker, place, gate, cancel, hist>>
(* The answer is late, or the worker is gone: handoff.clear and cancel.    *)
PauseLate ==
  /\ owner.at = "wait" /\ request # "answered"
  /\ owner' = [owner EXCEPT !.at = "kept"]
  /\ UNCHANGED request
  /\ receipt' = NoReceipt
  /\ cancel' = TRUE
  /\ UNCHANGED <<stream, ledger, pcm, sent, bound, worker, place, gate, hist>>
(* The owner adopts what was heard; otherwise it keeps the position shown. *)
PauseKept ==
  /\ owner.at = "kept"
  /\ LET next == IF Presented THEN Adopted ELSE owner IN
     owner' = [next EXCEPT !.at = "idle", !.playing = FALSE,
                           !.pos = IF next.track = owner.was THEN place ELSE @]
  /\ receipt' = [receipt EXCEPT !.adopted = @ \/ Presented]
  /\ UNCHANGED <<stream, ledger, pcm, sent, bound, worker, place, gate, cancel, request, hist>>
Resume ==
  /\ Alive /\ ~cancel /\ owner.at = "idle" /\ ~owner.playing
  /\ gate' = TRUE
  /\ owner' = [owner EXCEPT !.playing = TRUE]
  /\ UNCHANGED <<stream, ledger, pcm, sent, bound, receipt, worker, place, cancel, request, hist>>
Owner == OwnerTick \/ PauseGate \/ PauseHeard \/ PauseLate \/ PauseKept \/ Resume

Next == Worker \/ DevicePlays \/ Owner
Spec == Init /\ [][Next]_vars

-----------------------------------------------------------------------------
TypeOK ==
  /\ Len(stream.holds) <= Frames /\ stream.corked \in BOOLEAN
  /\ {worker.unseen, ledger.presented, sent.audio, place} \subseteq Nat
  /\ gate \in BOOLEAN /\ cancel \in BOOLEAN /\ owner.track \in DOMAIN Tracks

HeardOf(k) == Len(SelectSeq(stream.heard, LAMBDA f : TrackOf(f) = k))
Resting == owner.at = "idle" /\ ~owner.playing
(* A Pause that was answered keeps the place where the listener is: music  *)
(* counts, silence does not, and a boundary counts once it was played.     *)
KeptIsHeard ==
  Resting /\ owner.heard /\ ~hist.unsettled
    => owner.pos = HeardOf(owner.track) + (IF owner.track = 1 THEN Start ELSE 0)
(* After an answer nothing sounds until Resume, whatever the worker was    *)
(* about to do; without one the pipeline is on its way out.                *)
PausedIsSilent == Resting => IF owner.heard THEN stream.corked ELSE cancel
(* The session names a track when all before it was heard.                 *)
CurrentIsHeard == Len(stream.heard) >= FirstOf(owner.track) - 1 - Start
(* A pipeline that reports completion was heard to its end.                *)
CompletedIsHeard == worker.end = "completed" => Len(stream.heard) = LastOf(pcm.track) - Start
(* The ledger holds what the stream holds; it never refuses an entry.      *)
LedgerSuffices == Len(ledger.pending) < LedgerCap
(* Every frame is heard once, in order.                                    *)
HeardInOrder == \A i \in DOMAIN stream.heard : stream.heard[i] = Start + i

PulseSafe ==
  /\ KeptIsHeard /\ PausedIsSilent /\ CurrentIsHeard /\ CompletedIsHeard /\ LedgerSuffices
  /\ HeardInOrder
=============================================================================
