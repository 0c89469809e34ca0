----------------------------- MODULE HttpSource -----------------------------
(***************************************************************************)
(* How the decoder reads a track from a server: HttpSource keeps one HTTP  *)
(* response open and asks for another byte range when it must jump;        *)
(* BoundedHttpReader keeps a sliding window over it; the decoder peeks,    *)
(* reads and seeks as its container asks and in the end is told either     *)
(* that the track is over or what went wrong.                              *)
(*                                                                         *)
(* A file is a sequence of pieces: piece i of version v is <<v, i>>.  The  *)
(* server may replace the file at any time by another, of the same length  *)
(* or not.  A body that announces no length ends in a marked chunk.        *)
(***************************************************************************)
EXTENDS Integers, Sequences, FiniteSets

CONSTANTS
  Size,        \* version -> its number of pieces
  Window,      \* COMPRESSED_WINDOW_BYTES, in pieces
  MaxPiece,    \* NETWORK_CHUNK_CAPACITY_BYTES, in pieces; a read copies one
  Looks,       \* how many calls the decoder makes
  MaxFaults    \* requests and bodies that fail, stall or come too late

VARIABLES
  served,   \* the server: the version it has now
  src,      \* HttpSource: the open response, what of it was not copied yet, ...
  win,      \* BoundedHttpReader, and the StreamFailureState it shares
  dec,      \* the decoder: the call it is in, what it got last, its verdict
  cancel,   \* the token of the pipeline
  faults

vars == <<served, src, win, dec, cancel, faults>>

Versions == DOMAIN Size
Piece(v, i) == <<v, i>>
Unknown == -1
NoBody == [open |-> FALSE, ver |-> 1, next |-> 0]
Body(v, from) == [open |-> TRUE, ver |-> v, next |-> from]

Init ==
  /\ served = 1 /\ cancel = FALSE /\ faults = 0
  /\ src = [body |-> NoBody, pend |-> <<>>, pos |-> 0, len |-> Unknown, strong |-> FALSE,
            first |-> 1, ready |-> FALSE]
  /\ win = [base |-> 0, bytes |-> <<>>, pos |-> 0, eof |-> FALSE, failure |-> "none"]
  /\ dec = [call |-> "fetch", want |-> 0, at |-> 0, got |-> <<>>, left |-> Looks, probing |-> TRUE,
            verdict |-> "none"]

Fault == faults < MaxFaults /\ faults' = faults + 1
End == win.base + Len(win.bytes)
AtKnownEnd == win.pos = src.len

(* The world: another file on the server, a cancelled pipeline, and an     *)
(* output that is ready, after which no deadline counts.                   *)
Replaced ==
  /\ served + 1 \in Versions /\ served' = served + 1
  /\ UNCHANGED <<src, win, dec, cancel, faults>>
Cancelled ==
  /\ ~cancel /\ dec.verdict = "none" /\ cancel' = TRUE
  /\ UNCHANGED <<served, src, win, dec, faults>>
Ready ==
  /\ ~src.ready /\ dec.call # "fetch" /\ src' = [src EXCEPT !.ready = TRUE]
  /\ UNCHANGED <<served, win, dec, cancel, faults>>

-----------------------------------------------------------------------------
(* The first request (fetch): a 401 is tried once more with fresh headers; *)
(* a status, a format or a type that is wrong is refused.                  *)
Fetch ==
  /\ dec.call = "fetch"
  /\ \/ \E sized, strong \in BOOLEAN :
          src' = [src EXCEPT !.body = Body(served, 0), !.first = served, !.strong = strong,
                             !.len = IF sized THEN Size[served] ELSE Unknown]
        /\ dec' = [dec EXCEPT !.call = "idle"] /\ UNCHANGED faults
     \/ /\ Fault /\ UNCHANGED src
        /\ \E why \in {"timeout", "source", "unsupported"} :
             dec' = [dec EXCEPT !.call = "over", !.verdict = why]
  /\ UNCHANGED <<served, win, cancel>>

(* What a server may say to a range request, and what is accepted of it: a *)
(* 206 of the type, the offset, the length and, if the first response had  *)
(* one, the strong validator that are expected.                            *)
Replies == [status : {200, 206}, from : {0, win.pos}, ver : {served}]
Accepted(reply) ==
  /\ reply.status = 206 /\ reply.from = win.pos
  /\ src.len = Size[reply.ver]
  /\ src.strong => reply.ver = src.first

(* An error of the source is kept in the failure state before the decoder  *)
(* sees it; one of the window is not.                                      *)
Errs(kind) ==
  /\ dec' = [dec EXCEPT !.call = "error"]
  /\ win' = [win EXCEPT !.failure = IF kind = "none" THEN @ ELSE kind]

(* HttpSource::seek, on behalf of a read outside of the window: the old    *)
(* response is closed before the new one is asked for.                     *)
Outside == win.pos < win.base \/ win.pos > End
Landed == win' = [win EXCEPT !.bytes = <<>>, !.base = win.pos, !.eof = FALSE] /\ UNCHANGED dec
Jump(closed) ==
  LET gone == [src EXCEPT !.body = NoBody, !.pend = <<>>]
  IN \/ /\ src.len = win.pos
        /\ src' = [gone EXCEPT !.pos = win.pos] /\ Landed /\ UNCHANGED faults
     \/ /\ src.len # win.pos
        /\ \E reply \in Replies :
             IF Accepted(reply)
             THEN src' = [gone EXCEPT !.body = Body(reply.ver, reply.from), !.pos = win.pos] /\ Landed
             ELSE src' = closed /\ Errs("unsupported")
        /\ UNCHANGED faults
     \/ /\ src.len # win.pos /\ Fault /\ src' = closed
        /\ \E why \in {"timeout", "source"} : Errs(why)
Reposition ==
  /\ dec.call \in {"peek", "read"} /\ Outside
  /\ \/ cancel /\ Errs("source") /\ UNCHANGED <<src, faults>>
     \/ ~cancel /\ ~src.ready /\ Fault /\ Errs("timeout") /\ UNCHANGED src
     \/ ~cancel /\ src.pos = win.pos /\ Landed /\ UNCHANGED <<src, faults>>
     \/ ~cancel /\ src.pos # win.pos /\ Jump([src EXCEPT !.body = NoBody, !.pend = <<>>])
  /\ UNCHANGED <<served, cancel>>

(* receive_next: one piece more in the window, which forgets what was read *)
(* when it is full.                                                        *)
Hungry ==
  /\ dec.call \in {"peek", "read"} /\ ~Outside /\ ~win.eof
  /\ IF dec.call = "peek" THEN End - win.pos < dec.want ELSE win.pos = End
Kept(piece) ==
  LET over == Len(win.bytes) + 1 - Window
  IN IF over > win.pos - win.base THEN Errs("none")
     ELSE /\ win' = IF over > 0
                    THEN [win EXCEPT !.bytes = Append(SubSeq(@, over + 1, Len(@)), piece), !.base = @ + over]
                    ELSE [win EXCEPT !.bytes = Append(@, piece)]
          /\ UNCHANGED dec
BodyEnds == src.body.next = Size[src.body.ver]
Chunks ==
  { [i \in 1 .. k |-> Piece(src.body.ver, src.body.next + i - 1)] :
      k \in 1 .. (IF src.body.next + MaxPiece > Size[src.body.ver]
                  THEN Size[src.body.ver] - src.body.next ELSE MaxPiece) }
Takes(pieces, body) ==
  /\ src' = [src EXCEPT !.body = body, !.pend = Tail(pieces), !.pos = @ + 1]
  /\ Kept(Head(pieces))
Receive ==
  /\ Hungry
  /\ \/ cancel /\ Errs("none") /\ UNCHANGED <<src, faults>>
     \/ ~cancel /\ ~src.ready /\ Fault /\ Errs("timeout") /\ UNCHANGED src
     \/ ~cancel /\ src.pend # <<>> /\ Takes(src.pend, src.body) /\ UNCHANGED faults
     \/ /\ ~cancel /\ src.pend = <<>> /\ ~src.body.open
        /\ win' = [win EXCEPT !.eof = TRUE] /\ UNCHANGED <<src, dec, faults>>
     \/ /\ ~cancel /\ src.pend = <<>> /\ src.body.open
        /\ \/ \E chunk \in Chunks : 
                Takes(chunk, [src.body EXCEPT !.next = @ + Len(chunk)]) /\ UNCHANGED faults
           \/ /\ BodyEnds /\ win' = [win EXCEPT !.eof = TRUE]
              /\ src' = [src EXCEPT !.body = NoBody] /\ UNCHANGED <<dec, faults>>
           \/ /\ Fault /\ UNCHANGED src
              /\ \E why \in {"timeout", "source", "unsupported"} : Errs(why)
  /\ UNCHANGED <<served, cancel>>

-----------------------------------------------------------------------------
(* The decoder.                                                            *)
(* decode_stream peeks before it hands the reader to the demuxer, which    *)
(* reads and seeks.                                                        *)
Call ==
  /\ dec.call = "idle" /\ dec.left > 0
  /\ \E call \in {"peek", "read"}, n \in {1, Window + 1} :
       /\ call = "peek" => dec.probing
       /\ dec' = IF AtKnownEnd
                 THEN [dec EXCEPT !.call = "told", !.at = win.pos, !.got = <<>>, !.left = @ - 1,
                                  !.probing = FALSE]
                 ELSE [dec EXCEPT !.call = call, !.want = n, !.left = @ - 1, !.probing = call = "peek"]
  /\ UNCHANGED <<served, src, win, cancel, faults>>
Deliver ==
  LET avail == SubSeq(win.bytes, win.pos - win.base + 1, Len(win.bytes))
      count == IF Len(avail) < dec.want THEN Len(avail) ELSE dec.want
  IN /\ dec.call \in {"peek", "read"} /\ ~Outside /\ ~Hungry
     /\ dec' = [dec EXCEPT !.call = IF @ = "read" THEN "told" ELSE "idle", !.at = win.pos,
                           !.got = SubSeq(avail, 1, count)]
     /\ win' = [win EXCEPT !.pos = IF dec.call = "read" THEN @ + count ELSE @]
     /\ UNCHANGED <<served, src, cancel, faults>>

(* A seek of the reader is only a number until something is read; a size   *)
(* probe is a seek to the end.                                             *)
Seek == \E target \in 0 .. Size[1] :
  /\ dec.call = "idle" /\ dec.left > 0 /\ target # win.pos
  /\ src.len # Unknown => target <= src.len
  /\ win' = [win EXCEPT !.pos = target]
  /\ dec' = [dec EXCEPT !.left = @ - 1, !.probing = FALSE]
  /\ UNCHANGED <<served, src, cancel, faults>>

(* After a read or an error the demuxer goes on; or it takes what it got   *)
(* for the end of the track, which decode_stream believes unless the       *)
(* source failed; or it gives up, as decode_stream does while it probes.   *)
GoesOn ==
  /\ dec.call = "told" \/ (dec.call = "error" /\ ~dec.probing)
  /\ dec' = [dec EXCEPT !.call = "idle"]
  /\ UNCHANGED <<served, src, win, cancel, faults>>
TakenForTheEnd ==
  /\ \/ dec.call = "told" /\ dec.got = <<>>
     \/ dec.call = "error" /\ ~dec.probing
  /\ dec' = [dec EXCEPT !.call = "over", !.at = win.pos, !.got = <<>>,
               !.verdict = IF win.failure = "none" THEN "complete" ELSE win.failure]
  /\ UNCHANGED <<served, src, win, cancel, faults>>
GivesUp ==
  /\ dec.call = "error"
  /\ dec' = [dec EXCEPT !.call = "over", !.verdict = IF win.failure = "none" THEN "decode" ELSE win.failure]
  /\ UNCHANGED <<served, src, win, cancel, faults>>

Next ==
  \/ Replaced \/ Cancelled \/ Ready \/ Fetch \/ Reposition \/ Receive
  \/ Call \/ Deliver \/ Seek \/ GoesOn \/ TakenForTheEnd \/ GivesUp
Spec == Init /\ [][Next]_vars

-----------------------------------------------------------------------------
(* What the decoder is given is the file, piece by piece from where it     *)
(* asked, and never two files mixed, unless the server has no validator.   *)
OneFile ==
  \A i \in DOMAIN dec.got :
    /\ dec.got[i][2] = dec.at + i - 1
    /\ src.strong => dec.got[i][1] = src.first

(* A track that counts as decoded to its end was read to its end: however  *)
(* a request failed and whatever the demuxer made of it.                   *)
CompleteIsWhole == dec.verdict = "complete" /\ ~cancel => dec.at = Size[src.first]

(* What is kept of the file stays within the budget.                       *)
WithinWindow == Len(win.bytes) <= Window /\ Len(src.pend) < MaxPiece

SourceSafe == OneFile /\ CompleteIsWhole /\ WithinWindow
=============================================================================
