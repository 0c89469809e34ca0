------------------------------ MODULE Staging ------------------------------
(***************************************************************************)
(* The pipeline in front of the device writer of SyncRun: one producer per *)
(* server fetches its items into files of a bounded staging area, a queue  *)
(* hands them to the one writer.  What the user chose goes before what     *)
(* auto-fill adds, across all producers, so that a full device lacks the   *)
(* right tracks.                                                           *)
(*                                                                         *)
(* A cancellation is polled: a step that was already under way may still   *)
(* be taken after it, so only the exits ask for it.                        *)
(***************************************************************************)
EXTENDS Naturals, Sequences, FiniteSets, Functions

CONSTANTS
  Producers,   \* the servers that have something to deliver
  Plans,       \* what they deliver: functions from Producers to sequences of Items
  MaxTracks,   \* PROVIDER_READY_QUEUE_MAX_TRACKS
  MaxBytes     \* PROVIDER_READY_QUEUE_MAX_BYTES and MAX_FILE_BUFFER_BYTES

(* An item of the delta: the size it was announced with and the one it has. *)
Items == [name : STRING, auto : BOOLEAN, size : Nat, real : Nat]
NoItem == [name |-> "none", auto |-> FALSE, size |-> 0, real |-> 0]

ASSUME StagingConstants ==
  /\ IsFiniteSet(Producers) /\ MaxTracks \in Nat /\ MaxBytes \in Nat
  /\ Plans \subseteq [Producers -> Seq(Items)]

VARIABLES
  plan,       \* the adds of the delta by server
  producer,   \* the task of each server
  arrived,    \* the producers that wait at the priority barrier, or did
  permits,    \* the free permits of count_limiter
  used,       \* the bytes taken from byte_limiter
  queue,      \* staged tracks with the bytes their permits hold
  writer,     \* the writer: its stage and the track it has
  cancelled   \* the operation's token

stagVars == <<plan, producer, arrived, permits, used, queue, writer, cancelled>>

ProducerStages == {"next", "barrier", "source", "count", "bytes", "stream", "send", "last", "ended"}
Unbegun ==
  [at |-> "next", todo |-> <<>>, held |-> 0, got |-> 0, retried |-> FALSE, passed |-> FALSE]
NoTrack == [item |-> NoItem, held |-> 0]

(* The stable sort by is_auto_fill: an add comes after those that precede. *)
Precedes(adds, j, i) == IF adds[j].auto = adds[i].auto THEN j < i ELSE adds[i].auto
Place(adds, i) == Cardinality({j \in DOMAIN adds : Precedes(adds, j, i)}) + 1
Sorted(adds) ==
  [n \in DOMAIN adds |-> adds[CHOOSE i \in DOMAIN adds : Place(adds, i) = n]]

StagInit ==
  /\ plan \in Plans
  /\ producer = [p \in Producers |-> [Unbegun EXCEPT !.todo = Sorted(plan[p])]]
  /\ arrived = {} /\ permits = MaxTracks /\ used = 0 /\ queue = <<>>
  /\ writer = [at |-> "receive", track |-> NoTrack, failed |-> FALSE]
  /\ cancelled = FALSE

At(p, stage) == producer[p].at = stage
Item(p) == Head(producer[p].todo)
Goto(p, stage) == producer' = [producer EXCEPT ![p].at = stage]
(* Leaving an item drops the permits taken for it.                         *)
Counts(p) == IF producer[p].at \in {"bytes", "stream", "send"} THEN 1 ELSE 0
Onward(t) ==
  [t EXCEPT !.at = "next", !.todo = Tail(t.todo), !.held = 0, !.got = 0, !.retried = FALSE]
NextItem(p) ==
  /\ producer' = [producer EXCEPT ![p] = Onward(@)]
  /\ permits' = permits + Counts(p) /\ used' = used - producer[p].held
Break(p) ==
  /\ producer' = [producer EXCEPT
       ![p] = [@ EXCEPT !.at = IF producer[p].passed THEN "ended" ELSE "last",
                        !.todo = <<>>, !.held = 0, !.got = 0]]
  /\ permits' = permits + Counts(p) /\ used' = used - producer[p].held

(***************************************************************************)
(* A producer.                                                             *)
(***************************************************************************)
unmoved == <<plan, queue, writer>>

Turn(p) ==
  /\ At(p, "next")
  /\ LET t == producer[p] IN
       Goto(p, CASE t.todo = <<>> -> IF t.passed THEN "ended" ELSE "last"
                 [] t.todo # <<>> /\ Head(t.todo).auto /\ ~t.passed -> "barrier"
                 [] OTHER -> "source")
  /\ UNCHANGED <<unmoved, arrived, permits, used, cancelled>>

(* Every producer comes to the barrier once: before its first auto-fill    *)
(* item, or at its end.                                                    *)
Arrive(p) ==
  /\ producer[p].at \in {"barrier", "last"}
  /\ p \notin arrived /\ arrived' = arrived \cup {p}
  /\ UNCHANGED <<unmoved, producer, permits, used, cancelled>>

Opens == arrived = Producers

Pass(p) ==
  /\ Opens /\ producer[p].at \in {"barrier", "last"}
  /\ producer' = [producer EXCEPT ![p].passed = TRUE,
                                  ![p].at = IF @ = "last" THEN "ended" ELSE "next"]
  /\ UNCHANGED <<unmoved, arrived, permits, used, cancelled>>

(* download_url and the request, each tried twice.                         *)
Opened(p) == At(p, "source") /\ Goto(p, "count")
             /\ UNCHANGED <<unmoved, arrived, permits, used, cancelled>>

(* A transcoded or auto-fill source that fails is left out.                *)
Skip(p) == At(p, "source") /\ NextItem(p) /\ UNCHANGED <<unmoved, arrived, cancelled>>

DropRest(p) == ~Item(p).auto /\ Break(p) /\ cancelled' = TRUE /\ UNCHANGED <<unmoved, arrived>>
SourceFails(p) == At(p, "source") /\ DropRest(p)

TakeCount(p) ==
  /\ At(p, "count") /\ permits > 0 /\ permits' = permits - 1 /\ Goto(p, "bytes")
  /\ UNCHANGED <<unmoved, arrived, used, cancelled>>

(* A file larger than the whole budget is an error; the rest goes on.      *)
TooLarge(p) ==
  /\ At(p, "bytes") /\ Item(p).size > MaxBytes /\ NextItem(p)
  /\ UNCHANGED <<unmoved, arrived, cancelled>>

TakeBytes(p) ==
  /\ At(p, "bytes") /\ Item(p).size <= MaxBytes - used
  /\ used' = used + Item(p).size
  /\ producer' = [producer EXCEPT ![p].at = "stream", ![p].held = Item(p).size]
  /\ UNCHANGED <<unmoved, arrived, permits, cancelled>>

(* A chunk arrives; the permit grows when the file is larger than it was   *)
(* announced, and waits for the bytes while it keeps those it has.         *)
Grows(p) == producer[p].got = producer[p].held
Chunk(p) ==
  /\ At(p, "stream") /\ producer[p].got < Item(p).real /\ producer[p].got < MaxBytes
  /\ Grows(p) => used < MaxBytes
  /\ producer' = [producer EXCEPT ![p].got = @ + 1,
                                  ![p].held = IF Grows(p) THEN @ + 1 ELSE @]
  /\ used' = IF Grows(p) THEN used + 1 ELSE used
  /\ UNCHANGED <<unmoved, arrived, permits, cancelled>>

(* The stream breaks or is too long: once it is asked for again.           *)
Again(p) ==
  /\ At(p, "stream") /\ ~producer[p].retried
  /\ producer' = [producer EXCEPT ![p].got = 0, ![p].retried = TRUE]
  /\ UNCHANGED <<unmoved, arrived, permits, used, cancelled>>

Broken(p) == At(p, "stream") /\ producer[p].retried
StreamSkipped(p) ==
  Broken(p) /\ Item(p).auto /\ NextItem(p) /\ UNCHANGED <<unmoved, arrived, cancelled>>
StreamFails(p) == Broken(p) /\ DropRest(p)

(* Seeded bug: the permit is not told what the file did not need.          *)
StagedWhole(p) ==
  /\ At(p, "stream") /\ producer[p].got = Item(p).real
  /\ producer' = [producer EXCEPT ![p].at = "send", ![p].held = producer[p].got]
  /\ UNCHANGED <<unmoved, arrived, permits, used, cancelled>>

Staged(p) ==
  /\ At(p, "stream") /\ producer[p].got = Item(p).real
  /\ producer' = [producer EXCEPT ![p].at = "send", ![p].held = producer[p].got]
  /\ used' = used - (producer[p].held - producer[p].got)          \* shrink_to
  /\ UNCHANGED <<unmoved, arrived, permits, cancelled>>

(* try_send in a loop; the permits go with the track.                      *)
Send(p) ==
  /\ At(p, "send") /\ Len(queue) < MaxTracks
  /\ queue' = Append(queue, [item |-> Item(p), held |-> producer[p].held])
  /\ producer' = [producer EXCEPT ![p] = Onward(@)]
  /\ UNCHANGED <<plan, arrived, permits, used, writer, cancelled>>

(* Every wait of a producer looks at the token.                            *)
HearCancel(p) ==
  /\ cancelled /\ ~At(p, "ended")
  /\ IF At(p, "last") THEN Goto(p, "ended") /\ UNCHANGED <<permits, used>> ELSE Break(p)
  /\ UNCHANGED <<unmoved, arrived, cancelled>>

(***************************************************************************)
(* The writer.                                                             *)
(***************************************************************************)
still == <<plan, producer, arrived>>
GiveBack(track) == permits' = permits + 1 /\ used' = used - track.held
Ended == \A p \in Producers : At(p, "ended")

Receive ==
  /\ writer.at = "receive" /\ queue # <<>> /\ queue' = Tail(queue)
  /\ IF writer.failed \/ cancelled
     THEN GiveBack(Head(queue)) /\ UNCHANGED writer
     ELSE /\ writer' = [writer EXCEPT !.at = "write", !.track = Head(queue)]
          /\ UNCHANGED <<permits, used>>
  /\ UNCHANGED <<still, cancelled>>

(* The channel is closed when the last producer drops its sender.          *)
Close ==
  /\ writer.at = "receive"
  /\ cancelled \/ (queue = <<>> /\ Ended)
  /\ writer' = [writer EXCEPT !.at = "join"]
  /\ UNCHANGED <<still, permits, used, queue, cancelled>>

TrackWritten ==
  /\ writer.at = "write" /\ GiveBack(writer.track)
  /\ writer' = [writer EXCEPT !.at = "receive", !.track = NoTrack]
  /\ UNCHANGED <<still, queue, cancelled>>

(* A write that fails twice, or a manifest that cannot be saved: what is   *)
(* still queued is thrown away.                                            *)
WriteFails ==
  /\ writer.at = "write" /\ GiveBack(writer.track)
  /\ writer' = [at |-> "receive", track |-> NoTrack, failed |-> TRUE] /\ cancelled' = TRUE
  /\ UNCHANGED <<still, queue>>

Join ==
  /\ writer.at = "join" /\ Ended /\ writer' = [writer EXCEPT !.at = "ended"]
  /\ UNCHANGED <<still, permits, used, queue, cancelled>>

RequestCancel ==
  /\ writer.at # "ended" /\ ~cancelled /\ cancelled' = TRUE
  /\ UNCHANGED <<plan, producer, arrived, permits, used, queue, writer>>

(* What the daemon does by itself, what the servers decide.                *)
Local(p) ==
  \/ Turn(p) \/ Arrive(p) \/ Pass(p) \/ TakeCount(p) \/ TooLarge(p) \/ TakeBytes(p)
  \/ Staged(p) \/ Send(p) \/ HearCancel(p)
Served(p) == Opened(p) \/ Skip(p) \/ SourceFails(p) \/ Chunk(p)
Unserved(p) == Again(p) \/ StreamSkipped(p) \/ StreamFails(p)
WriterStep == Receive \/ Close \/ TrackWritten \/ WriteFails \/ Join

StagNext ==
  \/ \E p \in Producers : Local(p) \/ Served(p) \/ Unserved(p)
  \/ WriterStep \/ RequestCancel

(* The tasks are scheduled and the device answers; whether a server does   *)
(* is not the daemon's.                                                    *)
TasksFair == (\A p \in Producers : WF_stagVars(Local(p))) /\ WF_stagVars(WriterStep)
ServersAnswer == \A p \in Producers : WF_stagVars(Served(p))
StagSpec == StagInit /\ [][StagNext]_stagVars
StagFair == StagSpec /\ TasksFair

-----------------------------------------------------------------------------
Holdings == 0 .. MaxBytes
ProducerTasks == [at : ProducerStages, todo : Seq(Items), held : Holdings, got : Holdings,
                  retried : BOOLEAN, passed : BOOLEAN]
Tracks == [item : Items \cup {NoItem}, held : Holdings]
StagTypeOK ==
  /\ plan \in Plans /\ arrived \subseteq Producers /\ cancelled \in BOOLEAN
  /\ producer \in [Producers -> ProducerTasks]
  /\ permits \in 0 .. MaxTracks /\ used \in Holdings
  /\ queue \in Seq(Tracks) /\ Len(queue) <= MaxTracks
  /\ writer \in [at : {"receive", "write", "join", "ended"}, track : Tracks, failed : BOOLEAN]

(* Nothing of auto-fill is fetched while a producer, any producer, has an  *)
(* item the user chose.                                                    *)
Fetching(p) == producer[p].at \in {"source", "count", "bytes", "stream", "send"}
ManualFirst ==
  (\E p \in Producers : Fetching(p) /\ Item(p).auto) /\ ~cancelled =>
    \A q \in Producers : \A i \in Range(producer[q].todo) : i.auto

(* The permits are returned exactly once, on every way an item takes: each *)
(* one that is taken has a holder, a producer, a track of the queue or the *)
(* writer.  The bytes that all of them hold are counted one by one.        *)
Bytes(held) == Cardinality({u \in (DOMAIN held) \X (1 .. MaxBytes) : u[2] <= held[u[1]]})
Counting == {p \in Producers : Counts(p) = 1}
BudgetKept ==
  /\ used = Bytes([p \in Producers |-> producer[p].held])
             + Bytes([n \in DOMAIN queue |-> queue[n].held]) + writer.track.held
  /\ permits + Cardinality(Counting) + Len(queue)
       + (IF writer.at = "write" THEN 1 ELSE 0) = MaxTracks

(* Every permit is returned exactly once on every way an item takes, the   *)
(* queue and the budget are never exceeded, and nothing of auto-fill is    *)
(* fetched while something the user chose is outstanding.                  *)
StagingSafe == StagTypeOK /\ BudgetKept /\ ManualFirst

(* A cancelled run ends, whatever the servers do.                          *)
CancelEnds == cancelled ~> writer.at = "ended"

(* With servers that answer, and files no larger than announced, every run *)
(* ends by itself.                                                         *)
AsAnnounced == \A p \in Producers : \A i \in Range(plan[p]) : i.real <= i.size
RunEnds == ServersAnswer => (AsAnnounced ~> writer.at = "ended")
=============================================================================
