--------------------------- MODULE Services_proofs ---------------------------
(***************************************************************************)
(* Proofs about four of the smaller components: Lifecycle, Scrobbler,      *)
(* Servers and Staging.  They share nothing; each is proved for any number *)
(* of windows, launches, plays, detections, servers, requests and items,   *)
(* and for any number of failures and crashes.                             *)
(*                                                                         *)
(* Lifecycle.  Every daemon but one that failed to start and is on its way *)
(* out has the owner lock, and who is about to publish owner.json was      *)
(* neither fenced by an explicit Quit nor given up by its window.  The     *)
(* argument is about who holds which lock.  A candidate past its election  *)
(* holds owner.lock until it fails or ends, so that only one of them can   *)
(* be between the check of its generation and owner.json, and nobody else  *)
(* can advance the generation meanwhile.  A fenced candidate holds the     *)
(* ticket lock, without which no window can withdraw its ticket.           *)
(*                                                                         *)
(* Scrobbler.  No play is counted twice but for what went wrong with it.   *)
(* The argument is a balance per play: what the server has counted, and    *)
(* the tasks still to report it, exceed what is owed by one at most, and   *)
(* only while the play is recorded or a task has yet to record it.         *)
(*                                                                         *)
(* Servers.  Rows, secrets and cached providers stay together.  Only the   *)
(* request that has the manager changes the secret of a library, so that   *)
(* the invariant can say, step by step of that request, what the vault has *)
(* and had before; a provider was built from one of the two, and is        *)
(* entered only when no such change is under way.                          *)
(*                                                                         *)
(* Staging.  Every permit has one holder, and what the user chose goes     *)
(* first.  The bytes that many holders have are counted one by one, as the *)
(* size of a set of pairs, so that a step of one holder changes the sum by *)
(* its own part; the queue is counted by position, and its tail is the     *)
(* same set moved by one.  The order rests on the sort, in which every     *)
(* place is taken once, and on who may pass the barrier.                   *)
(***************************************************************************)
EXTENDS Lifecycle, Scrobbler, Servers, Staging, FiniteSetTheorems, TLAPS

-----------------------------------------------------------------------------
(* Lifecycle.                                                              *)
Holding == {"owner", "start", "ready", "fenced", "published", "opening",
        "serving", "quitting", "draining"}
Unstarted == {"none", "alone"}

(* Who has owner.lock: a candidate from its election to its failure or its *)
(* end, a window while it looks whether anybody has it.                    *)
Elected == \A d \in Launches : daemon[d].at \in Holding => ownerLock = d
Probing == \A w \in Windows : window[w].at = "probing" => ownerLock = w

(* A daemon that failed has let go of everything, and takes nothing again. *)
Abandoned == \A d \in Launches :
  daemon[d].at = "orphan" => descriptor # d /\ ownerLock # d /\ ticketLock # d

(* Verify compared the generation, and it has not moved since.             *)
Verified == \A d \in Launches :
  daemon[d].at \in {"start", "ready", "fenced"} => daemon[d].gen = generation

(* From the last look at its ticket to owner.json nobody takes it away.    *)
Fenced == \A d \in Launches :
  daemon[d].at = "fenced" => ticketLock = d /\ d \in tickets

(* A ticket that was withdrawn belonged to a launch that was started, and  *)
(* a launch gets a ticket but once.                                        *)
Withdrawn == \A d \in withdrawn : d \notin tickets /\ daemon[d].at \notin Unstarted
Asked == \A w \in Windows :
  window[w].ticket # Nobody => daemon[window[w].ticket].at \notin Unstarted

Inv == TypeOK /\ Elected /\ Probing /\ Abandoned /\ Verified /\ Fenced /\ Withdrawn /\ Asked

-----------------------------------------------------------------------------
(* What the invariant is for.                                              *)
LEMMA InvIsSafe == Inv => DaemonsSafe
<1> SUFFICES ASSUME Inv PROVE OneDaemon /\ FencedStands
  BY DEF DaemonsSafe, Inv
<1>1. OneDaemon
  BY DEF Inv, Elected, Holding, Abandoned, OneDaemon, Owning
<1>2. FencedStands
  BY DEF Inv, Elected, Holding, Verified, Fenced, Withdrawn, FencedStands
<1> QED BY <1>1, <1>2

LEMMA InitInv == Init => Inv
<1> SUFFICES ASSUME Init PROVE Inv
  OBVIOUS
<1>1. TypeOK
  BY ProcessesAssumption DEF Init, TypeOK, Stages, WindowStages, Nobody, Free, NoWindow
<1>2. Elected /\ Probing /\ Abandoned /\ Verified /\ Fenced /\ Withdrawn /\ Asked
  BY DEF Init, Elected, Probing, Abandoned, Verified, Fenced, Withdrawn, Asked, Holding,
        Unstarted, Nobody
<1> QED BY <1>1, <1>2 DEF Inv

(***************************************************************************)
(* Lemmas about the two ways a step touches a process.                     *)
(***************************************************************************)
WindowRecords(g) ==
  [at : WindowStages, gen : 0..g, ticket : Launches \cup {Nobody}, slow : BOOLEAN,
   saw : Launches \cup {Nobody}, status : {"starting", "ready", "stopped", "failed"}]
DaemonRecords(g) == [at : Stages, gen : 0..g, from : Windows \cup {NoWindow}]

(* A window's record keeps its type whichever of its fields a step sets.   *)
LEMMA Typed ==
  Inv => generation \in Nat /\ window \in [Windows -> WindowRecords(generation)]
BY DEF Inv, TypeOK, WindowRecords

LEMMA Moved ==
  ASSUME NEW g \in Nat, NEW f \in [Windows -> WindowRecords(g)], NEW w \in Windows,
         NEW stage \in WindowStages, NEW status \in {"starting", "ready", "stopped",
        "failed"}
  PROVE  [f EXCEPT ![w].at = stage, ![w].status = status] \in [Windows ->
        WindowRecords(g)]
<1>1. f[w] \in WindowRecords(g)
  OBVIOUS
<1>2. [f[w] EXCEPT !.at = stage, !.status = status] \in WindowRecords(g)
  BY <1>1 DEF WindowRecords
<1> QED BY <1>2

LEMMA Stepped ==
  ASSUME Inv, NEW d \in Launches, NEW stage \in Stages
  PROVE  [daemon EXCEPT ![d].at = stage]
           \in [Launches -> [at : Stages, gen : 0..generation, from : Windows \cup {NoWindow}]]
BY DEF Inv, TypeOK

LEMMA Asks ==
  ASSUME NEW g \in Nat, NEW f \in [Windows -> WindowRecords(g)], NEW w \in Windows,
         NEW stage \in WindowStages, NEW d \in Launches
  PROVE  [f EXCEPT ![w].ticket = d, ![w].at = stage] \in [Windows -> WindowRecords(g)]
<1>1. f[w] \in WindowRecords(g)
  OBVIOUS
<1>2. [f[w] EXCEPT !.ticket = d, !.at = stage] \in WindowRecords(g)
  BY <1>1 DEF WindowRecords
<1> QED BY <1>2

LEMMA Begins ==
  ASSUME NEW g \in Nat, NEW f \in [Windows -> WindowRecords(g)], NEW w \in Windows
  PROVE  [f EXCEPT ![w] = [@ EXCEPT !.at = "look", !.gen = g, !.slow = FALSE,
                                    !.status = "starting"]]
           \in [Windows -> WindowRecords(g)]
<1>1. f[w] \in WindowRecords(g)
  OBVIOUS
<1>2. [f[w] EXCEPT !.at = "look", !.gen = g, !.slow = FALSE, !.status = "starting"]
        \in WindowRecords(g)
  <2> DEFINE r == [f[w] EXCEPT !.at = "look", !.status = "starting"]
             s == [r EXCEPT !.gen = g]
  <2>1. r \in WindowRecords(g)
    BY <1>1 DEF WindowRecords, WindowStages
  <2>2. s \in WindowRecords(g)
    <3> HIDE DEF r
    <3> QED BY <2>1 DEF WindowRecords
  <2>3. [s EXCEPT !.slow = FALSE] \in WindowRecords(g)
    <3> HIDE DEF s
    <3> QED BY <2>2 DEF WindowRecords
  <2> QED BY <2>3
<1> QED BY <1>2

(***************************************************************************)
(* Every step of a window keeps the invariant.                             *)
(***************************************************************************)
LEMMA BeginInv ==
  ASSUME Inv, NEW w \in Windows, Begin(w) PROVE Inv'
<1> USE ProcessesAssumption DEF Begin, besidesWindow, fileVars, Unspent, Free, Nobody,
        NoWindow
<1>1. TypeOK'
  <2>1. window' \in [Windows -> WindowRecords(generation)]
    BY Typed, Begins
  <2> QED BY <2>1 DEF Inv, TypeOK, WindowRecords
<1>2. Elected' /\ Probing' /\ Abandoned'
  BY DEF Inv, TypeOK, Elected, Probing, Abandoned, Holding
<1>3. Verified' /\ Fenced'
  BY DEF Inv, TypeOK, Elected, Holding, Verified, Fenced, Unstarted
<1>4. Withdrawn' /\ Asked'
  BY DEF Inv, TypeOK, Withdrawn, Unstarted, Asked
<1> QED BY <1>1, <1>2, <1>3, <1>4 DEF Inv

LEMMA LookInv ==
  ASSUME Inv, NEW w \in Windows, Look(w) PROVE Inv'
<1> USE ProcessesAssumption DEF Look, Settle, Goes, besidesWindow, fileVars, Unspent,
        Free, Nobody, NoWindow
<1>1. TypeOK'
  BY DEF Inv, TypeOK, Stages, WindowStages
<1>2. Elected' /\ Probing' /\ Abandoned'
  BY DEF Inv, TypeOK, Elected, Probing, Abandoned, Holding
<1>3. Verified' /\ Fenced'
  BY DEF Inv, TypeOK, Elected, Holding, Verified, Fenced, Unstarted
<1>4. Withdrawn' /\ Asked'
  BY DEF Inv, TypeOK, Withdrawn, Unstarted, Asked
<1> QED BY <1>1, <1>2, <1>3, <1>4 DEF Inv

LEMMA ReadInv ==
  ASSUME Inv, NEW w \in Windows, Read(w) PROVE Inv'
<1> USE ProcessesAssumption DEF Read, besidesWindow, fileVars, Unspent, Free, Nobody,
        NoWindow
<1>1. TypeOK'
  BY DEF Inv, TypeOK, Stages, WindowStages
<1>2. Elected' /\ Probing' /\ Abandoned'
  BY DEF Inv, TypeOK, Elected, Probing, Abandoned, Holding
<1>3. Verified' /\ Fenced'
  BY DEF Inv, TypeOK, Elected, Holding, Verified, Fenced, Unstarted
<1>4. Withdrawn' /\ Asked'
  BY DEF Inv, TypeOK, Withdrawn, Unstarted, Asked
<1> QED BY <1>1, <1>2, <1>3, <1>4 DEF Inv

LEMMA AskInv ==
  ASSUME Inv, NEW w \in Windows, Ask(w) PROVE Inv'
<1> USE ProcessesAssumption DEF Ask, Settle, Goes, besidesWindow, fileVars, Unspent,
        Free, Nobody, NoWindow
<1>1. TypeOK'
  BY DEF Inv, TypeOK, Stages, WindowStages
<1>2. Elected' /\ Probing' /\ Abandoned'
  BY DEF Inv, TypeOK, Elected, Probing, Abandoned, Holding
<1>3. Verified' /\ Fenced'
  BY DEF Inv, TypeOK, Elected, Holding, Verified, Fenced, Unstarted
<1>4. Withdrawn' /\ Asked'
  BY DEF Inv, TypeOK, Withdrawn, Unstarted, Asked
<1> QED BY <1>1, <1>2, <1>3, <1>4 DEF Inv

LEMMA ProbeInv ==
  ASSUME Inv, NEW w \in Windows, Probe(w) PROVE Inv'
<1> USE ProcessesAssumption DEF Probe, Goes, besidesWindow, fileVars, Unspent, Free,
        Nobody, NoWindow
<1>1. TypeOK'
  BY DEF Inv, TypeOK, Stages, WindowStages
<1>2. Elected' /\ Probing' /\ Abandoned'
  BY DEF Inv, TypeOK, Elected, Probing, Abandoned, Holding
<1>3. Verified' /\ Fenced'
  BY DEF Inv, TypeOK, Elected, Holding, Verified, Fenced, Unstarted
<1>4. Withdrawn' /\ Asked'
  BY DEF Inv, TypeOK, Withdrawn, Unstarted, Asked
<1> QED BY <1>1, <1>2, <1>3, <1>4 DEF Inv

LEMMA SpawnInv ==
  ASSUME Inv, NEW w \in Windows, Spawn(w) PROVE Inv'
<1> USE ProcessesAssumption DEF Free, Nobody, NoWindow
<1>1. CASE generation # window[w].gen
  <2>1. /\ ownerLock = w /\ ownerLock' = Free
        /\ window' = [window EXCEPT ![w].at = "end", ![w].status = "stopped"]
        /\ UNCHANGED <<generation, descriptor, tickets, failures, ticketLock, daemon>>
        /\ UNCHANGED <<budget, withdrawn>>
    BY <1>1 DEF Spawn, Settle, Unspent, Inv, Probing
  <2>2. TypeOK'
    <3>1. window' \in [Windows -> WindowRecords(generation)]
      BY <2>1, Typed, Moved DEF WindowStages
    <3> QED BY <2>1, <3>1 DEF Inv, TypeOK, WindowRecords
  <2>3. Elected' /\ Probing' /\ Abandoned'
    BY <2>1 DEF Inv, TypeOK, Elected, Probing, Abandoned
  <2>4. Verified' /\ Fenced' /\ Withdrawn' /\ Asked'
    BY <2>1 DEF Inv, TypeOK, Verified, Fenced, Withdrawn, Asked
  <2> QED BY <2>2, <2>3, <2>4 DEF Inv
<1>2. CASE generation = window[w].gen
  <2>1. /\ ownerLock = w /\ ownerLock' = Free
        /\ UNCHANGED <<generation, descriptor, failures, ticketLock, budget, withdrawn>>
    BY DEF Spawn, Unspent, Inv, Probing
  <2>2. PICK d \in Launches :
          /\ Fresh(d) /\ tickets' = tickets \cup {d}
          /\ daemon' = [daemon EXCEPT
               ![d] = [at |-> "begin", gen |-> window[w].gen, from |-> w]]
          /\ window' = [window EXCEPT ![w].ticket = d, ![w].at = "look"]
    BY <1>2 DEF Spawn
  <2>3. daemon[d].at = "none"
    BY <2>2 DEF Fresh
  <2>4. TypeOK'
    <3>1. window[w].gen \in 0..generation
      BY DEF Inv, TypeOK
    <3>2. daemon' \in [Launches -> DaemonRecords(generation)]
      BY <2>2, <3>1 DEF Inv, TypeOK, DaemonRecords, Stages
    <3>3. window' \in [Windows -> WindowRecords(generation)]
      BY <2>2, Typed, Asks DEF WindowStages
    <3> QED BY <2>1, <2>2, <3>2, <3>3 DEF Inv, TypeOK, DaemonRecords, WindowRecords
  <2>5. Elected' /\ Probing' /\ Abandoned'
    BY <2>1, <2>2 DEF Inv, TypeOK, Elected, Probing, Abandoned, Holding
  <2>6. Verified' /\ Fenced'
    BY <2>1, <2>2 DEF Inv, TypeOK, Verified, Fenced
  <2>7. Withdrawn' /\ Asked'
    BY <2>1, <2>2, <2>3 DEF Inv, TypeOK, Withdrawn, Asked, Unstarted
  <2> QED BY <2>4, <2>5, <2>6, <2>7 DEF Inv
<1> QED BY <1>1, <1>2

LEMMA ExpireInv ==
  ASSUME Inv, NEW w \in Windows, Expire(w) PROVE Inv'
<1> USE ProcessesAssumption DEF Expire, Settle, Spend, besidesWindow, fileVars, Free,
        Nobody, NoWindow
<1>1. TypeOK'
  <2>1. window' \in [Windows -> WindowRecords(generation)]
    BY Typed, Moved DEF WindowStages
  <2>2. budget' \in Nat
    BY DEF Inv, TypeOK
  <2> QED BY <2>1, <2>2 DEF Inv, TypeOK, WindowRecords
<1>2. Elected' /\ Probing' /\ Abandoned'
  BY DEF Inv, TypeOK, Elected, Probing, Abandoned, Holding
<1>3. Verified' /\ Fenced'
  BY DEF Inv, TypeOK, Elected, Holding, Verified, Fenced, Unstarted
<1>4. Withdrawn' /\ Asked'
  BY DEF Inv, TypeOK, Withdrawn, Unstarted, Asked
<1> QED BY <1>1, <1>2, <1>3, <1>4 DEF Inv

LEMMA WithdrawInv ==
  ASSUME Inv, NEW w \in Windows, Withdraw(w) PROVE Inv'
<1> USE ProcessesAssumption DEF Withdraw, besidesWindow, fileVars, Unspent, Free,
        Nobody, NoWindow
<1>1. TypeOK'
  BY DEF Inv, TypeOK, Stages, WindowStages
<1>2. Elected' /\ Probing' /\ Abandoned'
  BY DEF Inv, TypeOK, Elected, Probing, Abandoned, Holding
<1>3. Verified' /\ Fenced'
  BY DEF Inv, TypeOK, Elected, Holding, Verified, Fenced, Unstarted
<1>4. Withdrawn' /\ Asked'
  BY DEF Inv, TypeOK, Withdrawn, Unstarted, Asked
<1> QED BY <1>1, <1>2, <1>3, <1>4 DEF Inv

LEMMA RetryInv ==
  ASSUME Inv, NEW w \in Windows, Retry(w) PROVE Inv'
<1> USE ProcessesAssumption DEF Retry, Spend, besidesWindow, fileVars, Free, Nobody,
        NoWindow
<1>1. TypeOK'
  <2>1. window' \in [Windows -> WindowRecords(generation)]
    BY Typed, Moved DEF WindowStages
  <2>2. budget' \in Nat
    BY DEF Inv, TypeOK
  <2> QED BY <2>1, <2>2 DEF Inv, TypeOK, WindowRecords
<1>2. Elected' /\ Probing' /\ Abandoned'
  BY DEF Inv, TypeOK, Elected, Probing, Abandoned, Holding
<1>3. Verified' /\ Fenced'
  BY DEF Inv, TypeOK, Elected, Holding, Verified, Fenced, Unstarted
<1>4. Withdrawn' /\ Asked'
  BY DEF Inv, TypeOK, Withdrawn, Unstarted, Asked
<1> QED BY <1>1, <1>2, <1>3, <1>4 DEF Inv

(***************************************************************************)
(* Every step of a candidate keeps the invariant: it takes owner.lock when *)
(* that is free, and the generation moves only in the hands of the owner.  *)
(***************************************************************************)
LEMMA LaunchInv ==
  ASSUME Inv, NEW d \in Launches, Launch(d) PROVE Inv'
<1> USE ProcessesAssumption DEF Launch, Fresh, Spend, besidesDaemon, fileVars,
        Unspent, Free, Nobody, NoWindow
<1>1. TypeOK'
  BY DEF Inv, TypeOK, Stages, WindowStages
<1>2. Elected' /\ Probing' /\ Abandoned'
  BY DEF Inv, TypeOK, Elected, Probing, Abandoned, Holding
<1>3. Verified' /\ Fenced'
  BY DEF Inv, TypeOK, Elected, Holding, Verified, Fenced, Unstarted
<1>4. Withdrawn' /\ Asked'
  BY DEF Inv, TypeOK, Withdrawn, Unstarted, Asked
<1> QED BY <1>1, <1>2, <1>3, <1>4 DEF Inv

LEMMA OwnTicketInv ==
  ASSUME Inv, NEW d \in Launches, OwnTicket(d) PROVE Inv'
<1> USE ProcessesAssumption DEF OwnTicket, Steps, besidesDaemon, fileVars, Unspent,
        Free, Nobody, NoWindow
<1>1. TypeOK'
  BY Stepped DEF Inv, TypeOK, Stages
<1>2. Elected' /\ Probing' /\ Abandoned'
  BY DEF Inv, TypeOK, Elected, Probing, Abandoned, Holding
<1>3. Verified' /\ Fenced'
  BY DEF Inv, TypeOK, Elected, Holding, Verified, Fenced, Unstarted
<1>4. Withdrawn' /\ Asked'
  BY DEF Inv, TypeOK, Withdrawn, Unstarted, Asked
<1> QED BY <1>1, <1>2, <1>3, <1>4 DEF Inv

LEMMA ValidateInv ==
  ASSUME Inv, NEW d \in Launches, Validate(d) PROVE Inv'
<1> USE ProcessesAssumption DEF Validate, Steps, Fails, Published, Ends, Drops, Release, Own, Ticket,
        besidesDaemon, fileVars, Unspent, Free, Nobody, NoWindow
<1>1. TypeOK'
  BY SMTT(20) DEF Inv, TypeOK, Stages, WindowStages
<1>2. Elected' /\ Probing' /\ Abandoned'
  BY DEF Inv, TypeOK, Elected, Probing, Abandoned, Holding
<1>3. Verified' /\ Fenced'
  BY DEF Inv, TypeOK, Elected, Holding, Verified, Fenced, Unstarted
<1>4. Withdrawn' /\ Asked'
  BY DEF Inv, TypeOK, Withdrawn, Unstarted, Asked
<1> QED BY <1>1, <1>2, <1>3, <1>4 DEF Inv

LEMMA AcquireInv ==
  ASSUME Inv, NEW d \in Launches, Acquire(d) PROVE Inv'
<1> USE ProcessesAssumption DEF Acquire, Steps, besidesDaemon, fileVars, Unspent,
        Free, Nobody, NoWindow
<1>1. TypeOK'
  BY SMTT(20) DEF Inv, TypeOK, Stages, WindowStages
<1>2. Elected' /\ Probing' /\ Abandoned'
  BY DEF Inv, TypeOK, Elected, Probing, Abandoned, Holding
<1>3. Verified' /\ Fenced'
  BY DEF Inv, TypeOK, Elected, Holding, Verified, Fenced, Unstarted
<1>4. Withdrawn' /\ Asked'
  BY DEF Inv, TypeOK, Withdrawn, Unstarted, Asked
<1> QED BY <1>1, <1>2, <1>3, <1>4 DEF Inv

LEMMA AttachInv ==
  ASSUME Inv, NEW d \in Launches, Attach(d) PROVE Inv'
<1> USE ProcessesAssumption DEF Attach, Fails, Published, Ends, Drops, Steps, Release, Own, Ticket,
        besidesDaemon, fileVars, Unspent, Free, Nobody, NoWindow
<1>1. TypeOK'
  BY SMTT(20) DEF Inv, TypeOK, Stages, WindowStages
<1>2. Elected' /\ Probing' /\ Abandoned'
  BY DEF Inv, TypeOK, Elected, Probing, Abandoned, Holding
<1>3. Verified' /\ Fenced'
  BY DEF Inv, TypeOK, Elected, Holding, Verified, Fenced, Unstarted
<1>4. Withdrawn' /\ Asked'
  BY DEF Inv, TypeOK, Withdrawn, Unstarted, Asked
<1> QED BY <1>1, <1>2, <1>3, <1>4 DEF Inv

LEMMA VerifyInv ==
  ASSUME Inv, NEW d \in Launches, Verify(d) PROVE Inv'
<1> USE ProcessesAssumption DEF Verify, Steps, Fails, Published, Ends, Drops, Release, Own, Ticket,
        Current, besidesDaemon, fileVars, Unspent, Free, Nobody, NoWindow
<1>1. TypeOK'
  BY SMTT(20) DEF Inv, TypeOK, Stages, WindowStages
<1>2. Elected' /\ Probing' /\ Abandoned'
  BY DEF Inv, TypeOK, Elected, Probing, Abandoned, Holding
<1>3. Verified' /\ Fenced'
  BY DEF Inv, TypeOK, Elected, Holding, Verified, Fenced, Unstarted
<1>4. Withdrawn'
  BY DEF Inv, TypeOK, Withdrawn, Unstarted
<1>5. Asked'
  BY DEF Inv, TypeOK, Unstarted, Asked
<1> QED BY <1>1, <1>2, <1>3, <1>4, <1>5 DEF Inv

LEMMA CoreReadyInv ==
  ASSUME Inv, NEW d \in Launches, CoreReady(d) PROVE Inv'
<1> USE ProcessesAssumption DEF CoreReady, Steps, besidesDaemon, fileVars, Unspent,
        Free, Nobody, NoWindow
<1>1. TypeOK'
  BY Stepped DEF Inv, TypeOK, Stages
<1>2. Elected' /\ Probing' /\ Abandoned'
  BY DEF Inv, TypeOK, Elected, Probing, Abandoned, Holding
<1>3. Verified' /\ Fenced'
  BY DEF Inv, TypeOK, Elected, Holding, Verified, Fenced, Unstarted
<1>4. Withdrawn' /\ Asked'
  BY DEF Inv, TypeOK, Withdrawn, Unstarted, Asked
<1> QED BY <1>1, <1>2, <1>3, <1>4 DEF Inv

LEMMA FenceInv ==
  ASSUME Inv, NEW d \in Launches, Fence(d) PROVE Inv'
<1> USE ProcessesAssumption DEF Fence, Steps, Abandons, Drops, Release, Own, Ticket,
        besidesDaemon, fileVars, Unspent, Free, Nobody, NoWindow
<1>1. TypeOK'
  BY SMTT(20) DEF Inv, TypeOK, Stages, WindowStages
<1>2. Elected' /\ Probing' /\ Abandoned'
  BY DEF Inv, TypeOK, Elected, Probing, Abandoned, Holding
<1>3. Verified' /\ Fenced'
  BY DEF Inv, TypeOK, Elected, Holding, Verified, Fenced, Unstarted
<1>4. Withdrawn'
  BY DEF Inv, TypeOK, Withdrawn, Unstarted
<1>5. Asked'
  BY DEF Inv, TypeOK, Unstarted, Asked
<1> QED BY <1>1, <1>2, <1>3, <1>4, <1>5 DEF Inv

LEMMA PublishInv ==
  ASSUME Inv, NEW d \in Launches, Publish(d) PROVE Inv'
<1> USE ProcessesAssumption DEF Publish, Steps, besidesDaemon, fileVars, Unspent,
        Free, Nobody, NoWindow
<1>1. TypeOK'
  BY Stepped DEF Inv, TypeOK, Stages
<1>2. Elected' /\ Probing' /\ Abandoned'
  BY DEF Inv, TypeOK, Elected, Probing, Abandoned, Holding
<1>3. Verified' /\ Fenced'
  BY DEF Inv, TypeOK, Elected, Holding, Verified, Fenced, Unstarted
<1>4. Withdrawn' /\ Asked'
  BY DEF Inv, TypeOK, Withdrawn, Unstarted, Asked
<1> QED BY <1>1, <1>2, <1>3, <1>4 DEF Inv

LEMMA ServeInv ==
  ASSUME Inv, NEW d \in Launches, Serve(d) PROVE Inv'
<1> USE ProcessesAssumption DEF Serve, Steps, besidesDaemon, fileVars, Unspent, Free,
        Nobody, NoWindow
<1>1. TypeOK'
  BY Stepped DEF Inv, TypeOK, Stages
<1>2. Elected' /\ Probing' /\ Abandoned'
  BY DEF Inv, TypeOK, Elected, Probing, Abandoned, Holding
<1>3. Verified' /\ Fenced'
  BY DEF Inv, TypeOK, Elected, Holding, Verified, Fenced, Unstarted
<1>4. Withdrawn' /\ Asked'
  BY DEF Inv, TypeOK, Withdrawn, Unstarted, Asked
<1> QED BY <1>1, <1>2, <1>3, <1>4 DEF Inv

LEMMA OpenInv ==
  ASSUME Inv, NEW d \in Launches, Open(d) PROVE Inv'
<1> USE ProcessesAssumption DEF Open, Steps, besidesDaemon, fileVars, Unspent,
        Free, Nobody, NoWindow
<1>1. TypeOK'
  BY Stepped DEF Inv, TypeOK, Stages
<1>2. Elected' /\ Probing' /\ Abandoned'
  BY DEF Inv, TypeOK, Elected, Probing, Abandoned, Holding
<1>3. Verified' /\ Fenced'
  BY DEF Inv, TypeOK, Elected, Holding, Verified, Fenced, Unstarted
<1>4. Withdrawn' /\ Asked'
  BY DEF Inv, TypeOK, Withdrawn, Unstarted, Asked
<1> QED BY <1>1, <1>2, <1>3, <1>4 DEF Inv

LEMMA ExitInv ==
  ASSUME Inv, NEW d \in Launches, Exit(d) PROVE Inv'
<1> USE ProcessesAssumption DEF Exit, Published, Steps, besidesDaemon, fileVars, Unspent,
        Free, Nobody, NoWindow
<1>1. TypeOK'
  BY Stepped DEF Inv, TypeOK, Stages
<1>2. Elected' /\ Probing' /\ Abandoned'
  BY DEF Inv, TypeOK, Elected, Probing, Abandoned, Holding
<1>3. Verified' /\ Fenced'
  BY DEF Inv, TypeOK, Elected, Holding, Verified, Fenced, Unstarted
<1>4. Withdrawn' /\ Asked'
  BY DEF Inv, TypeOK, Withdrawn, Unstarted, Asked
<1> QED BY <1>1, <1>2, <1>3, <1>4 DEF Inv

LEMMA FalterInv ==
  ASSUME Inv, NEW d \in Launches, Falter(d) PROVE Inv'
<1> USE ProcessesAssumption DEF Falter, Fails, Published, Abandons, Ends, Drops, Steps, Release, Own, Spend,
        besidesDaemon, fileVars, Unspent, Free, Nobody, NoWindow
<1>1. TypeOK'
  BY SMTT(20) DEF Inv, TypeOK, Stages, WindowStages
<1>2. Elected' /\ Probing' /\ Abandoned'
  BY DEF Inv, TypeOK, Elected, Probing, Abandoned, Holding
<1>3. Verified' /\ Fenced'
  BY DEF Inv, TypeOK, Elected, Holding, Verified, Fenced, Unstarted
<1>4. Withdrawn'
  BY DEF Inv, TypeOK, Withdrawn, Unstarted
<1>5. Asked'
  BY DEF Inv, TypeOK, Unstarted, Asked
<1> QED BY <1>1, <1>2, <1>3, <1>4, <1>5 DEF Inv

LEMMA CrashInv ==
  ASSUME Inv, NEW d \in Launches, Crash(d) PROVE Inv'
<1> USE ProcessesAssumption DEF Crash, Steps, Release, Spend, besidesDaemon, fileVars,
        Unspent, Free, Nobody, NoWindow
<1>1. TypeOK'
  BY SMTT(20) DEF Inv, TypeOK, Stages, WindowStages
<1>2. Elected' /\ Probing' /\ Abandoned'
  BY DEF Inv, TypeOK, Elected, Probing, Abandoned, Holding
<1>3. Verified' /\ Fenced'
  BY DEF Inv, TypeOK, Elected, Holding, Verified, Fenced, Unstarted
<1>4. Withdrawn' /\ Asked'
  BY DEF Inv, TypeOK, Withdrawn, Unstarted, Asked
<1> QED BY <1>1, <1>2, <1>3, <1>4 DEF Inv

LEMMA QuitInv ==
  ASSUME Inv, NEW d \in Launches, Quit(d) PROVE Inv'
<1> USE ProcessesAssumption DEF Quit, Steps, Spend, besidesDaemon, fileVars, Unspent,
        Free, Nobody, NoWindow
<1>1. TypeOK'
  <2>1. daemon' \in [Launches -> DaemonRecords(generation)]
    BY Stepped DEF Stages, DaemonRecords
  <2>2. budget' \in Nat
    BY DEF Inv, TypeOK
  <2> QED BY <2>1, <2>2 DEF Inv, TypeOK, DaemonRecords
<1>2. Elected' /\ Probing' /\ Abandoned'
  BY DEF Inv, TypeOK, Elected, Probing, Abandoned, Holding
<1>3. Verified' /\ Fenced'
  BY DEF Inv, TypeOK, Elected, Holding, Verified, Fenced, Unstarted
<1>4. Withdrawn' /\ Asked'
  BY DEF Inv, TypeOK, Withdrawn, Unstarted, Asked
<1> QED BY <1>1, <1>2, <1>3, <1>4 DEF Inv

LEMMA AdvanceInv ==
  ASSUME Inv, NEW d \in Launches, Advance(d) PROVE Inv'
<1> USE ProcessesAssumption DEF Advance, Steps, Spend, besidesDaemon, fileVars,
        Unspent, Free, Nobody, NoWindow
<1>1. TypeOK'
  <2>1. generation' \in {generation, generation + 1} /\ budget' \in Nat
    BY DEF Inv, TypeOK
  <2>2. 0..generation \subseteq 0..generation'
    BY <2>1 DEF Inv, TypeOK
  <2>3. daemon' \in [Launches -> DaemonRecords(generation)]
    BY DEF Inv, TypeOK, Stages, DaemonRecords
  <2>4. window \in [Windows -> WindowRecords(generation)]
    BY Typed
  <2>5. DaemonRecords(generation) \subseteq DaemonRecords(generation')
    BY <2>2 DEF DaemonRecords
  <2>6. WindowRecords(generation) \subseteq WindowRecords(generation')
    BY <2>2 DEF WindowRecords
  <2>7. daemon' \in [Launches -> DaemonRecords(generation')]
    BY <2>3, <2>5
  <2>8. window' \in [Windows -> WindowRecords(generation')]
    BY <2>4, <2>6
  <2> QED BY <2>1, <2>7, <2>8 DEF Inv, TypeOK, DaemonRecords, WindowRecords
<1>2. Elected' /\ Probing' /\ Abandoned'
  BY DEF Inv, TypeOK, Elected, Probing, Abandoned, Holding
<1>3. Verified' /\ Fenced'
  BY DEF Inv, TypeOK, Elected, Holding, Verified, Fenced, Unstarted
<1>4. Withdrawn' /\ Asked'
  BY DEF Inv, TypeOK, Withdrawn, Unstarted, Asked
<1> QED BY <1>1, <1>2, <1>3, <1>4 DEF Inv

LEMMA LeaveInv ==
  ASSUME Inv, NEW d \in Launches, Leave(d) PROVE Inv'
<1> USE ProcessesAssumption DEF Leave, Ends, Drops, Steps, Release, Own, besidesDaemon,
        fileVars, Unspent, Free, Nobody, NoWindow
<1>1. TypeOK'
  BY Stepped DEF Inv, TypeOK, Stages
<1>2. Elected' /\ Probing' /\ Abandoned'
  BY DEF Inv, TypeOK, Elected, Probing, Abandoned, Holding
<1>3. Verified' /\ Fenced'
  BY DEF Inv, TypeOK, Elected, Holding, Verified, Fenced, Unstarted
<1>4. Withdrawn' /\ Asked'
  BY DEF Inv, TypeOK, Withdrawn, Unstarted, Asked
<1> QED BY <1>1, <1>2, <1>3, <1>4 DEF Inv

-----------------------------------------------------------------------------
LEMMA NextInv == Inv /\ [Next]_vars => Inv'
<1> SUFFICES ASSUME Inv, [Next]_vars PROVE Inv'
  OBVIOUS
<1>1. ASSUME NEW w \in Windows, WindowStep(w) \/ Expire(w) \/ Retry(w) PROVE Inv'
  BY <1>1, BeginInv, LookInv, ReadInv, AskInv, ProbeInv, SpawnInv, ExpireInv,
        WithdrawInv, RetryInv DEF WindowStep
<1>2. ASSUME NEW d \in Launches, DaemonStep(d) PROVE Inv'
  BY <1>2, OwnTicketInv, ValidateInv, AcquireInv, AttachInv, VerifyInv, CoreReadyInv,
        FenceInv, PublishInv, ServeInv, OpenInv, AdvanceInv, LeaveInv, ExitInv DEF DaemonStep
<1>3. ASSUME NEW d \in Launches, Launch(d) \/ Falter(d) \/ Crash(d) \/ Quit(d) PROVE
        Inv'
  BY <1>3, LaunchInv, FalterInv, CrashInv, QuitInv
<1>4. CASE UNCHANGED vars
  BY <1>4 DEF vars, fileVars, Inv, TypeOK, Elected, Probing, Abandoned, Verified,
        Fenced, Withdrawn, Asked
<1> QED BY <1>1, <1>2, <1>3, <1>4 DEF Next

(* For any windows and any launches, whatever fails or dies and whenever:  *)
(* a daemon with a core has the owner lock, unless its launch failed and   *)
(* its process is about to end; one that failed has no lock, and owner.json *)
(* does not name it; and a candidate about to publish owner.json holds the *)
(* lock, has the generation of now (so no explicit Quit came after its     *)
(* launch), and was not given up by its window.                            *)
THEOREM DaemonsAreSafe == Spec => []DaemonsSafe
<1>1. Init => Inv
  BY InitInv
<1>2. Inv /\ [Next]_vars => Inv'
  BY NextInv
<1>3. Inv => DaemonsSafe
  BY InvIsSafe
<1> QED BY <1>1, <1>2, <1>3, PTL DEF Spec

-----------------------------------------------------------------------------
(* Scrobbler.                                                              *)
(* A play is with a task from the check to the record of it: it is reported *)
(* until the server counts it, then it waits to be recorded.                *)
Busy == {"rate", "check", "match", "start", "stop", "record"}
Reporting == {"match", "start", "stop"}
Tellings == {"skipped", "duplicate", "unmatched", "failed", "submitted"}
Reporters(k) == {t \in Tasks : task[t].at \in Reporting /\ Noted(t).key = k}
Recorders(k) == {t \in Tasks : task[t].at = "record" /\ Noted(t).key = k}

TasksTyped ==
  /\ ScrobTypeOK
  /\ task \in [Tasks -> [at : Busy \cup {"unborn", "done"}, total : Nat, said : Seq(Tellings)]]
  /\ \A t \in Tasks :
       /\ task[t].at \in Busy => Len(task[t].said) < task[t].total
       /\ task[t].at = "unborn" => task[t] = Unborn

(* A play is counted no oftener than was owed, but for the one that is     *)
(* recorded, or is with a task that has not recorded it yet.               *)
Owned(k) == k \in history \/ Reporters(k) # {} \/ Recorders(k) # {}
Counted(k) == played[k] + Cardinality(Reporters(k)) <= debts[k] + (IF Owned(k) THEN 1 ELSE 0)
CountedSoFar == \A k \in Keys : Counted(k)

RecordersCounted == \A k \in Keys : Recorders(k) # {} => played[k] > 0

(* What has been passed over undisturbed needed no report.                 *)
Settled(i) == Plays[i].liked /\ (Plays[i].listed \/ Plays[i].known) => Plays[i].key \in history
Told(t) ==
  \A i \in 1 .. Len(task[t].said) :
    /\ task[t].said[i] \in {"submitted", "duplicate"} => Plays[i].key \in history
    /\ task[t].said[i] = "unmatched" => ~Plays[i].listed /\ ~Plays[i].known
    /\ faults = 0 => Settled(i)
Complete(t) == task[t].at = "done" /\ faults = 0 => Len(task[t].said) = task[t].total

ScrobInv ==
  /\ TasksTyped /\ CountedSoFar /\ RecordedIsCounted /\ RecordersCounted
  /\ \A t \in Tasks : Told(t) /\ Complete(t)

LEMMA ScrobInvSafe == ScrobInv => ScrobblesSafe
<1> SUFFICES ASSUME ScrobInv PROVE ScrobblesSafe
  OBVIOUS
<1>1. CountedOnce
  <2> SUFFICES ASSUME NEW k \in Keys PROVE played[k] <= 1 + debts[k]
    BY DEF CountedOnce
  <2>1. Counted(k) /\ played[k] \in Nat /\ debts[k] \in Nat
    BY DEF ScrobInv, CountedSoFar, TasksTyped, ScrobTypeOK
  <2>2. IsFiniteSet(Reporters(k))
    BY FS_Subset, TasksAssumption DEF Reporters
  <2>3. Cardinality(Reporters(k)) \in Nat
    BY <2>2, FS_CardinalityType
  <2> QED BY <2>1, <2>3 DEF Counted
<1>2. ToldTruly
  BY DEF ScrobInv, Told, ToldTruly
<1>3. NoneLeftOut
  BY DEF ScrobInv, Told, Complete, Settled, NoneLeftOut, TaskAt
<1> QED BY <1>1, <1>2, <1>3 DEF ScrobblesSafe, ScrobInv, TasksTyped

LEMMA ScrobInitInv == ScrobInit => ScrobInv
<1> SUFFICES ASSUME ScrobInit PROVE ScrobInv
  OBVIOUS
<1>1. \A k : Reporters(k) = {} /\ Recorders(k) = {}
  BY DEF ScrobInit, Unborn, Reporters, Recorders, Reporting
<1>2. TasksTyped
  <2>1. Unborn \in [at : Busy \cup {"unborn", "done"}, total : Nat, said : Seq(Tellings)]
    BY DEF Unborn
  <2>2. Len(Unborn.said) <= Unborn.total /\ Unborn.total <= log /\ Unborn.at \notin Busy
    BY DEF Unborn, ScrobInit, Busy
  <2>3. log \in 0 .. Len(Plays)
    BY TasksAssumption DEF ScrobInit
  <2>4. ScrobTypeOK
    BY <2>2, <2>3, TasksAssumption DEF ScrobInit, ScrobTypeOK
  <2> QED BY <2>1, <2>2, <2>4 DEF ScrobInit, TasksTyped
<1>3. CountedSoFar
  BY <1>1, FS_EmptySet DEF ScrobInit, CountedSoFar, Counted, Owned
<1>4. \A t \in Tasks : Told(t) /\ Complete(t)
  BY DEF ScrobInit, Unborn, Told, Complete
<1> QED BY <1>1, <1>2, <1>3, <1>4 DEF ScrobInv, ScrobInit, RecordedIsCounted, RecordersCounted

(* A step of one task leaves the others where they are.                    *)
Of(t) == \A o \in Tasks \ {t} : task'[o] = task[o]

LEMMA NotedPlay ==
  ASSUME TasksTyped, NEW t \in Tasks, task[t].at \in Busy
  PROVE  /\ Len(task[t].said) + 1 \in 1 .. Len(Plays) /\ Noted(t).key \in Keys
         /\ Noted(t).key = Plays[Len(task[t].said) + 1].key
<1>1. /\ Len(task[t].said) \in Nat /\ Len(task[t].said) < task[t].total
      /\ task[t].total \in Nat /\ task[t].total <= log /\ log \in 0 .. Len(Plays)
  BY DEF TasksTyped, ScrobTypeOK
<1>2. Len(Plays) \in Nat
  BY TasksAssumption
<1> QED BY <1>1, <1>2 DEF Noted, Keys

(* Who reports and who records, after a step of one task.                  *)
LEMMA OneTaskMoves ==
  ASSUME TasksTyped, NEW t \in Tasks, Of(t), NEW k
  PROVE  /\ IsFiniteSet(Reporters(k)) /\ Cardinality(Reporters(k)) \in Nat
         /\ Cardinality(Reporters(k)') \in Nat
         /\ (t \in Reporters(k) <=> t \in Reporters(k)') => Reporters(k)' = Reporters(k)
         /\ t \in Reporters(k) /\ t \notin Reporters(k)' =>
              Cardinality(Reporters(k)) = Cardinality(Reporters(k)') + 1
         /\ t \notin Reporters(k) /\ t \in Reporters(k)' =>
              Cardinality(Reporters(k)') = Cardinality(Reporters(k)) + 1
         /\ (t \in Recorders(k) <=> t \in Recorders(k)') => Recorders(k)' = Recorders(k)
         /\ Recorders(k)' \subseteq Recorders(k) \cup {t}
         /\ Recorders(k) \subseteq Recorders(k)' \cup {t}
<1>1. \A o \in Tasks \ {t} :
        /\ o \in Reporters(k) <=> o \in Reporters(k)'
        /\ o \in Recorders(k) <=> o \in Recorders(k)'
  BY DEF Of, Reporters, Recorders, Noted
<1>2. /\ Reporters(k) \subseteq Tasks /\ Reporters(k)' \subseteq Tasks
      /\ Recorders(k) \subseteq Tasks /\ Recorders(k)' \subseteq Tasks
  BY DEF Reporters, Recorders
<1> DEFINE A == Reporters(k)
           B == Reporters(k)'
<1>3. IsFiniteSet(A) /\ IsFiniteSet(B)
  BY <1>2, FS_Subset, TasksAssumption
<1>4. Cardinality(A) \in Nat /\ Cardinality(B) \in Nat
  BY <1>3, FS_CardinalityType
<1>5. ASSUME t \in A, t \notin B PROVE Cardinality(A) = Cardinality(B) + 1
  <2>1. A = B \cup {t}
    BY <1>1, <1>2, <1>5
  <2> HIDE DEF A, B
  <2> QED BY <1>3, <1>5, <2>1, FS_AddElement
<1>6. ASSUME t \notin A, t \in B PROVE Cardinality(B) = Cardinality(A) + 1
  <2>1. B = A \cup {t}
    BY <1>1, <1>2, <1>6
  <2> HIDE DEF A, B
  <2> QED BY <1>3, <1>6, <2>1, FS_AddElement
<1>7. (t \in A <=> t \in B) => B = A
  BY <1>1, <1>2
<1>8. /\ (t \in Recorders(k) <=> t \in Recorders(k)') => Recorders(k)' = Recorders(k)
      /\ Recorders(k)' \subseteq Recorders(k) \cup {t}
      /\ Recorders(k) \subseteq Recorders(k)' \cup {t}
  BY <1>1, <1>2
<1> QED BY <1>3, <1>4, <1>5, <1>6, <1>7, <1>8

(* A task goes on to another step with the same entry.                     *)
LEMMA GoesOn ==
  ASSUME ScrobInv, NEW t \in Tasks, task[t].at \in Busy, NEW label \in Busy, TaskTo(t, label),
         UNCHANGED <<log, history>>, faults' \in {faults, faults + 1}, faults' \in 0 .. MaxSlips,
         played' \in [Keys -> Nat], debts' \in [Keys -> Nat]
  PROVE  /\ TasksTyped' /\ Of(t) /\ (\A o \in Tasks : Told(o)' /\ Complete(o)')
         /\ task'[t].at = label /\ Noted(t)' = Noted(t)
<1>1. /\ task' = [task EXCEPT ![t].at = label]
      /\ task \in [Tasks -> [at : Busy \cup {"unborn", "done"}, total : Nat, said : Seq(Tellings)]]
  BY DEF TaskTo, ScrobInv, TasksTyped
<1>2. /\ Of(t) /\ task'[t].at = label /\ task'[t].said = task[t].said
      /\ task'[t].total = task[t].total
  BY <1>1 DEF Of
<1>3. TasksTyped'
  <2>1. task' \in [Tasks -> [at : Busy \cup {"unborn", "done"}, total : Nat, said : Seq(Tellings)]]
    BY <1>1
  <2>2. \A o \in Tasks : Len(task[o].said) <= task[o].total /\ task[o].total <= log
    BY DEF ScrobInv, TasksTyped, ScrobTypeOK
  <2>3. ScrobTypeOK'
    BY <1>2, <2>2 DEF ScrobInv, TasksTyped, ScrobTypeOK, Of
  <2>4. label # "unborn" /\ Len(task[t].said) < task[t].total
    BY DEF Busy, ScrobInv, TasksTyped
  <2> QED BY <1>2, <2>1, <2>3, <2>4 DEF Of, ScrobInv, TasksTyped
<1>4. faults' = 0 => faults = 0
  BY DEF ScrobInv, TasksTyped, ScrobTypeOK
<1>5. \A o \in Tasks : Told(o)'
  BY <1>2, <1>4 DEF Of, ScrobInv, Told, Settled
<1>6. \A o \in Tasks : Complete(o)'
  <2>1. label # "done"
    BY DEF Busy
  <2> QED BY <1>2, <1>4, <2>1 DEF Of, ScrobInv, Complete
<1> QED BY <1>2, <1>3, <1>5, <1>6 DEF Noted

(* A task is through with an entry.                                        *)
LEMMA Says ==
  ASSUME ScrobInv, NEW t \in Tasks, task[t].at \in Busy, NEW o \in Tellings, Say(t, o),
         UNCHANGED log, history \subseteq history', history' \subseteq Keys,
         faults' \in {faults, faults + 1}, faults' \in 0 .. MaxSlips,
         played' \in [Keys -> Nat], debts' \in [Keys -> Nat],
         o \in {"submitted", "duplicate"} => Noted(t).key \in history',
         o = "unmatched" => ~Noted(t).listed /\ ~Noted(t).known,
         faults' # faults \/ Noted(t).key \in history' \/ o = "unmatched"
           \/ ~Noted(t).liked
  PROVE  /\ TasksTyped' /\ Of(t) /\ (\A q \in Tasks : Told(q)' /\ Complete(q)')
         /\ task'[t].at \in {"done", "rate"}
<1> DEFINE n == Len(task[t].said) + 1
           R == [at : Busy \cup {"unborn", "done"}, total : Nat, said : Seq(Tellings)]
<1>1. task' = [task EXCEPT ![t].said = Append(@, o),
                           ![t].at = IF n = task[t].total THEN "done" ELSE "rate"]
  BY DEF Say
<1>2. /\ task \in [Tasks -> R] /\ task[t].said \in Seq(Tellings) /\ n <= task[t].total
      /\ task[t].total \in Nat /\ n \in Nat
  BY DEF ScrobInv, TasksTyped
<1>3. /\ Of(t) /\ task'[t].said = Append(task[t].said, o) /\ task'[t].total = task[t].total
      /\ task'[t].at = (IF n = task[t].total THEN "done" ELSE "rate") /\ task' \in [Tasks -> R]
  <2>1. Append(task[t].said, o) \in Seq(Tellings)
    BY <1>2
  <2>2. (IF n = task[t].total THEN "done" ELSE "rate") \in Busy \cup {"unborn", "done"}
    BY DEF Busy
  <2> DEFINE to == IF n = task[t].total THEN "done" ELSE "rate"
             said == Append(task[t].said, o)
  <2>3. task' = [task EXCEPT ![t] = [@ EXCEPT !.said = said, !.at = to]]
    BY <1>1
  <2> HIDE DEF to, said
  <2>4. [task[t] EXCEPT !.said = said, !.at = to] \in R
    BY <1>2, <2>1, <2>2 DEF to, said
  <2>5. task' \in [Tasks -> R] /\ task'[t] = [task[t] EXCEPT !.said = said, !.at = to]
    BY <1>2, <2>3, <2>4
  <2>6. /\ task'[t].said = said /\ task'[t].at = to /\ task'[t].total = task[t].total
    BY <1>2, <2>5
  <2>7. Of(t)
    BY <1>2, <2>3 DEF Of
  <2> QED BY <2>5, <2>6, <2>7 DEF to, said
<1>4. Len(task'[t].said) = n /\ task'[t].said[n] = o
      /\ \A i \in 1 .. Len(task[t].said) : task'[t].said[i] = task[t].said[i]
  BY <1>2, <1>3
<1>5. TasksTyped'
  <2>1. \A q \in Tasks : Len(task[q].said) <= task[q].total /\ task[q].total <= log
    BY DEF ScrobInv, TasksTyped, ScrobTypeOK
  <2>2. ScrobTypeOK'
    BY <1>2, <1>3, <1>4, <2>1 DEF ScrobInv, TasksTyped, ScrobTypeOK, Of
  <2>3. /\ task'[t].at \in Busy => Len(task'[t].said) < task'[t].total
        /\ task'[t].at # "unborn"
    BY <1>2, <1>3, <1>4 DEF Busy
  <2>4. \A q \in Tasks \ {t} :
          /\ task'[q].at \in Busy => Len(task'[q].said) < task'[q].total
          /\ task'[q].at = "unborn" => task'[q] = Unborn
    BY <1>3 DEF Of, ScrobInv, TasksTyped
  <2> QED BY <1>3, <2>2, <2>3, <2>4 DEF TasksTyped
<1>6. faults' = 0 => faults = 0 /\ faults' = faults
  BY DEF ScrobInv, TasksTyped, ScrobTypeOK
<1>7. \A i : Settled(i) => Settled(i)'
  BY DEF Settled
<1>8. Told(t)'
  <2> SUFFICES ASSUME NEW i \in 1 .. n
               PROVE  /\ task'[t].said[i] \in {"submitted", "duplicate"} => Plays[i].key \in history'
                      /\ task'[t].said[i] = "unmatched" => ~Plays[i].listed /\ ~Plays[i].known
                      /\ faults' = 0 => Settled(i)'
    BY <1>4 DEF Told
  <2>1. CASE i = n
    BY <1>4, <1>6, <2>1 DEF Noted, Settled
  <2>2. CASE i \in 1 .. Len(task[t].said)
    BY <1>4, <1>6, <1>7, <2>2 DEF ScrobInv, Told
  <2>3. Len(task[t].said) \in Nat
    BY <1>2
  <2>4. i = n \/ i \in 1 .. Len(task[t].said)
    BY <2>3
  <2> QED BY <2>1, <2>2, <2>4
<1>9. \A q \in Tasks \ {t} : Told(q)'
  BY <1>3, <1>6, <1>7 DEF Of, ScrobInv, Told
<1>10. \A q \in Tasks : Complete(q)'
  BY <1>3, <1>4, <1>6 DEF Of, ScrobInv, Complete
<1> QED BY <1>3, <1>5, <1>8, <1>9, <1>10

(* The numbers of one play, before and after a step of one task.           *)
Numbers ==
  /\ played \in [Keys -> Nat] /\ debts \in [Keys -> Nat]
  /\ played' \in [Keys -> Nat] /\ debts' \in [Keys -> Nat]

(* Where t neither counts, owes nor records, what it reports it drops.     *)
LEMMA DropsOut ==
  ASSUME ScrobInv, NEW t \in Tasks, Of(t), UNCHANGED <<played, debts>>, history \subseteq history',
         NEW k \in Keys, t \in Reporters(k)' => t \in Reporters(k),
         t \in Recorders(k) <=> t \in Recorders(k)'
  PROVE  Counted(k)' /\ (Recorders(k)' # {} => played'[k] > 0)
<1>1. TasksTyped /\ Counted(k) /\ Numbers
  BY DEF ScrobInv, CountedSoFar, TasksTyped, ScrobTypeOK, Numbers
<1>2. /\ Cardinality(Reporters(k)) \in Nat /\ Cardinality(Reporters(k)') \in Nat
      /\ t \in Reporters(k) /\ t \notin Reporters(k)' =>
           Cardinality(Reporters(k)) = Cardinality(Reporters(k)') + 1
      /\ (t \in Reporters(k) <=> t \in Reporters(k)') => Reporters(k)' = Reporters(k)
      /\ Recorders(k)' = Recorders(k)
  BY <1>1, OneTaskMoves
<1>3. Counted(k)'
  BY <1>1, <1>2 DEF Counted, Owned, Numbers
<1> QED BY <1>2, <1>3 DEF ScrobInv, RecordersCounted

LEMMA TaskKeeps ==
  ASSUME ScrobInv, TasksTyped', \A o \in Tasks : Told(o)' /\ Complete(o)',
         \A k \in Keys : Counted(k)' /\ (Recorders(k)' # {} => played'[k] > 0),
         \A k \in history' : k \in Keys /\ played'[k] > 0
  PROVE  ScrobInv'
BY DEF ScrobInv, CountedSoFar, RecordersCounted, RecordedIsCounted

LEMMA SlipsBounded ==
  ASSUME ScrobInv, Slip \/ UNCHANGED faults
  PROVE  faults' \in {faults, faults + 1} /\ faults' \in 0 .. MaxSlips
BY TasksAssumption DEF ScrobInv, TasksTyped, ScrobTypeOK, Slip

LEMMA OweTypes ==
  ASSUME ScrobInv, NEW k \in Keys
  PROVE  /\ Owe(k) => /\ debts' \in [Keys -> Nat] /\ debts'[k] = debts[k] + 1
                      /\ \A j \in Keys \ {k} : debts'[j] = debts[j]
         /\ Count(k) => /\ played' \in [Keys -> Nat] /\ played'[k] = played[k] + 1
                        /\ \A j \in Keys \ {k} : played'[j] = played[j]
         /\ played \in [Keys -> Nat] /\ debts \in [Keys -> Nat] /\ history \subseteq Keys
         /\ \A j \in history : j \in Keys /\ played[j] > 0
<1>1. /\ played \in [Keys -> Nat] /\ debts \in [Keys -> Nat] /\ history \subseteq Keys
      /\ \A j \in history : j \in Keys /\ played[j] > 0
  BY DEF ScrobInv, TasksTyped, ScrobTypeOK, RecordedIsCounted
<1>2. Owe(k) => /\ debts' \in [Keys -> Nat] /\ debts'[k] = debts[k] + 1
                /\ \A j \in Keys \ {k} : debts'[j] = debts[j]
  BY <1>1 DEF Owe
<1>3. Count(k) => /\ played' \in [Keys -> Nat] /\ played'[k] = played[k] + 1
                  /\ \A j \in Keys \ {k} : played'[j] = played[j]
  BY <1>1 DEF Count
<1> QED BY <1>1, <1>2, <1>3

LEMMA ReadLogInv == ASSUME ScrobInv, NEW t \in Tasks, ReadLog(t) PROVE ScrobInv'
<1> DEFINE R == [at : Busy \cup {"unborn", "done"}, total : Nat, said : Seq(Tellings)]
<1>1. /\ task \in [Tasks -> R] /\ task[t] = Unborn /\ log \in Nat /\ log <= Len(Plays)
      /\ UNCHANGED <<log, history, played, debts>>
  BY TasksAssumption DEF ScrobInv, TasksTyped, ScrobTypeOK, ReadLog, TaskAt
<1>2. \/ /\ UNCHANGED faults
         /\ task' = [task EXCEPT ![t].total = log, ![t].at = IF log = 0 THEN "done" ELSE "rate"]
      \/ Slip /\ task' = [task EXCEPT ![t].at = "done"]
  BY DEF ReadLog, TaskTo
<1>3. /\ faults' \in {faults, faults + 1} /\ faults' \in 0 .. MaxSlips /\ (Slip => faults' # 0)
      /\ faults \in Nat
  BY <1>2, SlipsBounded DEF Slip, ScrobInv, TasksTyped, ScrobTypeOK
<1>4. /\ Of(t) /\ task'[t].said = <<>> /\ task' \in [Tasks -> R]
      /\ \/ /\ UNCHANGED faults
            /\ task'[t].total = log /\ task'[t].at = IF log = 0 THEN "done" ELSE "rate"
         \/ Slip /\ task'[t].at = "done" /\ task'[t].total = 0
  <2>1. task[t].said = <<>> /\ task[t].total = 0
    BY <1>1 DEF Unborn
  <2>2. CASE /\ UNCHANGED faults
             /\ task' = [task EXCEPT ![t].total = log,
                                     ![t].at = IF log = 0 THEN "done" ELSE "rate"]
    BY <1>1, <2>1, <2>2 DEF Of, Busy
  <2>3. CASE Slip /\ task' = [task EXCEPT ![t].at = "done"]
    BY <1>1, <2>1, <2>3 DEF Of
  <2> QED BY <1>2, <2>2, <2>3
<1>5. TasksTyped'
  <2>1. \A q \in Tasks : Len(task[q].said) <= task[q].total /\ task[q].total <= log
    BY DEF ScrobInv, TasksTyped, ScrobTypeOK
  <2>2. ScrobTypeOK'
    <3>1. Len(task'[t].said) = 0 /\ task'[t].total \in {0, log}
      BY <1>4
    <3>2. \A q \in Tasks : Len(task'[q].said) <= task'[q].total /\ task'[q].total <= log'
      <4>1. log' = log /\ log \in Nat
        BY <1>1
      <4>2. Len(task'[t].said) <= task'[t].total /\ task'[t].total <= log'
        BY <3>1, <4>1
      <4>3. \A q \in Tasks \ {t} :
              Len(task'[q].said) <= task'[q].total /\ task'[q].total <= log'
        BY <1>4, <2>1, <4>1 DEF Of
      <4> QED BY <4>2, <4>3
    <3> QED BY <1>1, <1>3, <3>2 DEF ScrobInv, TasksTyped, ScrobTypeOK
  <2>3. /\ task'[t].at \in Busy => Len(task'[t].said) < task'[t].total
        /\ task'[t].at # "unborn"
    BY <1>1, <1>4 DEF Busy
  <2> QED BY <1>4, <2>2, <2>3 DEF Of, ScrobInv, TasksTyped
<1>6. \A o \in Tasks : Told(o)' /\ Complete(o)'
  <2>1. faults' = 0 => faults = 0
    BY <1>3
  <2>2. Told(t)' /\ Complete(t)'
    BY <1>1, <1>3, <1>4 DEF Told, Complete
  <2>3. \A o \in Tasks \ {t} : Told(o)'
    BY <1>1, <1>4, <2>1 DEF Of, ScrobInv, Told, Settled
  <2>4. \A o \in Tasks \ {t} : Complete(o)'
    BY <1>4, <2>1 DEF Of, ScrobInv, Complete
  <2> QED BY <2>2, <2>3, <2>4
<1>7. \A k \in Keys : Counted(k)' /\ (Recorders(k)' # {} => played'[k] > 0)
  <2> SUFFICES ASSUME NEW k \in Keys
               PROVE  Counted(k)' /\ (Recorders(k)' # {} => played'[k] > 0)
    OBVIOUS
  <2>1. /\ t \notin Reporters(k)' /\ t \notin Recorders(k)' /\ t \notin Recorders(k)
    BY <1>1, <1>4 DEF Reporters, Recorders, Reporting, Unborn
  <2> QED BY <1>1, <1>4, <2>1, DropsOut
<1>8. \A k \in history' : k \in Keys /\ played'[k] > 0
  BY <1>1 DEF ScrobInv, RecordedIsCounted, TasksTyped, ScrobTypeOK
<1> QED BY <1>5, <1>6, <1>7, <1>8, TaskKeeps

(* An entry at hand is passed over, or goes on with nothing reported yet,  *)
(* or is given up: t does not record before or after.                      *)
LEMMA PassesInv ==
  ASSUME ScrobInv, NEW t \in Tasks, task[t].at \in Busy \ {"record"},
         UNCHANGED <<log, history, played, debts>>, Slip \/ UNCHANGED faults,
         \/ \E label \in Busy \ {"record"} :
              TaskTo(t, label) /\ (label \in Reporting => task[t].at \in Reporting)
         \/ \E o \in Tellings :
              /\ Say(t, o) /\ (o \in {"submitted", "duplicate"} => Noted(t).key \in history)
              /\ o = "unmatched" => ~Noted(t).listed /\ ~Noted(t).known
              /\ Slip \/ Noted(t).key \in history \/ o = "unmatched" \/ ~Noted(t).liked
  PROVE  ScrobInv'
<1>1. /\ Noted(t).key \in Keys /\ faults' \in {faults, faults + 1} /\ faults' \in 0 .. MaxSlips
      /\ played' \in [Keys -> Nat] /\ debts' \in [Keys -> Nat] /\ history' \subseteq Keys
      /\ (Slip => faults' # faults) /\ (\A j \in history' : j \in Keys /\ played'[j] > 0)
  <2>1. TasksTyped
    BY DEF ScrobInv
  <2>2. Noted(t).key \in Keys
    BY <2>1, NotedPlay
  <2>3. Slip => faults' # faults
    BY DEF Slip, ScrobInv, TasksTyped, ScrobTypeOK
  <2> QED BY <2>2, <2>3, SlipsBounded, OweTypes
<1>2. /\ TasksTyped' /\ Of(t) /\ (\A q \in Tasks : Told(q)' /\ Complete(q)')
      /\ task'[t].at \notin Reporting
         \/ (task[t].at \in Reporting /\ Noted(t)' = Noted(t))
      /\ task'[t].at # "record"
  <2>1. CASE \E label \in Busy \ {"record"} :
               TaskTo(t, label) /\ (label \in Reporting => task[t].at \in Reporting)
    <3>1. PICK label \in Busy \ {"record"} :
            TaskTo(t, label) /\ (label \in Reporting => task[t].at \in Reporting)
      BY <2>1
    <3>2. /\ TasksTyped' /\ Of(t) /\ (\A o \in Tasks : Told(o)' /\ Complete(o)')
          /\ task'[t].at = label /\ Noted(t)' = Noted(t)
      BY <1>1, <3>1, GoesOn
    <3> QED BY <3>1, <3>2
  <2>2. CASE \E o \in Tellings :
              /\ Say(t, o) /\ (o \in {"submitted", "duplicate"} => Noted(t).key \in history)
              /\ o = "unmatched" => ~Noted(t).listed /\ ~Noted(t).known
              /\ Slip \/ Noted(t).key \in history \/ o = "unmatched" \/ ~Noted(t).liked
    <3>1. PICK o \in Tellings :
              /\ Say(t, o) /\ (o \in {"submitted", "duplicate"} => Noted(t).key \in history)
              /\ o = "unmatched" => ~Noted(t).listed /\ ~Noted(t).known
              /\ Slip \/ Noted(t).key \in history \/ o = "unmatched" \/ ~Noted(t).liked
      BY <2>2
    <3>2. /\ TasksTyped' /\ Of(t) /\ (\A q \in Tasks : Told(q)' /\ Complete(q)')
          /\ task'[t].at \in {"done", "rate"}
      BY <1>1, <3>1, Says
    <3> QED BY <3>2 DEF Reporting
  <2> QED BY <2>1, <2>2
<1>3. \A k \in Keys : Counted(k)' /\ (Recorders(k)' # {} => played'[k] > 0)
  <2> SUFFICES ASSUME NEW k \in Keys
               PROVE  Counted(k)' /\ (Recorders(k)' # {} => played'[k] > 0)
    OBVIOUS
  <2>1. /\ t \in Reporters(k)' => t \in Reporters(k)
        /\ t \notin Recorders(k)' /\ t \notin Recorders(k)
    BY <1>2 DEF Reporters, Recorders
  <2> QED BY <1>2, <2>1, DropsOut
<1> QED BY <1>1, <1>2, <1>3, TaskKeeps

LEMMA RateInv == ASSUME ScrobInv, NEW t \in Tasks, Rate(t) PROVE ScrobInv'
<1>1. task[t].at \in Busy \ {"record"} /\ UNCHANGED <<log, history, played, debts, faults>>
  BY DEF Rate, TaskAt, Busy
<1>2. \/ TaskTo(t, "check")
      \/ Say(t, "skipped") /\ ~Noted(t).liked
  BY DEF Rate
<1>3. "check" \in Busy \ {"record"} /\ "check" \notin Reporting /\ "skipped" \in Tellings
  BY DEF Busy, Reporting, Tellings
<1> QED BY <1>1, <1>2, <1>3, PassesInv

LEMMA MatchInv == ASSUME ScrobInv, NEW t \in Tasks, Match(t) PROVE ScrobInv'
<1>1. task[t].at = "match" /\ UNCHANGED <<log, history, played, debts>>
  BY DEF Match, TaskAt
<1>2. \/ UNCHANGED faults /\ TaskTo(t, "start")
      \/ UNCHANGED faults /\ Say(t, "unmatched") /\ ~Noted(t).listed /\ ~Noted(t).known
      \/ Slip /\ Say(t, "failed")
  BY DEF Match
<1>3. /\ "match" \in Busy \ {"record"} /\ "match" \in Reporting /\ "start" \in Busy \ {"record"}
      /\ "failed" \in Tellings /\ "unmatched" \in Tellings
  BY DEF Busy, Reporting, Tellings
<1> QED BY <1>1, <1>2, <1>3, PassesInv

LEMMA StartPostInv == ASSUME ScrobInv, NEW t \in Tasks, StartPost(t) PROVE ScrobInv'
<1>1. task[t].at = "start" /\ UNCHANGED <<log, history, played, debts>>
  BY DEF StartPost, TaskAt
<1>2. (TaskTo(t, "stop") /\ UNCHANGED faults) \/ (Slip /\ Say(t, "failed"))
  BY DEF StartPost
<1>3. /\ "start" \in Busy \ {"record"} /\ "start" \in Reporting /\ "stop" \in Busy \ {"record"}
      /\ "failed" \in Tellings
  BY DEF Busy, Reporting, Tellings
<1> QED BY <1>1, <1>2, <1>3, PassesInv

(* Another task that is at the same play.                                  *)
LEMMA ElsewhereIs ==
  ASSUME NEW t \in Tasks
  PROVE  Elsewhere(t) <=>
           Reporters(Noted(t).key) \ {t} # {} \/ Recorders(Noted(t).key) \ {t} # {}
BY DEF Elsewhere, Reporters, Recorders, Reporting

LEMMA CheckInv == ASSUME ScrobInv, NEW t \in Tasks, Check(t) PROVE ScrobInv'
<1> DEFINE key == Noted(t).key
<1>1. task[t].at = "check" /\ UNCHANGED <<log, history, played>> /\ TasksTyped
  BY DEF Check, TaskAt, ScrobInv
<1>2. \/ key \in history /\ Say(t, "duplicate") /\ UNCHANGED <<faults, debts>>
      \/ /\ TaskTo(t, "match") /\ (Slip \/ UNCHANGED faults)
         /\ Owe(key) \/ (UNCHANGED debts /\ key \notin history /\ ~Elsewhere(t))
  BY DEF Check
<1>3. /\ "check" \in Busy \ {"record"} /\ "check" \notin Reporting /\ "match" \in Busy
      /\ "match" \in Reporting /\ "duplicate" \in Tellings
  BY DEF Busy, Reporting, Tellings
<1>4. CASE key \in history /\ Say(t, "duplicate") /\ UNCHANGED <<faults, debts>>
  BY <1>1, <1>3, <1>4, PassesInv
<1>5. CASE /\ TaskTo(t, "match") /\ (Slip \/ UNCHANGED faults)
           /\ Owe(key) \/ (UNCHANGED debts /\ key \notin history /\ ~Elsewhere(t))
  <2>1. /\ key \in Keys /\ faults' \in {faults, faults + 1} /\ faults' \in 0 .. MaxSlips
    BY <1>1, <1>3, <1>5, NotedPlay, SlipsBounded
  <2>2. played' \in [Keys -> Nat] /\ debts' \in [Keys -> Nat]
    BY <1>1, <1>5, <2>1, OweTypes
  <2>3. /\ TasksTyped' /\ Of(t) /\ (\A o \in Tasks : Told(o)' /\ Complete(o)')
        /\ task'[t].at = "match" /\ Noted(t)' = Noted(t)
    BY <1>1, <1>3, <1>5, <2>1, <2>2, GoesOn
  <2>4. \A k \in Keys : Counted(k)' /\ (Recorders(k)' # {} => played'[k] > 0)
    <3> SUFFICES ASSUME NEW k \in Keys
                 PROVE  Counted(k)' /\ (Recorders(k)' # {} => played'[k] > 0)
      OBVIOUS
    <3>1. /\ t \notin Reporters(k) /\ t \notin Recorders(k) /\ t \notin Recorders(k)'
          /\ t \in Reporters(k)' <=> k = key
      BY <1>1, <1>3, <2>3 DEF Reporters, Recorders
    <3>2. /\ Cardinality(Reporters(k)) \in Nat /\ Cardinality(Reporters(k)') \in Nat
          /\ Recorders(k)' = Recorders(k)
          /\ k = key => Cardinality(Reporters(k)') = Cardinality(Reporters(k)) + 1
          /\ k # key => Reporters(k)' = Reporters(k)
      BY <1>1, <2>3, <3>1, OneTaskMoves
    <3>3. Recorders(k)' # {} => played'[k] > 0
      BY <1>1, <3>2 DEF ScrobInv, RecordersCounted
    <3>4. /\ played[k] \in Nat /\ debts[k] \in Nat /\ played' = played /\ history' = history
          /\ Counted(k)
      BY <1>1, OweTypes DEF ScrobInv, CountedSoFar
    <3>5. CASE k # key
      <4>1. debts'[k] = debts[k]
        BY <1>5, <2>1, <3>5, OweTypes
      <4> QED BY <3>2, <3>3, <3>4, <3>5, <4>1 DEF Counted, Owned
    <3>6. CASE k = key /\ Owe(key)
      <4>1. debts'[k] = debts[k] + 1
        BY <2>1, <3>6, OweTypes
      <4>2. Owned(k) => Owned(k)'
        BY <3>1, <3>6 DEF Owned
      <4>3. Owned(k)'
        BY <3>1, <3>6 DEF Owned
      <4> QED BY <3>2, <3>3, <3>4, <3>6, <4>1, <4>3 DEF Counted
    <3>7. CASE k = key /\ UNCHANGED debts /\ key \notin history /\ ~Elsewhere(t)
      <4>1. Reporters(k) = {} /\ Recorders(k) = {}
        BY <3>1, <3>7, ElsewhereIs
      <4>2. ~Owned(k) /\ Owned(k)'
        BY <3>1, <3>7, <4>1 DEF Owned
      <4> QED BY <3>2, <3>3, <3>4, <3>7, <4>2 DEF Counted
    <3> QED BY <1>5, <3>5, <3>6, <3>7
  <2>5. \A k \in history' : k \in Keys /\ played'[k] > 0
    BY <1>1, <2>1, OweTypes
  <2> QED BY <2>3, <2>4, <2>5, TaskKeeps
<1> QED BY <1>2, <1>4, <1>5

LEMMA StopPostInv == ASSUME ScrobInv, NEW t \in Tasks, StopPost(t) PROVE ScrobInv'
<1> DEFINE key == Noted(t).key
<1>1. task[t].at = "stop" /\ UNCHANGED <<log, history>> /\ TasksTyped
  BY DEF StopPost, TaskAt, ScrobInv
<1>2. \/ Count(key) /\ TaskTo(t, "record") /\ UNCHANGED <<faults, debts>>
      \/ Slip /\ Say(t, "failed") /\ UNCHANGED <<played, debts>>
      \/ Slip /\ Say(t, "failed") /\ Count(key) /\ Owe(key)
  BY DEF StopPost
<1>3. /\ "stop" \in Busy \ {"record"} /\ "stop" \in Reporting /\ "record" \in Busy
      /\ "failed" \in Tellings /\ "record" \notin Reporting
  BY DEF Busy, Reporting, Tellings
<1>4. CASE Slip /\ Say(t, "failed") /\ UNCHANGED <<played, debts>>
  BY <1>1, <1>3, <1>4, PassesInv
<1>5. CASE \/ Count(key) /\ TaskTo(t, "record") /\ UNCHANGED <<faults, debts>>
           \/ Slip /\ Say(t, "failed") /\ Count(key) /\ Owe(key)
  <2>1. /\ key \in Keys /\ faults' \in {faults, faults + 1} /\ faults' \in 0 .. MaxSlips
        /\ (Slip => faults' # faults)
    <3>1. Slip => faults' # faults
      BY DEF Slip, ScrobInv, TasksTyped, ScrobTypeOK
    <3> QED BY <1>1, <1>3, <1>5, <3>1, NotedPlay, SlipsBounded
  <2>2. /\ played' \in [Keys -> Nat] /\ debts' \in [Keys -> Nat] /\ history' \subseteq Keys
        /\ played'[key] = played[key] + 1 /\ \A j \in Keys \ {key} : played'[j] = played[j]
        /\ played \in [Keys -> Nat] /\ debts \in [Keys -> Nat]
    BY <1>1, <1>5, <2>1, OweTypes
  <2>3. /\ TasksTyped' /\ Of(t) /\ (\A o \in Tasks : Told(o)' /\ Complete(o)')
        /\ \/ task'[t].at = "record" /\ Noted(t)' = Noted(t) /\ debts' = debts
           \/ task'[t].at \in {"done", "rate"} /\ Owe(key)
    <3>1. CASE Count(key) /\ TaskTo(t, "record") /\ UNCHANGED <<faults, debts>>
      BY <1>1, <1>3, <2>1, <2>2, <3>1, GoesOn
    <3>2. CASE Slip /\ Say(t, "failed") /\ Count(key) /\ Owe(key)
      BY <1>1, <1>3, <2>1, <2>2, <3>2, Says
    <3> QED BY <1>5, <3>1, <3>2
  <2>4. \A k \in Keys : Counted(k)' /\ (Recorders(k)' # {} => played'[k] > 0)
    <3> SUFFICES ASSUME NEW k \in Keys
                 PROVE  Counted(k)' /\ (Recorders(k)' # {} => played'[k] > 0)
      OBVIOUS
    <3>1. /\ t \in Reporters(k) <=> k = key
          /\ t \notin Reporters(k)' /\ t \notin Recorders(k)
          /\ t \in Recorders(k)' <=> task'[t].at = "record" /\ k = key
      <4>1. "done" \notin Reporting /\ "rate" \notin Reporting
        BY DEF Reporting
      <4> QED BY <1>1, <1>3, <2>3, <4>1 DEF Reporters, Recorders
    <3>2. /\ Cardinality(Reporters(k)) \in Nat /\ Cardinality(Reporters(k)') \in Nat
          /\ k = key => Cardinality(Reporters(k)) = Cardinality(Reporters(k)') + 1
          /\ k # key => Reporters(k)' = Reporters(k) /\ Recorders(k)' = Recorders(k)
      BY <1>1, <2>3, <3>1, OneTaskMoves
    <3>3. played[k] \in Nat /\ debts[k] \in Nat /\ Counted(k) /\ history' = history
      BY <1>1, <2>2 DEF ScrobInv, CountedSoFar
    <3>4. CASE k # key
      <4>1. debts'[k] = debts[k] /\ played'[k] = played[k]
        BY <2>1, <2>2, <2>3, <3>4, OweTypes
      <4> QED BY <3>2, <3>3, <3>4, <4>1 DEF Counted, Owned, ScrobInv, RecordersCounted
    <3>5. CASE k = key
      <4>1. Owned(k) /\ played'[k] = played[k] + 1
        BY <2>2, <3>1, <3>5 DEF Owned
      <4>2. CASE task'[t].at = "record" /\ debts' = debts
        <5>1. Owned(k)'
          BY <3>1, <3>5, <4>2 DEF Owned
        <5> QED BY <3>2, <3>3, <3>5, <4>1, <4>2, <5>1 DEF Counted
      <4>3. CASE Owe(key)
        <5>1. debts'[k] = debts[k] + 1
          BY <2>1, <3>5, <4>3, OweTypes
        <5> QED BY <3>2, <3>3, <3>5, <4>1, <5>1 DEF Counted
      <4> QED BY <2>3, <4>2, <4>3
    <3> QED BY <3>4, <3>5
  <2>5. \A k \in history' : k \in Keys /\ played'[k] > 0
    BY <1>1, <2>1, <2>2, OweTypes
  <2> QED BY <2>3, <2>4, <2>5, TaskKeeps
<1> QED BY <1>2, <1>4, <1>5

LEMMA RecordInv == ASSUME ScrobInv, NEW t \in Tasks, Record(t) PROVE ScrobInv'
<1> DEFINE key == Noted(t).key
<1>1. task[t].at = "record" /\ UNCHANGED <<log, played>> /\ TasksTyped
  BY DEF Record, TaskAt, ScrobInv
<1>2. \/ history' = history \cup {key} /\ Say(t, "submitted") /\ UNCHANGED <<faults, debts>>
      \/ Slip /\ Say(t, "failed") /\ Owe(key) /\ UNCHANGED history
  BY DEF Record
<1>3. "record" \in Busy /\ "submitted" \in Tellings /\ "failed" \in Tellings
      /\ "record" \notin Reporting /\ "done" \notin Reporting /\ "rate" \notin Reporting
  BY DEF Busy, Reporting, Tellings
<1>4. /\ key \in Keys /\ faults' \in {faults, faults + 1} /\ faults' \in 0 .. MaxSlips
      /\ (Slip => faults' # faults)
  <2>1. Slip => faults' # faults
    BY DEF Slip, ScrobInv, TasksTyped, ScrobTypeOK
  <2> QED BY <1>1, <1>2, <1>3, <2>1, NotedPlay, SlipsBounded
<1>5. /\ played' \in [Keys -> Nat] /\ debts' \in [Keys -> Nat] /\ history' \subseteq Keys
      /\ history \subseteq history'
      /\ played \in [Keys -> Nat] /\ debts \in [Keys -> Nat]
  BY <1>1, <1>2, <1>4, OweTypes
<1>6. /\ TasksTyped' /\ Of(t) /\ (\A q \in Tasks : Told(q)' /\ Complete(q)')
      /\ task'[t].at \in {"done", "rate"}
  <2>1. CASE history' = history \cup {key} /\ Say(t, "submitted") /\ UNCHANGED <<faults, debts>>
    <3>1. key \in history' /\ "submitted" # "unmatched"
      BY <2>1
    <3> QED BY <1>1, <1>3, <1>4, <1>5, <2>1, <3>1, Says
  <2>2. CASE Slip /\ Say(t, "failed") /\ Owe(key) /\ UNCHANGED history
    <3>1. "failed" \notin {"submitted", "duplicate", "unmatched"} /\ faults' # faults
      BY <1>4, <2>2
    <3> QED BY <1>1, <1>3, <1>4, <1>5, <2>2, <3>1, Says
  <2> QED BY <1>2, <2>1, <2>2
<1>7. \A k \in Keys : Counted(k)' /\ (Recorders(k)' # {} => played'[k] > 0)
  <2> SUFFICES ASSUME NEW k \in Keys
               PROVE  Counted(k)' /\ (Recorders(k)' # {} => played'[k] > 0)
    OBVIOUS
  <2>1. /\ t \notin Reporters(k) /\ t \notin Reporters(k)' /\ t \notin Recorders(k)'
        /\ t \in Recorders(k) <=> k = key
    BY <1>1, <1>3, <1>6 DEF Reporters, Recorders
  <2>2. /\ Cardinality(Reporters(k)) \in Nat /\ Reporters(k)' = Reporters(k)
        /\ Recorders(k)' \subseteq Recorders(k) \cup {t}
        /\ k # key => Recorders(k)' = Recorders(k)
    BY <1>1, <1>6, <2>1, OneTaskMoves
  <2>3. Recorders(k)' # {} => played'[k] > 0
    BY <1>1, <2>1, <2>2 DEF ScrobInv, RecordersCounted
  <2>4. played[k] \in Nat /\ debts[k] \in Nat /\ Counted(k) /\ played'[k] = played[k]
    BY <1>1, <1>5 DEF ScrobInv, CountedSoFar
  <2>5. CASE k # key
    <3>1. debts'[k] = debts[k] /\ (k \in history' <=> k \in history)
      BY <1>2, <1>4, <2>5, OweTypes
    <3> QED BY <2>2, <2>3, <2>4, <2>5, <3>1 DEF Counted, Owned
  <2>6. CASE k = key /\ history' = history \cup {key} /\ UNCHANGED debts
    <3>1. Owned(k)'
      BY <2>6 DEF Owned
    <3> QED BY <2>2, <2>3, <2>4, <2>6, <3>1 DEF Counted
  <2>7. CASE k = key /\ Owe(key)
    <3>1. debts'[k] = debts[k] + 1
      BY <1>4, <2>7, OweTypes
    <3> QED BY <2>2, <2>3, <2>4, <3>1 DEF Counted
  <2> QED BY <1>2, <2>5, <2>6, <2>7
<1>8. \A k \in history' : k \in Keys /\ played'[k] > 0
  <2>1. played[key] > 0
    BY <1>1, <1>4 DEF ScrobInv, RecordersCounted, Recorders
  <2> QED BY <1>1, <1>2, <1>4, <2>1, OweTypes
<1> QED BY <1>6, <1>7, <1>8, TaskKeeps

LEMMA PlayInv == ASSUME ScrobInv, Play PROVE ScrobInv'
<1>1. /\ log' = log + 1 /\ log < Len(Plays) /\ UNCHANGED <<history, task, played, debts, faults>>
      /\ log \in Nat /\ Len(Plays) \in Nat
  BY TasksAssumption DEF Play, ScrobInv, TasksTyped, ScrobTypeOK
<1>2. TasksTyped'
  <2>1. \A t \in Tasks : Len(task[t].said) <= task[t].total /\ task[t].total <= log
                         /\ task[t].total \in Nat
    BY DEF ScrobInv, TasksTyped, ScrobTypeOK
  <2>2. \A t \in Tasks : Len(task'[t].said) <= task'[t].total /\ task'[t].total <= log'
    BY <1>1, <2>1
  <2> QED BY <1>1, <2>2 DEF ScrobInv, TasksTyped, ScrobTypeOK
<1>3. \A k : Reporters(k)' = Reporters(k) /\ Recorders(k)' = Recorders(k)
  BY <1>1 DEF Reporters, Recorders, Noted
<1>4. CountedSoFar' /\ RecordersCounted' /\ RecordedIsCounted'
  BY <1>1, <1>3 DEF ScrobInv, CountedSoFar, Counted, Owned, RecordersCounted, RecordedIsCounted
<1>5. \A t \in Tasks : Told(t)' /\ Complete(t)'
  BY <1>1 DEF ScrobInv, Told, Settled, Complete
<1> QED BY <1>2, <1>4, <1>5 DEF ScrobInv

LEMMA DieInv == ASSUME ScrobInv, Die PROVE ScrobInv'
<1> DEFINE R == [at : Busy \cup {"unborn", "done"}, total : Nat, said : Seq(Tellings)]
<1>1. /\ UNCHANGED <<log, history, played>> /\ faults' = faults + 1 /\ faults' \in 0 .. MaxSlips
      /\ faults' # 0 /\ log \in Nat /\ \A t \in Tasks : task[t].at = "unborn" => task[t] = Unborn
  BY TasksAssumption DEF Die, Slip, ScrobInv, TasksTyped, ScrobTypeOK
<1>2. /\ task' = [t \in Tasks |->
                    IF TaskAt(t, "unborn") THEN Unborn ELSE [Unborn EXCEPT !.at = "done"]]
      /\ Unborn \in R /\ [Unborn EXCEPT !.at = "done"] \in R
  <2>1. Unborn \in R /\ [Unborn EXCEPT !.at = "done"] \in R
    <3>1. /\ Unborn = [at |-> "unborn", total |-> 0, said |-> <<>>]
          /\ [Unborn EXCEPT !.at = "done"] = [at |-> "done", total |-> 0, said |-> <<>>]
      BY DEF Unborn
    <3>2. <<>> \in Seq(Tellings)
      OBVIOUS
    <3> QED BY <3>1, <3>2
  <2> QED BY <2>1 DEF Die
<1>3. \A t \in Tasks : /\ task'[t].at \in {"unborn", "done"} /\ task'[t].said = <<>>
                       /\ task'[t].total = 0 /\ (task'[t].at = "unborn" => task'[t] = Unborn)
  BY <1>2 DEF Unborn
<1>4. task' \in [Tasks -> R]
  BY <1>2
<1>5. ASSUME NEW k
      PROVE  /\ Cardinality(Recorders(k)) \in Nat /\ Cardinality(Reporters(k)) \in Nat
             /\ Recorders(k) # {} => Cardinality(Recorders(k)) > 0
             /\ Reporters(k) # {} => Cardinality(Reporters(k)) > 0
  <2>1. Recorders(k) \subseteq Tasks /\ Reporters(k) \subseteq Tasks
    BY DEF Recorders, Reporters
  <2>2. IsFiniteSet(Recorders(k)) /\ IsFiniteSet(Reporters(k))
    BY <2>1, FS_Subset, TasksAssumption
  <2> QED BY <2>2, FS_CardinalityType, FS_EmptySet
<1>6. /\ debts' = [k \in Keys |-> debts[k] + Cardinality(Recorders(k))]
      /\ debts \in [Keys -> Nat] /\ debts' \in [Keys -> Nat]
  <2>1. debts' = [k \in Keys |-> debts[k] + Cardinality(Recorders(k))]
    BY DEF Die, TaskAt, Recorders
  <2>2. debts \in [Keys -> Nat]
    BY DEF ScrobInv, TasksTyped, ScrobTypeOK
  <2> QED BY <1>5, <2>1, <2>2
<1>7. TasksTyped'
  <2>1. \A t \in Tasks : Len(task'[t].said) <= task'[t].total /\ task'[t].total <= log'
    BY <1>1, <1>3
  <2>2. ScrobTypeOK'
    BY <1>1, <1>6, <2>1 DEF ScrobInv, TasksTyped, ScrobTypeOK
  <2> QED BY <1>3, <1>4, <2>2 DEF TasksTyped, Busy
<1>8. \A t \in Tasks : Told(t)' /\ Complete(t)'
  BY <1>1, <1>3 DEF Told, Complete
<1>9. \A k : Reporters(k)' = {} /\ Recorders(k)' = {}
  BY <1>3 DEF Reporters, Recorders, Reporting
<1>10. \A k \in Keys : Counted(k)'
  <2> SUFFICES ASSUME NEW k \in Keys PROVE Counted(k)'
    OBVIOUS
  <2> DEFINE a == Cardinality(Reporters(k))
             b == Cardinality(Recorders(k))
  <2>1. /\ a \in Nat /\ b \in Nat
        /\ (Reporters(k) # {} => a > 0) /\ (Recorders(k) # {} => b > 0)
    BY <1>5
  <2>2. debts'[k] = debts[k] + b
    BY <1>6
  <2>3. Cardinality(Reporters(k)') = 0
    BY <1>9, FS_EmptySet
  <2>4. played[k] \in Nat /\ debts[k] \in Nat /\ Counted(k) /\ played'[k] = played[k]
    BY <1>1 DEF ScrobInv, CountedSoFar, TasksTyped, ScrobTypeOK
  <2>5. Owned(k) => Owned(k)' \/ Reporters(k) # {} \/ Recorders(k) # {}
    BY <1>1 DEF Owned
  <2>6. played[k] + a <= debts[k] + (IF Owned(k) THEN 1 ELSE 0)
    BY <2>4 DEF Counted
  <2>7. Owned(k) => Owned(k)' \/ a > 0 \/ b > 0
    BY <2>1, <2>5
  <2> HIDE DEF a, b
  <2>8. played[k] <= debts[k] + b + (IF Owned(k)' THEN 1 ELSE 0)
    BY <2>1, <2>4, <2>6, <2>7
  <2>9. Cardinality(Reporters(k))' = 0
    BY <2>3
  <2> QED BY <2>1, <2>2, <2>4, <2>8, <2>9 DEF Counted
<1> QED BY <1>1, <1>7, <1>8, <1>9, <1>10
     DEF ScrobInv, CountedSoFar, RecordersCounted, RecordedIsCounted

LEMMA ScrobNextInv == ScrobInv /\ [ScrobNext]_scrobVars => ScrobInv'
<1> SUFFICES ASSUME ScrobInv, [ScrobNext]_scrobVars PROVE ScrobInv'
  OBVIOUS
<1>1. ASSUME NEW t \in Tasks, TaskStep(t) PROVE ScrobInv'
  BY <1>1, ReadLogInv, RateInv, CheckInv, MatchInv, StartPostInv, StopPostInv, RecordInv
     DEF TaskStep
<1>2. CASE UNCHANGED scrobVars
  BY <1>2 DEF scrobVars, ScrobInv, TasksTyped, ScrobTypeOK, CountedSoFar, Counted, Owned, Reporters,
              Recorders, Noted, RecordedIsCounted, RecordersCounted, Told, Settled, Complete
<1> QED BY <1>1, <1>2, PlayInv, DieInv DEF ScrobNext

(* For any plays, any number of detections, and whatever fails or dies     *)
(* (scrobbler.rs, process_device_scrobbles): what is in scrobble_history   *)
(* was counted by the server, no play was counted more than once but for   *)
(* the known windows, and a task tells truly what became of each entry.    *)
THEOREM ScrobblesAreSafe == ScrobSpec => []ScrobblesSafe
<1>1. ScrobInv => ScrobblesSafe
  BY ScrobInvSafe
<1> QED BY <1>1, ScrobInitInv, ScrobNextInv, PTL DEF ScrobSpec

-----------------------------------------------------------------------------
(* Servers.  What a request may be at, by its kind.                        *)
Labels == {"idle", "done", "portable", "load", "save", "publish", "find", "prior", "upsert",
           "failed", "lock", "look", "build", "enter", "sync", "reload", "delete", "evict",
           "next", "reselect", "clear", "wipe"}
Kinds == {"none", "connect", "commit", "reauth", "use", "select", "remove", "update", "logout"}
Course(kind, at) ==
  \/ kind = "none" /\ at \in {"idle", "done"}
  \/ kind = "connect" /\ at \in {"portable", "load", "save", "publish"}
  \/ kind = "commit" /\ at \in {"find", "prior", "load", "save", "upsert", "failed", "publish"}
  \/ kind = "reauth" /\ at \in {"lock", "load", "save", "publish"}
  \/ kind = "use" /\ at \in {"look", "build", "enter"}
  \/ kind = "select" /\ at \in {"sync", "load", "save", "reload", "look", "build", "enter"}
  \/ kind = "remove" /\ at \in {"delete", "load", "save", "evict", "next", "reselect", "sync", "reload"}
  \/ kind = "update" /\ at = "reload"
  \/ kind = "logout" /\ at \in {"clear", "wipe"}
(* Where the write of a secret leads.                                      *)
Leads(kind, then) ==
  \/ kind \in {"connect", "reauth"} /\ then = "publish"
  \/ kind = "commit" /\ then \in {"upsert", "failed"}
  \/ kind = "select" /\ then = "reload"
  \/ kind = "remove" /\ then \in {"evict", "reload"}

Holder(c) == c.kind \in {"commit", "reauth"}
Writing(c) == c.at \in {"load", "save"}
Building(c) == c.at \in {"look", "build", "enter"}
Nameless(c) == c.kind \in {"none", "logout"} \/ c.at = "find"
(* Before the lookup a commit names only its library.                      *)
Names == Ids \cup {NoId} \cup {<<s>> : s \in Scoped}
Request == [at : Labels, kind : Kinds, id : Names, secret : Secrets, base : [Ids -> Secrets],
            prior : Secrets, then : Labels, was : BOOLEAN]
OnCourse(c) ==
  /\ Course(c.kind, c.at)
  /\ ~Nameless(c) => c.id \in Ids
  /\ c.at = "find" => \E s \in Scoped : c.id = <<s>>
  /\ Holder(c) /\ ~Nameless(c) => c.id \in taken /\ c.id[1] \in Scoped
  /\ c.kind = "connect" => c.id[1] \in Plain
  /\ Writing(c) => Leads(c.kind, c.then)
  /\ Writing(c) /\ c.then = "reload" => c.id[1] \in Plain
  /\ (Writing(c) /\ c.then = "evict") \/ c.at = "evict" => c.id \in removed
  /\ Writing(c) /\ c.then = "evict" => c.secret = NoSecret
  /\ Building(c) \/ c.kind = "select" => c.id \in db.rows \cup removed
  /\ c.at = "enter" => c.secret # NoSecret
Calling ==
  /\ call \in [Calls -> Request]
  /\ \A r \in Calls : OnCourse(call[r])
  /\ db.rows \subseteq taken /\ mgr.chosen \subseteq mgr.rows

(* One request has the manager: from the lookup, or the new password, to   *)
(* the publication.                                                        *)
Keeping(c) == Holder(c) /\ c.at \notin {"find", "lock"}
Kept == \A r \in Calls : Keeping(call[r]) <=> keeper = r

(* A library has one row; one row at most is selected.                     *)
Apart ==
  /\ \A i, j \in db.rows : i[1] = j[1] => i = j
  /\ db.chosen \subseteq db.rows /\ \A i, j \in db.chosen : i = j

(* A library nothing untoward has happened to.                             *)
Sane(i) == i \in Ids /\ i[1] \in Scoped /\ i \notin removed \cup lost

(* What the vault has while a secret is changed, and what it had before.   *)
TakesBack(c) == Writing(c) /\ c.then = "failed"
Truthful(r, c) ==
  /\ c.at \in {"upsert", "publish"} \/ TakesBack(c) => vault[c.id] = r
  /\ Writing(c) /\ c.then \in {"upsert", "publish"} => c.secret = r
  /\ (Writing(c) /\ c.then = "upsert") \/ c.at = "failed" => vault[c.id] = c.prior
  /\ TakesBack(c) => c.secret = c.prior
  /\ c.kind = "commit" /\ (Writing(c) \/ c.at \in {"upsert", "failed"}) /\ c.id \in db.rows =>
       c.prior # NoSecret
Vaulted ==
  \A r \in Calls : Holder(call[r]) /\ ~Nameless(call[r]) /\ Sane(call[r].id) => Truthful(r, call[r])

(* A provider that is cached was built from what is stored, or from what   *)
(* was while the secret is on trial.  So was one that is built and not     *)
(* entered, unless another one keeps it out.                               *)
Changing(c, i) == Holder(c) /\ ~Nameless(c) /\ c.id = i
OnTrial(c, i) == Changing(c, i) /\ (c.at = "upsert" \/ TakesBack(c))
Renewing(c, i) == Changing(c, i) /\ c.at = "publish"
Trusted(i) ==
  /\ \A r \in Calls : OnTrial(call[r], i) => mgr.providers[i] \in {NoSecret, call[r].prior}
  /\ (\A r \in Calls : ~OnTrial(call[r], i)) => mgr.providers[i] \in {NoSecret, vault[i]}
  /\ \A q \in Calls : call[q].at = "enter" /\ call[q].id = i =>
       \/ call[q].secret = vault[i] \/ mgr.providers[i] # NoSecret
       \/ \E r \in Calls : OnTrial(call[r], i) /\ call[q].secret = call[r].prior
Cached == \A i \in Ids : Sane(i) /\ (\A r \in Calls : ~Renewing(call[r], i)) => Trusted(i)

(* Who will still make the manager agree, or say that it does not.         *)
Pending(c) ==
  \/ c.kind = "connect"
  \/ c.kind = "commit" /\ c.at = "publish"
  \/ c.kind \in {"select", "remove"} /\ c.at # "delete" /\ ~Building(c)
  \/ c.at = "clear"
Matches == mgr.rows = db.rows /\ mgr.chosen = db.chosen
Agreeing == Matches \/ stale \/ \E r \in Calls : Pending(call[r])

(* Who will still erase the secret of a server just removed.               *)
Erasing(c, i) == (Writing(c) /\ c.then = "evict" /\ c.id = i) \/ c.at = "wipe"
Erased ==
  mishaps = 0 => \A i \in removed \ lost : vault[i] = NoSecret \/ \E r \in Calls : Erasing(call[r], i)

ServInv ==
  /\ ServTypeOK /\ Calling /\ Kept /\ Apart /\ Vaulted /\ RowsHaveSecrets /\ Cached /\ Agreeing
  /\ Erased

-----------------------------------------------------------------------------
(* Requests keep their course.                                             *)
LEMMA NothingTaken == ASSUME ServTypeOK, NEW s \in Servers, HasFreshId(s)
                      PROVE FreshId(s) \in Ids /\ FreshId(s) \notin taken /\ FreshId(s)[1] = s
BY DEF HasFreshId, FreshId, Ids

(* A step of a request leaves the others alone.                            *)
Moves(r) == call' \in [Calls -> Request] /\ \A q \in Calls \ {r} : call'[q] = call[q]

LEMMA StartMoves == ASSUME ServInv, NEW r \in Calls, Start(r) PROVE Moves(r)
<1> USE DEF CallAt, Accept, NoCall
<1>t. call \in [Calls -> Request] /\ call[r] \in Request
  BY DEF ServInv, Calling
<1>m. ASSUME NEW kind \in Kinds, NEW id \in Names, NEW label \in Labels, Accept(r, kind, id, label)
      PROVE  Moves(r)
  BY <1>m, <1>t DEF Moves, Request
<1>f. ASSUME Finish(r) PROVE Moves(r)
  BY <1>f, <1>t DEF Moves, Request, Finish, Labels, Kinds, Names, Secrets, EmptyVault
<1> HIDE DEF Accept
<1> USE DEF Labels, Kinds, Names
<1>1. ASSUME NEW s \in Plain, ConnectServer(r, s) PROVE Moves(r)
  <2> DEFINE i == IF RowsOf(s) # {} THEN CHOOSE k \in RowsOf(s) : TRUE ELSE FreshId(s)
  <2>1. i \in Ids
    BY <1>1, NothingTaken DEF ConnectServer, RowsOf, Servers, ServInv, ServTypeOK
  <2>2. Accept(r, "connect", i, "portable")
    BY <1>1 DEF ConnectServer
  <2> HIDE DEF i
  <2> QED BY <2>1, <2>2, <1>m
<1>2. ASSUME NEW o \in offers, NEW s \in Scoped, Commit(r, o, s) PROVE Moves(r)
  BY <1>2, <1>m DEF Commit
<1>3. ASSUME NEW i \in Ids, Reauthenticate(r, i) \/ Use(r, i) \/ Update(r, i) PROVE Moves(r)
  BY <1>3, <1>m DEF Reauthenticate, Use, Update
<1>4. ASSUME NEW i \in Ids, SelectServer(r, i) PROVE Moves(r)
  BY <1>4, <1>m, <1>f DEF SelectServer
<1>5. ASSUME NEW i \in Ids, Remove(r, i) PROVE Moves(r)
  BY <1>5, <1>t DEF Remove, Moves, Request
<1>6. ASSUME Logout(r) PROVE Moves(r)
  BY <1>6, <1>m DEF Logout
<1> QED BY <1>1, <1>2, <1>3, <1>4, <1>5, <1>6 DEF Start

LEMMA StepMoves == ASSUME ServInv, NEW r \in Calls, Step(r) PROVE Moves(r)
<1>t. call \in [Calls -> Request] /\ call[r] \in Request /\ call[r].id \in Names
      /\ vault \in [Ids -> Secrets] /\ NoSecret \in Secrets /\ r \in Secrets
  BY DEF ServInv, Calling, ServTypeOK, Secrets, Request
<1>g. ASSUME NEW label \in Labels, CallTo(r, label) PROVE Moves(r)
  BY <1>g, <1>t DEF Moves, Request, CallTo
<1>f. ASSUME Finish(r) PROVE Moves(r)
  BY <1>f, <1>t DEF Moves, Request, Finish, NoCall, Labels, Kinds, Names, Secrets, EmptyVault
<1>w. ASSUME NEW secret \in Secrets, NEW then \in Labels, Write(r, secret, then) PROVE Moves(r)
  BY <1>w, <1>t DEF Moves, Request, Write, Labels
<1> USE DEF Labels
<1>1. ASSUME LoadVault(r) \/ SaveVault(r) \/ SaveFails(r) \/ Portable(r) PROVE Moves(r)
  <2>1. CASE LoadVault(r)
    BY <2>1, <1>t DEF LoadVault, Moves, Request
  <2>2. CASE SaveVault(r)
    BY <2>2, <1>t DEF SaveVault, Moves, Request, EmptyVault
  <2>3. CASE SaveFails(r)
    BY <2>3, <1>t, <1>f DEF SaveFails, Moves, Request, EmptyVault, Fail
  <2>4. CASE Portable(r)
    BY <2>4, <1>t, <1>w, <1>f DEF Portable
  <2> QED BY <1>1, <2>1, <2>2, <2>3, <2>4
<1>2. ASSUME Find(r) PROVE Moves(r)
  <2> DEFINE s == Id(r)[1]
             i == IF RowsOf(s) # {} THEN CHOOSE k \in RowsOf(s) : TRUE ELSE FreshId(s)
  <2>1. call' = [call EXCEPT ![r].at = "prior", ![r].id = i] /\ (RowsOf(s) # {} \/ HasFreshId(s))
    BY <1>2 DEF Find
  <2>2. s \in Servers
    BY <1>2 DEF ServInv, Calling, OnCourse, Find, CallAt, Id, Servers
  <2>3. i \in Ids
    BY <2>1, <2>2, NothingTaken DEF RowsOf, ServInv, ServTypeOK
  <2> HIDE DEF i, s
  <2> QED BY <2>1, <2>3, <1>t DEF Moves, Request, Names
<1>3. ASSUME Prior(r) \/ Build(r) PROVE Moves(r)
  <2>1. call[r].id \in Ids
    BY <1>3 DEF ServInv, Calling, OnCourse, Course, Nameless, Prior, Build, CallAt
  <2>2. vault[call[r].id] \in Secrets
    BY <2>1, <1>t
  <2>3. CASE Prior(r)
    BY <2>2, <2>3, <1>t DEF Prior, Id, Moves, Request
  <2>4. CASE Build(r)
    BY <2>2, <2>4, <1>t, <1>f DEF Build, Id, Moves, Request
  <2> QED BY <1>3, <2>3, <2>4
<1>4. ASSUME Upsert(r) \/ UpsertFails(r) \/ Failed(r) \/ Lock(r) \/ PublishProvider(r) PROVE Moves(r)
  <2>1. call[r].prior \in Secrets
    BY <1>t DEF Request
  <2> QED BY <1>4, <2>1, <1>t, <1>g, <1>f, <1>w
          DEF Upsert, UpsertFails, Compensate, Failed, Fail, Lock, PublishProvider
<1>5. ASSUME LookUp(r) \/ BuildFails(r) \/ Enter(r) \/ Reload(r) \/ Evict(r) PROVE Moves(r)
  BY <1>5, <1>g, <1>f DEF LookUp, BuildFails, Enter, Reload, Evict
<1>6. ASSUME Sync(r) PROVE Moves(r)
  <2>1. call[r].id \in Ids
    BY <1>6 DEF ServInv, Calling, OnCourse, Course, Nameless, Sync, CallAt
  <2> QED BY <1>6, <2>1, <1>t, <1>g, <1>w DEF Sync, Id
<1>7. ASSUME Delete(r) \/ Reselect(r) PROVE Moves(r)
  BY <1>7, <1>t, <1>g, <1>w, <1>f DEF Delete, Reselect
<1>8. ASSUME NextInLine(r) PROVE Moves(r)
  <2>1. db.rows \subseteq Names
    BY DEF ServInv, ServTypeOK, Names
  <2>2. CASE db.rows = {}
    BY <1>8, <2>2, <1>g DEF NextInLine
  <2>3. CASE db.rows # {}
    <3>1. PICK i \in db.rows : call' = [call EXCEPT ![r].id = i, ![r].at = "reselect"]
      BY <1>8, <2>3 DEF NextInLine
    <3>2. i \in Names
      BY <2>1
    <3> QED BY <3>1, <3>2, <1>t DEF Moves, Request
  <2> QED BY <2>2, <2>3
<1>9. ASSUME ClearRows(r) \/ ClearVault(r) \/ ClearFails(r) PROVE Moves(r)
  BY <1>9, <1>g, <1>f DEF ClearRows, ClearVault, ClearFails
<1> QED BY <1>1, <1>2, <1>3, <1>4, <1>5, <1>6, <1>7, <1>8, <1>9 DEF Step

(* A request stays on course: the others as nothing they rely on is taken  *)
(* back.                                                                   *)
LEMMA CallingIf ==
  ASSUME ServInv, NEW r \in Calls, Moves(r), OnCourse(call[r])', taken \subseteq taken',
         removed \subseteq removed', db.rows \cup removed \subseteq (db.rows \cup removed)',
         (db.rows \subseteq taken /\ mgr.chosen \subseteq mgr.rows)'
  PROVE  Calling'
<1>1. ASSUME NEW q \in Calls, q # r PROVE OnCourse(call[q])'
  <2>1. OnCourse(call[q]) /\ call'[q] = call[q]
    BY <1>1 DEF ServInv, Calling, Moves
  <2> QED BY <2>1 DEF OnCourse, Holder, Nameless, Writing, Building
<1> QED BY <1>1 DEF Calling, Moves

LEMMA CallingBegins == ASSUME ServInv, NEW r \in Calls, Start(r) PROVE Calling'
<1>t. /\ OnCourse(call[r]) /\ call \in [Calls -> Request]
      /\ db.rows \subseteq taken /\ mgr.chosen \subseteq mgr.rows /\ removed \subseteq taken
      /\ db \in [rows : SUBSET Ids, chosen : SUBSET Ids] /\ taken \subseteq Ids
  BY DEF ServInv, Calling, ServTypeOK
<1>m. Moves(r)
  BY StartMoves
<1> USE DEF CallAt, Accept, OnCourse, Course, Holder, Nameless, Writing, Building
<1>1. ASSUME NEW s \in Plain, ConnectServer(r, s) PROVE Calling'
  <2> DEFINE i == IF RowsOf(s) # {} THEN CHOOSE k \in RowsOf(s) : TRUE ELSE FreshId(s)
  <2>1. i \in Ids /\ i[1] = s
    BY <1>1, <1>t, NothingTaken DEF ConnectServer, RowsOf, Servers, ServInv
  <2>2. /\ call' = [call EXCEPT ![r].kind = "connect", ![r].id = i, ![r].at = "portable"]
        /\ taken' = taken \cup {i} /\ UNCHANGED <<removed, mgr>> /\ db' \in {db, Insert(i)}
    BY <1>1 DEF ConnectServer
  <2> HIDE DEF i
  <2>3. OnCourse(call[r])'
    BY <2>1, <2>2, <1>t
  <2>4. db.rows \subseteq db'.rows /\ db'.rows \subseteq taken'
    BY <2>2, <1>t DEF Insert
  <2> QED BY <2>2, <2>3, <2>4, <1>t, <1>m, CallingIf
<1>2. ASSUME NEW o \in offers, NEW s \in Scoped, Commit(r, o, s) PROVE Calling'
  <2>1. OnCourse(call[r])'
    BY <1>2, <1>t DEF Commit
  <2> QED BY <1>2, <2>1, <1>t, <1>m, CallingIf DEF Commit, pastVars
<1>3. ASSUME NEW i \in Ids, Reauthenticate(r, i) \/ Use(r, i) \/ Update(r, i) PROVE Calling'
  <2>1. OnCourse(call[r])'
    <3>1. CASE Reauthenticate(r, i)
      BY <3>1, <1>t DEF Reauthenticate, pastVars
    <3>2. CASE Use(r, i)
      BY <3>2, <1>t DEF Use, pastVars
    <3>3. CASE Update(r, i)
      BY <3>3, <1>t DEF Update, pastVars
    <3> QED BY <1>3, <3>1, <3>2, <3>3
  <2> QED BY <1>3, <2>1, <1>t, <1>m, CallingIf DEF Reauthenticate, Use, Update, pastVars
<1>4. ASSUME NEW i \in Ids, SelectServer(r, i) PROVE Calling'
  <2>1. OnCourse(call[r])'
    <3>1. CASE i \in db.rows
      <4>1. call' = [call EXCEPT ![r].kind = "select", ![r].id = i, ![r].at = "sync"]
        BY <1>4, <3>1 DEF SelectServer
      <4>2. db'.rows = db.rows
        BY <1>4, <1>t DEF SelectServer, SetSelected
      <4> QED BY <4>1, <4>2, <3>1, <1>t
    <3>2. CASE i \notin db.rows
      BY <1>4, <1>t, <3>2 DEF SelectServer, SetSelected, Finish, NoCall
    <3> QED BY <3>1, <3>2
  <2> QED BY <1>4, <2>1, <1>t, <1>m, CallingIf DEF SelectServer, SetSelected, pastVars
<1>5. ASSUME NEW i \in Ids, Remove(r, i) PROVE Calling'
  <2>1. OnCourse(call[r])'
    BY <1>5, <1>t DEF Remove
  <2> QED BY <1>5, <2>1, <1>t, <1>m, CallingIf DEF Remove, pastVars
<1>6. ASSUME Logout(r) PROVE Calling'
  <2>1. OnCourse(call[r])'
    BY <1>6, <1>t DEF Logout
  <2> QED BY <1>6, <2>1, <1>t, <1>m, CallingIf DEF Logout
<1> QED BY <1>1, <1>2, <1>3, <1>4, <1>5, <1>6 DEF Start

(* What the usual steps make of a request.                                 *)
LEMMA Writes ==
  ASSUME call \in [Calls -> Request], NEW r \in Calls, NEW secret, NEW then, Write(r, secret, then)
  PROVE  /\ call'[r].at = "load" /\ call'[r].secret = secret /\ call'[r].then = then
         /\ call'[r].kind = call[r].kind /\ call'[r].id = call[r].id /\ call'[r].prior = call[r].prior
BY DEF Write, Request
LEMMA GoesTo ==
  ASSUME call \in [Calls -> Request], NEW r \in Calls, NEW label, CallTo(r, label)
  PROVE  /\ call'[r].at = label /\ call'[r].secret = call[r].secret /\ call'[r].then = call[r].then
         /\ call'[r].kind = call[r].kind /\ call'[r].id = call[r].id /\ call'[r].prior = call[r].prior
BY DEF CallTo, Request
LEMMA Finishes ==
  ASSUME call \in [Calls -> Request], NEW r \in Calls, Finish(r)
  PROVE  call'[r].at = "done" /\ call'[r].kind = "none"
BY DEF Finish, NoCall, Request

LEMMA CallingGoesOn == ASSUME ServInv, NEW r \in Calls, Step(r) PROVE Calling'
<1>t. /\ OnCourse(call[r]) /\ call \in [Calls -> Request] /\ call[r] \in Request
      /\ db.rows \subseteq taken /\ mgr.chosen \subseteq mgr.rows /\ removed \subseteq taken
      /\ db.chosen \subseteq db.rows /\ db.rows \subseteq Ids
      /\ db \in [rows : SUBSET Ids, chosen : SUBSET Ids]
      /\ mgr \in [rows : SUBSET Ids, chosen : SUBSET Ids, providers : [Ids -> Secrets]]
  BY DEF ServInv, Calling, ServTypeOK, Apart
<1>m. Moves(r)
  BY StepMoves
<1>f. ASSUME Finish(r) PROVE OnCourse(call[r])'
  BY <1>f, <1>t, Finishes DEF OnCourse, Course, Holder, Nameless, Writing, Building
<1> USE DEF CallAt, Id, OnCourse, Course, Leads, Holder, Nameless, Writing, Building
<1>1. ASSUME LoadVault(r) \/ SaveVault(r) \/ SaveFails(r) \/ Portable(r) PROVE Calling'
  <2>1. OnCourse(call[r])'
    <3>1. CASE LoadVault(r)
      BY <3>1, <1>t DEF LoadVault, pastVars
    <3>2. CASE SaveVault(r)
      BY <3>2, <1>t DEF SaveVault
    <3>3. CASE SaveFails(r)
      <4>1. CASE call[r].then = "evict"
        <5>1. /\ call'[r].at = "evict" /\ call'[r].kind = call[r].kind /\ call'[r].id = call[r].id
              /\ UNCHANGED <<removed, taken>> /\ call[r].at = "save"
          BY <3>3, <4>1, <1>t DEF SaveFails, Request
        <5> QED BY <5>1, <4>1, <1>t
      <4> QED BY <3>3, <4>1, <1>f DEF SaveFails, Fail
    <3>4. CASE Portable(r)
      BY <3>4, <1>t, <1>f, Writes DEF Portable, pastVars
    <3> QED BY <1>1, <3>1, <3>2, <3>3, <3>4
  <2>2. UNCHANGED <<taken, removed, db, mgr>>
    BY <1>1 DEF LoadVault, SaveVault, SaveFails, Portable, pastVars
  <2> QED BY <2>1, <2>2, <1>t, <1>m, CallingIf
<1>2. ASSUME Find(r) PROVE Calling'
  <2> DEFINE s == Id(r)[1]
             i == IF RowsOf(s) # {} THEN CHOOSE k \in RowsOf(s) : TRUE ELSE FreshId(s)
  <2>1. /\ call' = [call EXCEPT ![r].at = "prior", ![r].id = i] /\ (RowsOf(s) # {} \/ HasFreshId(s))
        /\ taken' = taken \cup {i} /\ UNCHANGED <<removed, db, mgr>> /\ call[r].at = "find"
    BY <1>2 DEF Find
  <2>2. s \in Scoped /\ call[r].kind = "commit"
    BY <2>1, <1>t
  <2>3. i \in Ids /\ i[1] = s
    BY <2>1, <2>2, <1>t, NothingTaken DEF RowsOf, ServInv, Servers
  <2> HIDE DEF i, s
  <2>4. OnCourse(call[r])'
    BY <2>1, <2>2, <2>3, <1>t
  <2> QED BY <2>1, <2>4, <1>t, <1>m, CallingIf
<1>3. ASSUME Prior(r) \/ Build(r) \/ UpsertFails(r) \/ Failed(r) \/ Lock(r) PROVE Calling'
  <2>1. OnCourse(call[r])'
    <3>1. CASE Prior(r)
      BY <3>1, <1>t DEF Prior, pastVars
    <3>2. CASE Build(r)
      <4>1. CASE vault[call[r].id] = NoSecret
        BY <3>2, <4>1, <1>f DEF Build
      <4>2. CASE vault[call[r].id] # NoSecret
        <5>1. /\ call'[r].at = "enter" /\ call'[r].kind = call[r].kind /\ call'[r].id = call[r].id
              /\ call'[r].secret # NoSecret /\ UNCHANGED <<removed, taken, db>> /\ call[r].at = "build"
          BY <3>2, <4>2, <1>t DEF Build, pastVars, Request
        <5> QED BY <5>1, <1>t
      <4> QED BY <4>1, <4>2
    <3>3. CASE UpsertFails(r) \/ Lock(r)
      BY <3>3, <1>t, Writes DEF UpsertFails, Compensate, Lock, pastVars
    <3>4. CASE Failed(r)
      BY <3>4, <1>f DEF Failed, Fail
    <3> QED BY <1>3, <3>1, <3>2, <3>3, <3>4
  <2> QED BY <1>3, <2>1, <1>t, <1>m, CallingIf DEF Prior, Build, UpsertFails, Failed, Lock, pastVars
<1>4. ASSUME Upsert(r) PROVE Calling'
  <2>1. db.rows \subseteq db'.rows /\ db'.rows \subseteq taken /\ UNCHANGED <<taken, removed, mgr>>
    BY <1>4, <1>t DEF Upsert, Insert, pastVars
  <2>2. OnCourse(call[r])'
    BY <1>4, <2>1, <1>t, GoesTo DEF Upsert
  <2> QED BY <2>1, <2>2, <1>t, <1>m, CallingIf
<1>5. ASSUME PublishProvider(r) \/ Reload(r) PROVE Calling'
  <2>1. OnCourse(call[r])'
    <3>1. CASE Finish(r)
      BY <1>f, <3>1
    <3>2. CASE Reload(r) /\ CallTo(r, "look")
      <4>1. call[r].kind = "select" /\ call[r].at = "reload"
        BY <3>2, <1>t, GoesTo, Finishes DEF Reload, pastVars
      <4>2. /\ call'[r].at = "look" /\ call'[r].kind = call[r].kind /\ call'[r].id = call[r].id
        BY <3>2, <1>t, GoesTo
      <4> QED BY <4>1, <4>2, <3>2, <1>t DEF Reload, pastVars
    <3> QED BY <1>5, <3>1, <3>2 DEF PublishProvider, Reload
  <2>2. (mgr.chosen \subseteq mgr.rows)'
    BY <1>5, <1>t DEF PublishProvider, Reload, Loaded
  <2> QED BY <1>5, <2>1, <2>2, <1>t, <1>m, CallingIf DEF PublishProvider, Reload, pastVars
<1>6. ASSUME LookUp(r) \/ BuildFails(r) \/ Enter(r) \/ Evict(r) PROVE Calling'
  <2>1. OnCourse(call[r])'
    <3>1. CASE Finish(r)
      BY <1>f, <3>1
    <3>2. CASE LookUp(r) /\ CallTo(r, "build")
      BY <3>2, <1>t, GoesTo DEF LookUp, pastVars
    <3>3. CASE Evict(r)
      BY <3>3, <1>t, GoesTo DEF Evict
    <3> QED BY <1>6, <3>1, <3>2, <3>3 DEF LookUp, BuildFails, Enter
  <2> QED BY <1>6, <2>1, <1>t, <1>m, CallingIf DEF LookUp, BuildFails, Enter, Evict, pastVars
<1>7. ASSUME Sync(r) \/ NextInLine(r) PROVE Calling'
  <2>1. OnCourse(call[r])'
    <3>1. CASE Sync(r)
      BY <3>1, <1>t, Writes, GoesTo DEF Sync, pastVars
    <3>2. CASE NextInLine(r) /\ db.rows = {}
      BY <3>2, <1>t, GoesTo DEF NextInLine
    <3>3. CASE NextInLine(r) /\ db.rows # {}
      <4>1. PICK i \in db.rows : call' = [call EXCEPT ![r].id = i, ![r].at = "reselect"]
        BY <3>3 DEF NextInLine
      <4>2. /\ call'[r].at = "reselect" /\ call'[r].kind = call[r].kind /\ call'[r].id \in Ids
            /\ call[r].at = "next"
        BY <3>3, <4>1, <1>t DEF NextInLine, Request
      <4> QED BY <4>2, <1>t
    <3> QED BY <1>7, <3>1, <3>2, <3>3
  <2> QED BY <1>7, <2>1, <1>t, <1>m, CallingIf DEF Sync, NextInLine, pastVars
<1>8. ASSUME Delete(r) \/ Reselect(r) PROVE Calling'
  <2>1. OnCourse(call[r])'
    <3>1. CASE Finish(r)
      BY <1>f, <3>1
    <3>2. CASE Delete(r) /\ Id(r) \in db.rows
      BY <3>2, <1>t, Writes DEF Delete
    <3>3. CASE Reselect(r) /\ CallTo(r, "sync")
      BY <3>3, <1>t, GoesTo DEF Reselect
    <3> QED BY <1>8, <3>1, <3>2, <3>3 DEF Delete, Reselect
  <2> QED BY <1>8, <2>1, <1>t, <1>m, CallingIf DEF Delete, Reselect, SetSelected, pastVars
<1>9. ASSUME ClearRows(r) \/ ClearVault(r) \/ ClearFails(r) PROVE Calling'
  <2>1. OnCourse(call[r])'
    BY <1>9, <1>t, <1>f, GoesTo DEF ClearRows, ClearVault, ClearFails, pastVars
  <2> QED BY <1>9, <2>1, <1>t, <1>m, CallingIf DEF ClearRows, ClearVault, ClearFails, pastVars
<1> QED BY <1>1, <1>2, <1>3, <1>4, <1>5, <1>6, <1>7, <1>8, <1>9 DEF Step

LEMMA Starts ==
  ASSUME ServInv, NEW r \in Calls, Start(r)
  PROVE  /\ call[r].at = "idle" /\ ~Holder(call[r])
         /\ call'[r].at \in {"find", "lock", "portable", "look", "sync", "reload", "delete", "clear", "done"}
         /\ call'[r].at \in {"find", "lock"} \/ ~Holder(call'[r])
<1>t. call \in [Calls -> Request] /\ call[r] \in Request
  BY DEF ServInv, Calling
<1>1. call[r].at = "idle"
  BY DEF Start, ConnectServer, Commit, Reauthenticate, Use, SelectServer, Remove, Update, Logout, Accept, CallAt
<1>2. ~Holder(call[r])
  BY <1>1 DEF ServInv, Calling, OnCourse, Course, Holder
<1>a. ASSUME NEW kind, NEW id, NEW label, Accept(r, kind, id, label)
      PROVE  call'[r].kind = kind /\ call'[r].at = label
  BY <1>a, <1>t DEF Accept, Request
<1>3. CASE \E s \in Plain : ConnectServer(r, s)
  BY <1>1, <1>2, <1>3, <1>a DEF ConnectServer, Holder
<1>4. CASE \E o \in offers, s \in Scoped : Commit(r, o, s)
  BY <1>1, <1>2, <1>4, <1>a DEF Commit
<1>5. CASE \E i \in Ids : Reauthenticate(r, i) \/ Use(r, i) \/ Update(r, i)
  BY <1>1, <1>2, <1>5, <1>a DEF Reauthenticate, Use, Update, Holder
<1>6. CASE \E i \in Ids : SelectServer(r, i)
  BY <1>1, <1>2, <1>6, <1>a, <1>t, Finishes DEF SelectServer, Holder
<1>7. CASE \E i \in Ids : Remove(r, i)
  BY <1>1, <1>2, <1>7, <1>t DEF Remove, Holder, Request
<1>8. CASE Logout(r)
  BY <1>1, <1>2, <1>8, <1>a DEF Logout, Holder
<1> QED BY <1>3, <1>4, <1>5, <1>6, <1>7, <1>8 DEF Start

-----------------------------------------------------------------------------
LEMMA KeptIf ==
  ASSUME ServInv, NEW r \in Calls, Moves(r),
         \/ keeper' = keeper /\ (Keeping(call'[r]) <=> Keeping(call[r]))
         \/ keeper = NoKeeper /\ keeper' = r /\ Keeping(call'[r])
         \/ LetGo(r) /\ ~Keeping(call'[r])
  PROVE  Kept'
<1>1. r # NoKeeper /\ \A q \in Calls : Keeping(call[q]) <=> keeper = q
  BY ServersAssumption DEF ServInv, Kept
<1>2. ASSUME NEW q \in Calls PROVE Keeping(call'[q]) <=> keeper' = q
  BY <1>1, ServersAssumption DEF Moves, LetGo
<1>3. \A q \in Calls : Keeping(call[q])' <=> Keeping(call'[q])
  BY DEF Keeping, Holder
<1> QED BY <1>2, <1>3 DEF Kept

LEMMA KeptBegins == ASSUME ServInv, NEW r \in Calls, Start(r) PROVE Kept'
<1>t. call \in [Calls -> Request] /\ call[r] \in Request /\ OnCourse(call[r])
  BY DEF ServInv, Calling
<1>m. Moves(r)
  BY StartMoves
<1>a. ASSUME NEW kind, NEW id, NEW label, Accept(r, kind, id, label)
      PROVE  ~Keeping(call[r]) /\ call'[r].kind = kind /\ call'[r].at = label
  BY <1>a, <1>t DEF Accept, CallAt, OnCourse, Course, Keeping, Holder, Request
<1>f. ASSUME Finish(r), CallAt(r, "idle") PROVE ~Keeping(call[r]) /\ ~Keeping(call'[r])
  BY <1>f, <1>t, Finishes DEF CallAt, OnCourse, Course, Keeping, Holder
<1>1. ASSUME NEW s \in Plain, ConnectServer(r, s) PROVE Kept'
  BY <1>1, <1>a, <1>m, KeptIf DEF ConnectServer, Keeping, Holder
<1>2. ASSUME NEW o \in offers, NEW s \in Scoped, Commit(r, o, s) PROVE Kept'
  BY <1>2, <1>a, <1>m, KeptIf DEF Commit, Keeping, Holder
<1>3. ASSUME NEW i \in Ids, Reauthenticate(r, i) \/ Use(r, i) \/ Update(r, i) PROVE Kept'
  BY <1>3, <1>a, <1>m, KeptIf DEF Reauthenticate, Use, Update, Keeping, Holder
<1>4. ASSUME NEW i \in Ids, SelectServer(r, i) PROVE Kept'
  BY <1>4, <1>a, <1>f, <1>m, KeptIf DEF SelectServer, Keeping, Holder
<1>5. ASSUME NEW i \in Ids, Remove(r, i) PROVE Kept'
  BY <1>5, <1>t, <1>m, KeptIf DEF Remove, Keeping, Holder, CallAt, OnCourse, Course, Request
<1>6. ASSUME Logout(r) PROVE Kept'
  BY <1>6, <1>a, <1>m, KeptIf DEF Logout, Keeping, Holder
<1> QED BY <1>1, <1>2, <1>3, <1>4, <1>5, <1>6 DEF Start

LEMMA KeptGoesOn == ASSUME ServInv, NEW r \in Calls, Step(r) PROVE Kept'
<1>t. call \in [Calls -> Request] /\ call[r] \in Request /\ OnCourse(call[r])
  BY DEF ServInv, Calling
<1>m. Moves(r)
  BY StepMoves
<1>g. ASSUME NEW label, CallTo(r, label), label \notin {"find", "lock"},
             call[r].at \notin {"find", "lock"}, UNCHANGED keeper
      PROVE  Kept'
  BY <1>g, <1>t, <1>m, GoesTo, KeptIf DEF Keeping, Holder
<1>w. ASSUME NEW secret, NEW then, Write(r, secret, then), call[r].at # "find",
             \/ call[r].at # "lock" /\ UNCHANGED keeper
             \/ call[r].at = "lock" /\ keeper = NoKeeper /\ keeper' = r
      PROVE  Kept'
  BY <1>w, <1>t, <1>m, Writes, KeptIf DEF Keeping, Holder, OnCourse, Course
<1>f. ASSUME Finish(r), LetGo(r) \/ (UNCHANGED keeper /\ ~Keeping(call[r])) PROVE Kept'
  BY <1>f, <1>t, <1>m, Finishes, KeptIf DEF Keeping, Holder
<1>k. ~Holder(call[r]) => ~Keeping(call[r])
  BY DEF Keeping
<1> USE DEF CallAt
<1>1. ASSUME LoadVault(r) \/ SaveVault(r) PROVE Kept'
  BY <1>1, <1>t, <1>m, KeptIf DEF LoadVault, SaveVault, Keeping, Holder, OnCourse, Course, Leads, Writing, Request
<1>2. ASSUME SaveFails(r) PROVE Kept'
  <2>1. CASE call[r].then = "evict"
    BY <1>2, <2>1, <1>t, <1>m, KeptIf DEF SaveFails, Keeping, Holder, Request
  <2>2. CASE call[r].then # "evict"
    <3>1. Finish(r) /\ LetGo(r)
      BY <1>2, <2>2 DEF SaveFails, Fail
    <3> QED BY <3>1, <1>f
  <2> QED BY <2>1, <2>2
<1>3. ASSUME Portable(r) PROVE Kept'
  <2>1. ~Keeping(call[r])
    BY <1>3, <1>t DEF Portable, OnCourse, Course, Keeping, Holder
  <2> QED BY <1>3, <2>1, <1>w, <1>f DEF Portable
<1>4. ASSUME Find(r) \/ Prior(r) PROVE Kept'
  <2>1. CASE Find(r)
    BY <2>1, <1>t, <1>m, KeptIf DEF Find, Keeping, Holder, OnCourse, Course, Request
  <2>2. CASE Prior(r)
    BY <2>2, <1>t, <1>m, KeptIf DEF Prior, Keeping, Holder, OnCourse, Course, Request
  <2> QED BY <1>4, <2>1, <2>2
<1>5. ASSUME Upsert(r) \/ UpsertFails(r) \/ Lock(r) PROVE Kept'
  BY <1>5, <1>g, <1>w DEF Upsert, UpsertFails, Compensate, Lock
<1>6. ASSUME Failed(r) \/ PublishProvider(r) PROVE Kept'
  <2>1. Finish(r) /\ LetGo(r)
    BY <1>6 DEF Failed, Fail, PublishProvider
  <2> QED BY <2>1, <1>f
<1>7. ASSUME LookUp(r) \/ Build(r) \/ BuildFails(r) \/ Enter(r) \/ Sync(r) \/ Reload(r) PROVE Kept'
  <2>1. ~Keeping(call[r]) /\ UNCHANGED keeper
    BY <1>7, <1>t DEF LookUp, Build, BuildFails, Enter, Sync, Reload, OnCourse, Course, Keeping, Holder
  <2>2. CASE Finish(r)
    BY <2>1, <2>2, <1>f
  <2>3. CASE Build(r) /\ ~Finish(r)
    BY <2>1, <2>3, <1>t, <1>m, KeptIf DEF Build, Keeping, Holder, Request
  <2> QED BY <1>7, <2>1, <2>2, <2>3, <1>g, <1>w DEF LookUp, BuildFails, Enter, Sync, Reload
<1>8. ASSUME Delete(r) \/ Evict(r) \/ NextInLine(r) \/ Reselect(r) PROVE Kept'
  <2>1. ~Keeping(call[r]) /\ ~Holder(call[r]) /\ UNCHANGED keeper
    BY <1>8, <1>t DEF Delete, Evict, NextInLine, Reselect, OnCourse, Course, Keeping, Holder
  <2>2. CASE NextInLine(r) /\ db.rows # {}
    <3>1. PICK i \in db.rows : call' = [call EXCEPT ![r].id = i, ![r].at = "reselect"]
      BY <2>2 DEF NextInLine
    <3>2. call'[r].kind = call[r].kind
      BY <3>1, <1>t DEF Request
    <3> QED BY <2>1, <3>2, <1>m, KeptIf DEF Keeping, Holder
  <2> QED BY <1>8, <2>1, <2>2, <1>f, <1>g, <1>w DEF Delete, Evict, NextInLine, Reselect
<1>9. ASSUME ClearRows(r) \/ ClearVault(r) \/ ClearFails(r) PROVE Kept'
  <2>1. ~Keeping(call[r]) /\ UNCHANGED keeper
    BY <1>9, <1>t DEF ClearRows, ClearVault, ClearFails, OnCourse, Course, Keeping, Holder
  <2> QED BY <1>9, <2>1, <1>f, <1>g DEF ClearRows, ClearVault, ClearFails
<1> QED BY <1>1, <1>2, <1>3, <1>4, <1>5, <1>6, <1>7, <1>8, <1>9 DEF Step

(* The types, and the rows of the database.                                *)
LEMMA TypesBegin == ASSUME ServInv, NEW r \in Calls, Start(r) PROVE ServTypeOK'
<1>t. ServTypeOK /\ NoSecret \in Secrets
  BY DEF ServInv, Secrets
<1> USE DEF ServTypeOK, pastVars
<1>1. ASSUME NEW s \in Plain, ConnectServer(r, s) PROVE ServTypeOK'
  <2> DEFINE i == IF RowsOf(s) # {} THEN CHOOSE k \in RowsOf(s) : TRUE ELSE FreshId(s)
  <2>1. i \in Ids
    BY <1>1, <1>t, NothingTaken DEF ConnectServer, RowsOf, Servers, ServInv
  <2>2. /\ taken' = taken \cup {i} /\ db' \in {db, Insert(i)}
        /\ UNCHANGED <<vault, mgr, keeper, offers, mishaps, removed, lost, stale>>
    BY <1>1 DEF ConnectServer
  <2> HIDE DEF i
  <2> QED BY <2>1, <2>2, <1>t DEF Insert
<1>2. ASSUME NEW o \in offers, NEW s \in Scoped, Commit(r, o, s) PROVE ServTypeOK'
  BY <1>2, <1>t DEF Commit
<1>3. ASSUME NEW i \in Ids, Reauthenticate(r, i) \/ Use(r, i) \/ Update(r, i) \/ Remove(r, i) PROVE ServTypeOK'
  BY <1>3, <1>t DEF Reauthenticate, Use, Update, Remove
<1>4. ASSUME NEW i \in Ids, SelectServer(r, i) PROVE ServTypeOK'
  BY <1>4, <1>t DEF SelectServer, SetSelected
<1>5. ASSUME Logout(r) PROVE ServTypeOK'
  <2>1. {Id(q) : q \in {p \in Calls : CallAt(p, "enter") /\ call[p].secret # vault[Id(p)]}} \subseteq Ids
    BY DEF ServInv, Calling, OnCourse, Course, Nameless, CallAt, Id
  <2> QED BY <1>5, <2>1, <1>t DEF Logout, EmptyVault
<1> QED BY <1>1, <1>2, <1>3, <1>4, <1>5 DEF Start

LEMMA TypesGoOn == ASSUME ServInv, NEW r \in Calls, Step(r) PROVE ServTypeOK'
<1>t. /\ ServTypeOK /\ NoSecret \in Secrets /\ r \in Secrets /\ call[r] \in Request
      /\ OnCourse(call[r]) /\ db.rows \subseteq taken
  BY DEF ServInv, Calling, Secrets
<1>n. ~Nameless(call[r]) => Id(r) \in Ids
  BY <1>t DEF OnCourse, Id
<1>l. keeper \in Calls \cup {NoKeeper} /\ (LetGo(r) => keeper' \in Calls \cup {NoKeeper})
  BY <1>t DEF LetGo, ServTypeOK
<1>x. mishaps \in 0 .. MaxMishaps /\ (Mishap => mishaps' \in 0 .. MaxMishaps)
  BY <1>t, ServersAssumption DEF Mishap, ServTypeOK
<1>1. ASSUME SaveVault(r) PROVE ServTypeOK'
  <2>1. Written(r) \in [Ids -> Secrets] /\ Id(r) \in Ids
    BY <1>1, <1>t, <1>n DEF Written, Request, SaveVault, CallAt, OnCourse, Course, Nameless
  <2> QED BY <1>1, <2>1, <1>t DEF SaveVault, ServTypeOK
<1>2. ASSUME SaveFails(r) PROVE ServTypeOK'
  <2>1. Id(r) \in Ids
    BY <1>2, <1>t, <1>n DEF SaveFails, CallAt, OnCourse, Course, Nameless
  <2>2. keeper' \in Calls \cup {NoKeeper} /\ stale' \in BOOLEAN
    BY <1>2, <1>t, <1>l DEF SaveFails, Fail, ServTypeOK
  <2> QED BY <1>2, <2>1, <2>2, <1>t, <1>x DEF SaveFails, ServTypeOK
<1>3. ASSUME Find(r) PROVE ServTypeOK'
  <2> DEFINE s == Id(r)[1]
             i == IF RowsOf(s) # {} THEN CHOOSE k \in RowsOf(s) : TRUE ELSE FreshId(s)
  <2>1. /\ keeper' = r /\ taken' = taken \cup {i} /\ (RowsOf(s) # {} \/ HasFreshId(s))
        /\ UNCHANGED <<db, vault, mgr, offers, mishaps, removed, lost, stale>>
    BY <1>3 DEF Find
  <2>2. s \in Servers
    BY <1>3, <1>t DEF Find, CallAt, Id, OnCourse, Servers
  <2>3. i \in Ids
    BY <2>1, <2>2, <1>t, NothingTaken DEF RowsOf, ServTypeOK
  <2> HIDE DEF i, s
  <2> QED BY <2>1, <2>3, <1>t DEF ServTypeOK
<1>4. ASSUME Upsert(r) PROVE ServTypeOK'
  <2>1. Id(r) \in Ids
    BY <1>4, <1>t, <1>n DEF Upsert, CallAt, OnCourse, Course, Nameless
  <2> QED BY <1>4, <2>1, <1>t DEF Upsert, Insert, ServTypeOK, pastVars
<1>5. ASSUME PublishProvider(r) PROVE ServTypeOK'
  <2>1. Id(r) \in Ids
    BY <1>5, <1>t, <1>n DEF PublishProvider, CallAt, OnCourse, Course, Nameless
  <2>2. [mgr.providers EXCEPT ![Id(r)] = r] \in [Ids -> Secrets]
    BY <1>t DEF ServTypeOK
  <2>3. mgr' \in [rows : SUBSET Ids, chosen : SUBSET Ids, providers : [Ids -> Secrets]]
    BY <1>5, <2>2, <1>t DEF PublishProvider, Loaded, ServTypeOK
  <2>4. stale' \in BOOLEAN
    BY <1>5, <1>t DEF PublishProvider, ServTypeOK
  <2>5. keeper' \in Calls \cup {NoKeeper}
    BY <1>5, <1>l DEF PublishProvider
  <2> QED BY <1>5, <2>3, <2>4, <2>5, <1>t DEF PublishProvider, ServTypeOK, pastVars
<1>6. ASSUME Enter(r) \/ Evict(r) PROVE ServTypeOK'
  <2>1. Id(r) \in Ids /\ call[r].secret \in Secrets
    BY <1>6, <1>t, <1>n DEF Enter, Evict, CallAt, OnCourse, Course, Nameless, Request
  <2>2. mgr' \in [rows : SUBSET Ids, chosen : SUBSET Ids, providers : [Ids -> Secrets]]
    BY <1>6, <2>1, <1>t DEF Enter, Evict, Entered, ServTypeOK
  <2> QED BY <1>6, <2>2, <1>t DEF Enter, Evict, ServTypeOK, pastVars
<1>7. ASSUME LoadVault(r) \/ Portable(r) \/ Prior(r) \/ LookUp(r) \/ Build(r) \/ BuildFails(r)
             \/ Sync(r) \/ NextInLine(r)
      PROVE  ServTypeOK'
  BY <1>7, <1>t DEF LoadVault, Portable, Prior, LookUp, Build, BuildFails, Sync, NextInLine, ServTypeOK, pastVars
<1>8. ASSUME UpsertFails(r) \/ Failed(r) \/ Lock(r) PROVE ServTypeOK'
  BY <1>8, <1>t, <1>x, <1>l DEF UpsertFails, Failed, Fail, Lock, ServTypeOK, pastVars
<1>9. ASSUME Reload(r) \/ Reselect(r) PROVE ServTypeOK'
  <2>1. CASE Reload(r)
    BY <2>1, <1>t DEF Reload, Loaded, ServTypeOK, pastVars
  <2>2. CASE Reselect(r)
    <3>1. stale' \in BOOLEAN
      BY <2>2, <1>t DEF Reselect, ServTypeOK
    <3> QED BY <2>2, <3>1, <1>t DEF Reselect, SetSelected, ServTypeOK, pastVars
  <2> QED BY <1>9, <2>1, <2>2
<1>10. ASSUME Delete(r) PROVE ServTypeOK'
  BY <1>10, <1>t DEF Delete, ServTypeOK
<1>11. ASSUME ClearRows(r) \/ ClearVault(r) \/ ClearFails(r) PROVE ServTypeOK'
  <2>1. CASE ClearRows(r)
    <3>1. stale' \in BOOLEAN
      BY <2>1 DEF ClearRows
    <3> QED BY <2>1, <3>1, <1>t DEF ClearRows, ServTypeOK
  <2>2. CASE ClearVault(r)
    BY <2>2, <1>t DEF ClearVault, EmptyVault, ServTypeOK
  <2>3. CASE ClearFails(r)
    <3>1. stale' \in BOOLEAN
      BY <2>3, <1>t DEF ClearFails, ServTypeOK
    <3> QED BY <2>3, <3>1, <1>t, <1>x DEF ClearFails, ServTypeOK, pastVars
  <2> QED BY <1>11, <2>1, <2>2, <2>3
<1> QED BY <1>1, <1>2, <1>3, <1>4, <1>5, <1>6, <1>7, <1>8, <1>9, <1>10, <1>11 DEF Step

LEMMA ApartIf ==
  ASSUME ServInv,
         \/ UNCHANGED db
         \/ \E i \in Ids : RowsOf(i[1]) = {} /\ db' = Insert(i)
         \/ \E i \in Ids : db' = SetSelected(i)
         \/ \E i \in Ids : db' = [rows |-> db.rows \ {i}, chosen |-> db.chosen \ {i}]
         \/ db' = [rows |-> {}, chosen |-> {}]
  PROVE  Apart'
BY DEF ServInv, ServTypeOK, Apart, RowsOf, Insert, SetSelected

LEMMA ApartBegins == ASSUME ServInv, NEW r \in Calls, Start(r) PROVE Apart'
<1>1. ASSUME NEW s \in Plain, ConnectServer(r, s) PROVE Apart'
  <2>1. CASE RowsOf(s) # {}
    BY <1>1, <2>1, ApartIf DEF ConnectServer
  <2>2. CASE RowsOf(s) = {}
    <3>1. db' = Insert(FreshId(s)) /\ FreshId(s) \in Ids /\ FreshId(s)[1] = s
      BY <1>1, <2>2, NothingTaken DEF ConnectServer, Servers, ServInv
    <3> QED BY <3>1, <2>2, ApartIf
  <2> QED BY <2>1, <2>2
<1>2. ASSUME NEW i \in Ids, SelectServer(r, i) PROVE Apart'
  BY <1>2, ApartIf DEF SelectServer
<1>3. CASE UNCHANGED db
  BY <1>3, ApartIf
<1> QED BY <1>1, <1>2, <1>3 DEF Start, Commit, Reauthenticate, Use, Remove, Update, Logout

LEMMA ApartGoesOn == ASSUME ServInv, NEW r \in Calls, Step(r) PROVE Apart'
<1>n. OnCourse(call[r]) /\ (~Nameless(call[r]) => Id(r) \in Ids)
  BY DEF ServInv, Calling, OnCourse, Id
<1>1. ASSUME Upsert(r) PROVE Apart'
  <2>1. Id(r) \in Ids
    BY <1>1, <1>n DEF Upsert, CallAt, OnCourse, Course, Nameless
  <2> QED BY <1>1, <2>1, ApartIf DEF Upsert
<1>2. ASSUME Delete(r) \/ Reselect(r) PROVE Apart'
  <2>1. Id(r) \in Ids
    BY <1>2, <1>n DEF Delete, Reselect, CallAt, OnCourse, Course, Nameless
  <2> QED BY <1>2, <2>1, ApartIf DEF Delete, Reselect
<1>3. ASSUME ClearRows(r) PROVE Apart'
  BY <1>3, ApartIf DEF ClearRows
<1>4. CASE UNCHANGED db
  BY <1>4, ApartIf
<1> QED BY <1>1, <1>2, <1>3, <1>4
        DEF Step, LoadVault, SaveVault, SaveFails, Portable, Find, Prior, UpsertFails, Failed, Lock,
            PublishProvider, LookUp, Build, BuildFails, Enter, Sync, Reload, Evict, NextInLine,
            ClearVault, ClearFails

-----------------------------------------------------------------------------
(* The vault.  A write leaves the secret of a library that nothing         *)
(* untoward has happened to, but for the one whoever has the manager       *)
(* changes.                                                                *)
LEMMA SavedVault ==
  ASSUME ServInv, NEW r \in Calls, SaveVault(r), NEW i \in Ids, Sane(i)'
  PROVE  /\ Sane(i) /\ Id(r) \in Ids
         /\ \/ i # Id(r) /\ vault'[i] = vault[i]
            \/ i = Id(r) /\ vault'[i] = call[r].secret /\ Keeping(call[r]) /\ ~Nameless(call[r])
<1>t. OnCourse(call[r]) /\ call[r] \in Request /\ vault \in [Ids -> Secrets]
  BY DEF ServInv, Calling, ServTypeOK
<1>1. Id(r) \in Ids /\ call[r].at = "save"
  BY <1>t DEF SaveVault, CallAt, OnCourse, Course, Nameless, Id
<1>2. i \notin removed /\ i \notin lost' /\ i[1] \in Scoped /\ Sane(i)
  BY DEF Sane, SaveVault
<1>3. CASE i # Id(r)
  BY <1>1, <1>2, <1>3 DEF SaveVault
<1>4. CASE i = Id(r)
  <2>1. Keeping(call[r]) /\ ~Nameless(call[r])
    BY <1>1, <1>2, <1>4, <1>t, ServersAssumption
       DEF OnCourse, Course, Leads, Writing, Keeping, Holder, Nameless, Id
  <2>2. vault'[i] = call[r].secret
    BY <1>1, <1>4, <1>t DEF SaveVault, Written, Request
  <2> QED BY <1>1, <1>2, <1>4, <2>1, <2>2
<1> QED BY <1>3, <1>4, <1>1, <1>2

(* What the holder of the manager relies on is not changed by others.      *)
LEMMA VaultedIf ==
  ASSUME ServInv, NEW r \in Calls, Moves(r), removed \subseteq removed', lost \subseteq lost',
         \/ Keeping(call[r])
         \/ \A i \in Ids : Sane(i)' => vault'[i] = vault[i] /\ (i \in db'.rows => i \in db.rows),
         Changing(call[r], call[r].id)' /\ Sane(call[r].id)' => Truthful(r, call[r])'
  PROVE  Vaulted'
<1>1. ASSUME NEW q \in Calls, q # r, (Holder(call[q]) /\ ~Nameless(call[q]) /\ Sane(call[q].id))'
      PROVE  Truthful(q, call[q])'
  <2>1. call'[q] = call[q] /\ OnCourse(call[q])
    BY <1>1 DEF Moves, ServInv, Calling
  <2>2. Holder(call[q]) /\ ~Nameless(call[q]) /\ Sane(call[q].id)
    BY <1>1, <2>1 DEF Holder, Nameless, Sane
  <2>3. Truthful(q, call[q])
    BY <2>2 DEF ServInv, Vaulted
  <2>4. CASE Keeping(call[r])
    <3>1. ~Keeping(call[q])
      BY <1>1, <2>4 DEF ServInv, Kept
    <3>2. call[q].at = "lock"
      BY <2>1, <2>2, <3>1 DEF Keeping, Nameless
    <3> QED BY <2>1, <3>2 DEF Truthful, TakesBack, Writing
  <2>5. CASE \A i \in Ids : Sane(i)' => vault'[i] = vault[i] /\ (i \in db'.rows => i \in db.rows)
    <3>1. call[q].id \in Ids /\ Sane(call[q].id)'
      BY <1>1, <2>1, <2>2 DEF OnCourse, Sane
    <3>2. vault'[call[q].id] = vault[call[q].id] /\ (call[q].id \in db'.rows => call[q].id \in db.rows)
      BY <2>1, <2>5, <3>1 DEF Sane
    <3> QED BY <2>1, <2>3, <3>2 DEF Truthful, TakesBack, Writing
  <2> QED BY <2>4, <2>5
<1> QED BY <1>1 DEF Vaulted, Changing, Holder, Nameless

(* A step that is nothing to the libraries.                                *)
Aside(r) ==
  /\ removed \subseteq removed' /\ lost \subseteq lost'
  /\ \A i \in Ids : Sane(i)' => vault'[i] = vault[i] /\ (i \in db'.rows => i \in db.rows)
LEMMA AsideOf ==
  ASSUME ServInv, NEW r \in Calls, Start(r) \/ Step(r), ~SaveVault(r), ~Upsert(r)
  PROVE  Aside(r)
<1>t. ServTypeOK
  BY DEF ServInv
<1>1. ASSUME NEW s \in Plain, ConnectServer(r, s) PROVE Aside(r)
  <2>1. CASE RowsOf(s) # {}
    BY <1>1, <2>1 DEF ConnectServer, Aside
  <2>2. CASE RowsOf(s) = {}
    <3>1. db' = Insert(FreshId(s)) /\ FreshId(s) \in Ids /\ FreshId(s)[1] = s
      BY <1>1, <2>2, NothingTaken DEF ConnectServer, Servers, ServInv
    <3>2. \A i \in Ids : i[1] \in Scoped /\ i \in db'.rows => i \in db.rows
      BY <3>1, ServersAssumption DEF Insert
    <3> QED BY <1>1, <3>2 DEF ConnectServer, Aside, Sane
  <2> QED BY <2>1, <2>2
<1>2. ASSUME ClearVault(r) PROVE Aside(r)
  <2>1. ASSUME NEW i \in Ids, Sane(i)' PROVE vault'[i] = vault[i]
    BY <1>2, <2>1 DEF ClearVault, Sane, EmptyVault
  <2> QED BY <1>2, <2>1 DEF ClearVault, Aside
<1>3. CASE \/ \E o \in offers, s \in Scoped : Commit(r, o, s)
           \/ \E i \in Ids : Reauthenticate(r, i) \/ Use(r, i) \/ Remove(r, i) \/ Update(r, i)
           \/ Logout(r)
  BY <1>3 DEF Commit, Reauthenticate, Use, Remove, Update, Logout, Aside, pastVars
<1>4. CASE (\E i \in Ids : SelectServer(r, i)) \/ Reselect(r) \/ Delete(r) \/ ClearRows(r)
  BY <1>4, <1>t DEF SelectServer, Reselect, SetSelected, Delete, ClearRows, Aside, ServTypeOK, pastVars
<1>5. CASE LoadVault(r) \/ SaveFails(r) \/ Portable(r) \/ Find(r) \/ Prior(r) \/ UpsertFails(r) \/ Failed(r)
           \/ Lock(r) \/ PublishProvider(r)
  BY <1>5 DEF LoadVault, SaveFails, Portable, Find, Prior, UpsertFails, Failed, Lock, PublishProvider, Aside, pastVars
<1>6. CASE LookUp(r) \/ Build(r) \/ BuildFails(r) \/ Enter(r) \/ Sync(r) \/ Reload(r) \/ Evict(r)
           \/ NextInLine(r) \/ ClearFails(r)
  BY <1>6 DEF LookUp, Build, BuildFails, Enter, Sync, Reload, Evict, NextInLine, ClearFails, Aside, pastVars
<1> QED BY <1>1, <1>2, <1>3, <1>4, <1>5, <1>6 DEF Start, Step

LEMMA VaultedBegins == ASSUME ServInv, NEW r \in Calls, Start(r) PROVE Vaulted'
<1>1. Aside(r)
  BY Starts, AsideOf DEF SaveVault, Upsert, CallAt
<1>2. Changing(call[r], call[r].id)' => Truthful(r, call[r])'
  BY Starts DEF Changing, Holder, Nameless, Truthful, TakesBack, Writing
<1> QED BY <1>1, <1>2, StartMoves, VaultedIf DEF Aside

LEMMA VaultedGoesOn == ASSUME ServInv, NEW r \in Calls, Step(r) PROVE Vaulted'
<1>t. /\ call \in [Calls -> Request] /\ call[r] \in Request /\ OnCourse(call[r])
      /\ vault \in [Ids -> Secrets] /\ r # NoSecret
  BY ServersAssumption DEF ServInv, Calling, ServTypeOK
<1>m. Moves(r)
  BY StepMoves
<1>v. Holder(call[r]) /\ ~Nameless(call[r]) /\ Sane(call[r].id) => Truthful(r, call[r])
  BY DEF ServInv, Vaulted
<1>k. Keeping(call[r]) => Holder(call[r])
  BY DEF Keeping
<1>a. ~SaveVault(r) /\ ~Upsert(r) => Aside(r)
  BY AsideOf
<1>o. ASSUME ~Holder(call'[r]) \/ call'[r].at = "find" PROVE ~Changing(call[r], call[r].id)'
  BY <1>o DEF Changing, Holder, Nameless
<1> USE DEF CallAt
<1>1. ASSUME SaveVault(r) PROVE Vaulted'
  <2>1. /\ call'[r].kind = call[r].kind /\ call'[r].id = call[r].id /\ call'[r].prior = call[r].prior
        /\ call'[r].secret = call[r].secret /\ call'[r].then = call[r].then
        /\ call'[r].at = call[r].then /\ call[r].at = "save"
        /\ UNCHANGED <<db, removed>> /\ lost \subseteq lost'
    BY <1>1, <1>t DEF SaveVault, Request
  <2>2. CASE Keeping(call[r])
    <3>1. ASSUME Changing(call[r], call[r].id)', Sane(call[r].id)' PROVE Truthful(r, call[r])'
      <4>1. Sane(call[r].id) /\ call[r].id \in Ids /\ vault'[call[r].id] = call[r].secret /\ ~Nameless(call[r])
        <5>1. Sane(Id(r))' /\ Id(r) \in Ids
          BY <3>1, <2>1 DEF Id, Sane
        <5>2. Sane(Id(r)) /\ vault'[Id(r)] = call[r].secret /\ ~Nameless(call[r])
          BY <1>1, <5>1, <2>1, SavedVault DEF Id
        <5> QED BY <5>1, <5>2 DEF Id
      <4>2. Truthful(r, call[r]) /\ Leads(call[r].kind, call[r].then) /\ call[r].then # "evict"
        BY <4>1, <2>1, <2>2, <1>v, <1>t, <1>k DEF OnCourse, Writing, Leads, Holder
      <4> QED BY <2>1, <4>1, <4>2, <2>2, <1>k DEF Truthful, TakesBack, Writing, Leads, Holder
    <3> QED BY <2>1, <2>2, <3>1, <1>m, VaultedIf
  <2>3. CASE ~Keeping(call[r])
    <3>1. \A i \in Ids : Sane(i)' => vault'[i] = vault[i]
      BY <1>1, <2>3, SavedVault
    <3>2. ~Holder(call'[r])
      BY <2>1, <2>3 DEF Keeping, Holder
    <3> QED BY <2>1, <3>1, <3>2, <1>m, <1>o, VaultedIf
  <2> QED BY <2>2, <2>3
<1>2. ASSUME Upsert(r) PROVE Vaulted'
  <2>1. /\ call'[r].kind = call[r].kind /\ call'[r].id = call[r].id /\ call'[r].at = "publish"
        /\ call[r].at = "upsert" /\ UNCHANGED <<vault, removed, lost>>
    BY <1>2, <1>t, GoesTo DEF Upsert, pastVars
  <2>2. Keeping(call[r]) /\ ~Nameless(call[r])
    BY <2>1, <1>t DEF OnCourse, Course, Keeping, Holder, Nameless
  <2>3. ASSUME Sane(call[r].id)' PROVE Truthful(r, call[r])'
    <3>1. Sane(call[r].id)
      BY <2>3, <2>1 DEF Sane
    <3>2. Truthful(r, call[r])
      BY <3>1, <2>2, <1>v, <1>k
    <3> QED BY <2>1, <3>2 DEF Truthful, TakesBack, Writing
  <2> QED BY <2>1, <2>2, <2>3, <1>m, VaultedIf
<1>3. ASSUME Finish(r), Aside(r) PROVE Vaulted'
  BY <1>3, <1>t, <1>m, <1>o, Finishes, VaultedIf DEF Aside, Holder
<1>4. ASSUME Aside(r), ~Holder(call[r]), call'[r].kind = call[r].kind PROVE Vaulted'
  BY <1>4, <1>m, <1>o, VaultedIf DEF Aside, Holder
<1>5. ASSUME LoadVault(r) PROVE Vaulted'
  <2>1. /\ call'[r].kind = call[r].kind /\ call'[r].id = call[r].id /\ call'[r].prior = call[r].prior
        /\ call'[r].secret = call[r].secret /\ call'[r].then = call[r].then
        /\ call'[r].at = "save" /\ call[r].at = "load" /\ UNCHANGED <<db, vault, removed, lost>>
    BY <1>5, <1>t DEF LoadVault, Request, pastVars
  <2>2. ASSUME Changing(call[r], call[r].id)', Sane(call[r].id)' PROVE Truthful(r, call[r])'
    <3>1. Sane(call[r].id) /\ Holder(call[r]) /\ ~Nameless(call[r])
      BY <2>1, <2>2 DEF Sane, Changing, Holder, Nameless
    <3> QED BY <2>1, <3>1, <1>v DEF Truthful, TakesBack, Writing
  <2> QED BY <2>1, <2>2, <1>m, VaultedIf
<1>6. ASSUME Prior(r) PROVE Vaulted'
  <2>1. /\ call'[r].kind = call[r].kind /\ call'[r].id = call[r].id /\ call'[r].prior = vault[call[r].id]
        /\ call'[r].secret = r /\ call'[r].then = "upsert" /\ call'[r].at = "load"
        /\ UNCHANGED <<db, vault, removed, lost>> /\ call[r].at = "prior"
    BY <1>6, <1>t DEF Prior, Request, pastVars, Id
  <2>2. ASSUME Sane(call[r].id)' PROVE Truthful(r, call[r])'
    <3>1. call[r].id \in db.rows => vault[call[r].id] # NoSecret
      BY <2>1, <2>2 DEF ServInv, RowsHaveSecrets, Standing, Sane
    <3> QED BY <2>1, <3>1 DEF Truthful, TakesBack, Writing
  <2> QED BY <2>1, <2>2, <1>m, VaultedIf
<1>7. ASSUME UpsertFails(r) PROVE Vaulted'
  <2>1. /\ call'[r].kind = call[r].kind /\ call'[r].id = call[r].id /\ call'[r].prior = call[r].prior
        /\ call'[r].secret = call[r].prior /\ call'[r].then = "failed" /\ call'[r].at = "load"
        /\ UNCHANGED <<db, vault, removed, lost>> /\ call[r].at = "upsert"
    BY <1>7, <1>t, Writes DEF UpsertFails, Compensate, pastVars
  <2>2. ASSUME Changing(call[r], call[r].id)', Sane(call[r].id)' PROVE Truthful(r, call[r])'
    <3>1. Sane(call[r].id) /\ Holder(call[r]) /\ ~Nameless(call[r])
      BY <2>1, <2>2 DEF Sane, Changing, Holder, Nameless
    <3> QED BY <2>1, <3>1, <1>v DEF Truthful, TakesBack, Writing
  <2> QED BY <2>1, <2>2, <1>m, VaultedIf
<1>8. ASSUME Lock(r) PROVE Vaulted'
  <2>1. /\ call'[r].kind = call[r].kind /\ call'[r].secret = r /\ call'[r].then = "publish" /\ call'[r].at = "load"
        /\ UNCHANGED <<db, vault, removed, lost>> /\ call[r].at = "lock"
    BY <1>8, <1>t, Writes DEF Lock, pastVars
  <2>2. Truthful(r, call[r])'
    BY <2>1, <1>t DEF Truthful, TakesBack, Writing, OnCourse, Course
  <2> QED BY <2>1, <2>2, <1>m, VaultedIf
<1>9. ASSUME Find(r) PROVE Vaulted'
  <2>1. call'[r].at = "prior" /\ UNCHANGED <<db, vault, removed, lost>>
    BY <1>9, <1>t DEF Find, Request
  <2>2. Truthful(r, call[r])'
    BY <2>1 DEF Truthful, TakesBack, Writing
  <2> QED BY <2>1, <2>2, <1>m, VaultedIf
<1>10. ASSUME SaveFails(r) PROVE Vaulted'
  <2>1. Aside(r)
    BY <1>10, <1>a DEF SaveFails, SaveVault, Upsert, Aside
  <2>2. CASE call[r].then = "evict"
    <3>1. ~Holder(call[r])
      BY <1>10, <2>2, <1>t DEF SaveFails, OnCourse, Leads, Writing, Holder
    <3>2. call'[r].kind = call[r].kind
      BY <1>10, <2>2, <1>t DEF SaveFails, Request
    <3> QED BY <2>1, <3>1, <3>2, <1>4
  <2>3. CASE call[r].then # "evict"
    BY <1>10, <2>3, <2>1, <1>3 DEF SaveFails, Fail
  <2> QED BY <2>2, <2>3
<1>11. ASSUME Failed(r) \/ PublishProvider(r) \/ BuildFails(r) \/ Enter(r) \/ ClearVault(r) \/ ClearFails(r)
       PROVE  Vaulted'
  <2>1. Finish(r) /\ call[r].at # "save" /\ call[r].at # "upsert"
    BY <1>11 DEF Failed, Fail, PublishProvider, BuildFails, Enter, ClearVault, ClearFails
  <2> QED BY <2>1, <1>a, <1>3 DEF SaveVault, Upsert
<1>12. ASSUME Portable(r) \/ LookUp(r) \/ Build(r) \/ Sync(r) \/ Reload(r) \/ Delete(r) \/ Evict(r)
              \/ NextInLine(r) \/ Reselect(r) \/ ClearRows(r)
       PROVE  Vaulted'
  <2>1. Aside(r)
    BY <1>12, <1>a DEF Portable, LookUp, Build, Sync, Reload, Delete, Evict, NextInLine, Reselect, ClearRows,
                       SaveVault, Upsert
  <2>2. ~Holder(call[r])
    BY <1>12, <1>t DEF Portable, LookUp, Build, Sync, Reload, Delete, Evict, NextInLine, Reselect, ClearRows,
                       OnCourse, Course, Holder
  <2>3. call'[r].kind = call[r].kind \/ Finish(r)
    <3>1. CASE NextInLine(r) /\ db.rows # {}
      <4>1. PICK i \in db.rows : call' = [call EXCEPT ![r].id = i, ![r].at = "reselect"]
        BY <3>1 DEF NextInLine
      <4> QED BY <4>1, <1>t DEF Request
    <3>2. CASE Build(r)
      BY <3>2, <1>t DEF Build, Request
    <3> QED BY <1>12, <3>1, <3>2, <1>t, GoesTo, Writes
            DEF Portable, LookUp, Sync, Reload, Delete, Evict, NextInLine, Reselect, ClearRows
  <2> QED BY <2>1, <2>2, <2>3, <1>3, <1>4
<1> QED BY <1>1, <1>2, <1>5, <1>6, <1>7, <1>8, <1>9, <1>10, <1>11, <1>12 DEF Step

(* Libraries that are configured have their secrets.                       *)
LEMMA SecretsKept == ASSUME ServInv, ServTypeOK', NEW r \in Calls, Start(r) \/ Step(r) PROVE RowsHaveSecrets'
<1>t. /\ call[r] \in Request /\ OnCourse(call[r]) /\ r # NoSecret
  BY ServersAssumption DEF ServInv, Calling
<1>v. Holder(call[r]) /\ ~Nameless(call[r]) /\ Sane(call[r].id) => Truthful(r, call[r])
  BY DEF ServInv, Vaulted
<1>s. ASSUME NEW i \in Standing'
      PROVE  i \in Ids /\ Sane(i)' /\ i \in db'.rows
  BY <1>s DEF Standing, Sane, ServTypeOK
<1>h. \A i \in Ids : Sane(i) /\ i \in db.rows => vault[i] # NoSecret
  BY DEF ServInv, RowsHaveSecrets, Standing, Sane
<1>1. CASE Aside(r)
  <2>1. ASSUME NEW i \in Standing' PROVE vault'[i] # NoSecret
    <3>1. i \in Ids /\ Sane(i)' /\ Sane(i) /\ i \in db'.rows
      BY <1>1, <1>s DEF Aside, Sane
    <3> QED BY <3>1, <1>1, <1>h DEF Aside
  <2> QED BY <2>1 DEF RowsHaveSecrets
<1>2. CASE SaveVault(r)
  <2>1. ASSUME NEW i \in Standing' PROVE vault'[i] # NoSecret
    <3>1. i \in Ids /\ Sane(i)' /\ i \in db.rows /\ call[r].at = "save"
      BY <1>2, <1>s DEF SaveVault, CallAt
    <3>2. Sane(i) /\ vault[i] # NoSecret
      BY <1>2, <3>1, <1>h, SavedVault
    <3>3. CASE vault'[i] = vault[i]
      BY <3>2, <3>3
    <3>4. CASE vault'[i] # vault[i]
      <4>1. i = Id(r) /\ vault'[i] = call[r].secret /\ Keeping(call[r]) /\ ~Nameless(call[r])
        BY <1>2, <3>1, <3>4, SavedVault
      <4>2. Truthful(r, call[r]) /\ Leads(call[r].kind, call[r].then) /\ Holder(call[r])
        BY <4>1, <3>1, <3>2, <1>v, <1>t DEF Id, Keeping, OnCourse, Writing
      <4> QED BY <4>1, <4>2, <3>1, <1>t DEF Truthful, TakesBack, Writing, Leads, Holder, Id
    <3> QED BY <3>3, <3>4
  <2> QED BY <2>1 DEF RowsHaveSecrets
<1>3. CASE Upsert(r)
  <2>1. ASSUME NEW i \in Standing' PROVE vault'[i] # NoSecret
    <3>1. i \in Ids /\ Sane(i) /\ vault' = vault /\ (i \in db.rows \/ i = Id(r)) /\ call[r].at = "upsert"
      BY <1>3, <1>s DEF Upsert, Insert, Sane, CallAt, pastVars
    <3>2. CASE i \in db.rows
      BY <3>1, <3>2, <1>h
    <3>3. CASE i = Id(r)
      <4>1. Holder(call[r]) /\ ~Nameless(call[r])
        BY <3>1, <1>t DEF OnCourse, Course, Holder, Nameless
      <4> QED BY <4>1, <3>1, <3>3, <1>v, <1>t DEF Id, Truthful
    <3> QED BY <3>1, <3>2, <3>3
  <2> QED BY <2>1 DEF RowsHaveSecrets
<1> QED BY <1>1, <1>2, <1>3, AsideOf

-----------------------------------------------------------------------------
(* The cached providers.  A step leaves a library alone: its secret, its   *)
(* provider and what is on trial.                                          *)
Leaves(r, i) ==
  /\ mgr'.providers[i] = mgr.providers[i]
  /\ OnTrial(call'[r], i) <=> OnTrial(call[r], i)
  /\ OnTrial(call[r], i) => call'[r].prior = call[r].prior
  /\ Renewing(call[r], i) => Renewing(call'[r], i)
  /\ call'[r].at = "enter" /\ call'[r].id = i => call'[r].secret = vault[i]

LEMMA LeftTrusted ==
  ASSUME ServInv, NEW r \in Calls, Moves(r), NEW i \in Ids, Sane(i), vault'[i] = vault[i],
         \A q \in Calls : ~Renewing(call'[q], i), Leaves(r, i)
  PROVE  Trusted(i)'
<1>1. \A q \in Calls : ~Renewing(call[q], i)
  BY DEF Moves, Leaves
<1>2. Trusted(i)
  BY <1>1 DEF ServInv, Cached
<1>3. \A q \in Calls : /\ OnTrial(call'[q], i) <=> OnTrial(call[q], i)
                       /\ OnTrial(call[q], i) => call'[q].prior = call[q].prior
  BY DEF Moves, Leaves
<1>4. ASSUME NEW q \in Calls, call'[q].at = "enter", call'[q].id = i
      PROVE  \/ call'[q].secret = vault'[i] \/ mgr'.providers[i] # NoSecret
             \/ \E p \in Calls : OnTrial(call'[p], i) /\ call'[q].secret = call'[p].prior
  <2>1. CASE q = r
    BY <1>4, <2>1 DEF Leaves
  <2>2. CASE q # r
    <3>1. call'[q] = call[q]
      BY <2>2 DEF Moves
    <3> QED BY <1>2, <1>3, <1>4, <3>1 DEF Trusted, Leaves
  <2> QED BY <2>1, <2>2
<1>5. \A q \in Calls : OnTrial(call'[q], i) => mgr'.providers[i] \in {NoSecret, call'[q].prior}
  BY <1>2, <1>3 DEF Trusted, Leaves
<1>6. (\A q \in Calls : ~OnTrial(call'[q], i)) => mgr'.providers[i] \in {NoSecret, vault'[i]}
  BY <1>2, <1>3 DEF Trusted, Leaves
<1>7. \A q \in Calls : OnTrial(call[q], i)' <=> OnTrial(call'[q], i)
  BY DEF OnTrial, Changing, Holder, Nameless, TakesBack, Writing
<1> QED BY <1>4, <1>5, <1>6, <1>7 DEF Trusted

LEMMA CachedIf ==
  ASSUME ServInv, NEW r \in Calls, Moves(r), Aside(r), \A i \in Ids : Sane(i)' => Leaves(r, i)
  PROVE  Cached'
<1>1. ASSUME NEW i \in Ids, Sane(i)', \A q \in Calls : ~Renewing(call'[q], i)
      PROVE  Trusted(i)'
  <2>1. Sane(i) /\ vault'[i] = vault[i] /\ Leaves(r, i)
    BY <1>1 DEF Aside, Sane
  <2> QED BY <1>1, <2>1, LeftTrusted
<1>2. \A q \in Calls, i \in Ids : Renewing(call[q], i)' <=> Renewing(call'[q], i)
  BY DEF Renewing, Changing, Holder, Nameless
<1> QED BY <1>1, <1>2 DEF Cached

LEMMA CachedBegins == ASSUME ServInv, NEW r \in Calls, Start(r) PROVE Cached'
<1>1. Aside(r)
  BY Starts, AsideOf DEF SaveVault, Upsert, CallAt
<1>2. /\ call'[r].at \notin {"enter", "upsert", "publish", "load", "save"}
      /\ call[r].at \notin {"upsert", "publish", "load", "save"}
  BY Starts
<1>3. \A i \in Ids : ~OnTrial(call[r], i) /\ ~OnTrial(call'[r], i) /\ ~Renewing(call[r], i)
  BY <1>2 DEF OnTrial, TakesBack, Writing, Renewing
<1>7. CASE UNCHANGED mgr
  BY <1>1, <1>2, <1>3, <1>7, StartMoves, CachedIf DEF Leaves
<1>8. CASE Logout(r)
  <2>1. ASSUME NEW i \in Ids, Sane(i)' PROVE Trusted(i)'
    <3>1. mgr'.providers[i] = NoSecret /\ vault' = vault
      BY <1>8 DEF Logout, EmptyVault
    <3>2. ASSUME NEW q \in Calls, call'[q].at = "enter", call'[q].id = i
          PROVE  call'[q].secret = vault'[i]
      <4>1. call'[q] = call[q]
        BY <1>2, <3>2, StartMoves DEF Moves
      <4>2. CASE call[q].secret # vault[i]
        <5>1. i \in {Id(p) : p \in {p \in Calls : CallAt(p, "enter") /\ call[p].secret # vault[Id(p)]}}
          BY <3>2, <4>1, <4>2 DEF Id, CallAt
        <5>2. i \in lost'
          BY <1>8, <5>1 DEF Logout
        <5> QED BY <2>1, <5>2 DEF Sane
      <4> QED BY <3>1, <4>1, <4>2
    <3> QED BY <3>1, <3>2 DEF Trusted
  <2> QED BY <2>1 DEF Cached
<1> QED BY <1>7, <1>8 DEF Start, ConnectServer, Commit, Reauthenticate, Use, SelectServer, Remove, Update

(* A holder is alone; nobody enters a provider while there is one.         *)
LEMMA Alone ==
  ASSUME ServInv, NEW r \in Calls, Keeping(call[r]), NEW q \in Calls, q # r
  PROVE  \A i \in Ids : ~OnTrial(call[q], i) /\ ~Renewing(call[q], i)
<1>1. ~Keeping(call[q])
  BY DEF ServInv, Kept
<1> QED BY <1>1 DEF OnTrial, Renewing, Changing, Nameless, Keeping, TakesBack, Writing

LEMMA CachedGoesOn == ASSUME ServInv, NEW r \in Calls, Step(r) PROVE Cached'
<1>t. /\ call \in [Calls -> Request] /\ call[r] \in Request /\ OnCourse(call[r])
      /\ vault \in [Ids -> Secrets] /\ r # NoSecret
      /\ mgr \in [rows : SUBSET Ids, chosen : SUBSET Ids, providers : [Ids -> Secrets]]
  BY ServersAssumption DEF ServInv, Calling, ServTypeOK
<1>m. Moves(r)
  BY StepMoves
<1>v. Holder(call[r]) /\ ~Nameless(call[r]) /\ Sane(call[r].id) => Truthful(r, call[r])
  BY DEF ServInv, Vaulted
<1>a. ~SaveVault(r) /\ ~Upsert(r) => Aside(r)
  BY AsideOf
<1>p. ASSUME NEW i \in Ids PROVE /\ \A q \in Calls : OnTrial(call[q], i)' <=> OnTrial(call'[q], i)
                                 /\ \A q \in Calls : Renewing(call[q], i)' <=> Renewing(call'[q], i)
  BY DEF OnTrial, Renewing, Changing, Holder, Nameless, TakesBack, Writing
<1>n. ASSUME ~Holder(call[r]), ~Holder(call'[r])
      PROVE  \A i \in Ids : /\ ~OnTrial(call[r], i) /\ ~OnTrial(call'[r], i)
                            /\ ~Renewing(call[r], i) /\ ~Renewing(call'[r], i)
  BY <1>n DEF OnTrial, Renewing, Changing
<1> USE DEF CallAt
<1>1. ASSUME SaveVault(r) PROVE Cached'
  <2>1. /\ call'[r].kind = call[r].kind /\ call'[r].id = call[r].id /\ call'[r].prior = call[r].prior
        /\ call'[r].at = call[r].then /\ call[r].at = "save" /\ Leads(call[r].kind, call[r].then)
        /\ UNCHANGED <<db, removed, mgr>> /\ lost \subseteq lost'
    BY <1>1, <1>t DEF SaveVault, Request, OnCourse, Writing
  <2>2. ASSUME NEW i \in Ids, Sane(i)', \A q \in Calls : ~Renewing(call'[q], i), i # Id(r)
        PROVE  Trusted(i)'
    <3>1. Sane(i) /\ vault'[i] = vault[i]
      BY <1>1, <2>2, SavedVault
    <3>2. Leaves(r, i)
      BY <2>1, <2>2 DEF OnTrial, Renewing, Changing, Id, Leads, Leaves
    <3> QED BY <2>2, <3>1, <3>2, <1>m, LeftTrusted
  <2>3. ASSUME NEW i \in Ids, Sane(i)', \A q \in Calls : ~Renewing(call'[q], i), i = Id(r)
        PROVE  Trusted(i)'
    <3>1. Sane(i) /\ vault'[i] = call[r].secret /\ Keeping(call[r]) /\ ~Nameless(call[r]) /\ call[r].id = i
      BY <1>1, <2>3, SavedVault DEF Id
    <3>2. Truthful(r, call[r])
      BY <3>1, <1>v DEF Keeping
    <3>3. call'[r].at # "publish" /\ call[r].then \in {"upsert", "failed"} /\ call[r].kind = "commit"
      <4>1. Changing(call'[r], i)
        BY <2>1, <3>1 DEF Changing, Holder, Nameless, Keeping, Leads
      <4>2. ~Renewing(call'[r], i)
        BY <2>3
      <4> QED BY <2>1, <3>1, <4>1, <4>2 DEF Renewing, Leads, Keeping, Holder
    <3>4. \A q \in Calls \ {r} : call'[q] = call[q] /\ ~OnTrial(call'[q], i) /\ ~OnTrial(call[q], i) /\ ~Renewing(call[q], i)
      BY <3>1, <1>m, Alone DEF Moves
    <3>5. Trusted(i)
      BY <2>1, <3>1, <3>4 DEF ServInv, Cached, Renewing
    <3>6. CASE call[r].then = "upsert"
      <4>1. ~OnTrial(call[r], i) /\ OnTrial(call'[r], i) /\ vault[i] = call[r].prior
        BY <2>1, <3>1, <3>2, <3>3, <3>6 DEF OnTrial, Changing, Holder, Nameless, TakesBack, Writing, Truthful
      <4>2. mgr.providers[i] \in {NoSecret, call[r].prior}
        BY <3>4, <3>5, <4>1 DEF Trusted
      <4>3. ASSUME NEW q \in Calls, call'[q].at = "enter", call'[q].id = i
            PROVE  \/ mgr'.providers[i] # NoSecret
                   \/ \E p \in Calls : OnTrial(call'[p], i) /\ call'[q].secret = call'[p].prior
        <5>1. q # r /\ call'[q] = call[q]
          BY <2>1, <3>4, <3>6, <4>3
        <5>2. call[q].secret = vault[i] \/ mgr.providers[i] # NoSecret
          BY <3>4, <3>5, <4>1, <4>3, <5>1 DEF Trusted
        <5> QED BY <2>1, <4>1, <5>1, <5>2
      <4>4. \A q \in Calls : OnTrial(call'[q], i) => mgr'.providers[i] \in {NoSecret, call'[q].prior}
        BY <2>1, <3>4, <4>1, <4>2
      <4> QED BY <1>p, <4>1, <4>3, <4>4 DEF Trusted
    <3>7. CASE call[r].then = "failed"
      <4>1. OnTrial(call[r], i) /\ ~OnTrial(call'[r], i) /\ vault'[i] = call[r].prior
        BY <2>1, <3>1, <3>2, <3>3, <3>7 DEF OnTrial, Changing, Holder, Nameless, TakesBack, Writing, Truthful
      <4>2. mgr'.providers[i] \in {NoSecret, vault'[i]}
        BY <2>1, <3>5, <4>1 DEF Trusted
      <4>3. ASSUME NEW q \in Calls, call'[q].at = "enter", call'[q].id = i
            PROVE  call'[q].secret = vault'[i]
        <5>1. q # r /\ call'[q] = call[q]
          BY <2>1, <3>4, <3>7, <4>3
        <5>2. CASE call[q].secret # call[r].secret
          <6>1. Outdated(r)
            BY <2>3, <3>7, <4>3, <5>1, <5>2 DEF Outdated, Id
          <6>2. i \in lost'
            BY <1>1, <2>3, <6>1 DEF SaveVault
          <6> QED BY <2>3, <6>2 DEF Sane
        <5> QED BY <3>1, <5>1, <5>2
      <4> QED BY <1>p, <3>4, <4>1, <4>2, <4>3 DEF Trusted
    <3> QED BY <3>3, <3>6, <3>7
  <2> QED BY <1>p, <2>2, <2>3 DEF Cached
<1>2. ASSUME Upsert(r) PROVE Cached'
  <2>1. /\ call'[r].kind = call[r].kind /\ call'[r].id = call[r].id /\ call'[r].at = "publish"
        /\ call[r].at = "upsert" /\ UNCHANGED <<vault, removed, lost, mgr>>
    BY <1>2, <1>t, GoesTo DEF Upsert, pastVars
  <2>2. ASSUME NEW i \in Ids, Sane(i)', \A q \in Calls : ~Renewing(call'[q], i) PROVE Trusted(i)'
    <3>1. Sane(i) /\ i # call[r].id
      BY <2>1, <2>2, <1>t DEF Sane, Renewing, Changing, Holder, Nameless, OnCourse, Course
    <3>2. Leaves(r, i)
      BY <2>1, <3>1 DEF OnTrial, Changing, Renewing, Leaves
    <3> QED BY <2>1, <2>2, <3>1, <3>2, <1>m, LeftTrusted
  <2> QED BY <1>p, <2>2 DEF Cached
<1>3. ASSUME PublishProvider(r) PROVE Cached'
  <2>1. /\ Finish(r) /\ call[r].at = "publish" /\ UNCHANGED <<vault, removed, lost>> /\ Aside(r)
        /\ mgr'.providers = [mgr.providers EXCEPT ![call[r].id] = r]
        /\ call'[r].at = "done" /\ call'[r].kind = "none"
    BY <1>3, <1>t, <1>a, Finishes DEF PublishProvider, Loaded, Id, pastVars, SaveVault, Upsert
  <2>2. ASSUME NEW i \in Ids, Sane(i)', \A q \in Calls : ~Renewing(call'[q], i), i # call[r].id
        PROVE  Trusted(i)'
    <3>1. Leaves(r, i)
      BY <2>1, <2>2, <1>t DEF OnTrial, Changing, Renewing, Leaves, Holder
    <3>2. Sane(i) /\ vault'[i] = vault[i]
      BY <2>1, <2>2 DEF Sane
    <3> QED BY <2>2, <3>1, <3>2, <1>m, LeftTrusted
  <2>3. ASSUME NEW i \in Ids, Sane(i)', i = call[r].id PROVE Trusted(i)'
    <3>1. Sane(i) /\ i[1] \notin Plain
      BY <2>1, <2>3, ServersAssumption DEF Sane
    <3>2. Holder(call[r]) /\ ~Nameless(call[r]) /\ Keeping(call[r])
      BY <2>1, <2>3, <3>1, <1>t DEF OnCourse, Course, Holder, Nameless, Keeping
    <3>3. vault'[i] = r /\ mgr'.providers[i] = r
      BY <2>1, <2>3, <3>1, <3>2, <1>v, <1>t DEF Truthful
    <3>4. \A q \in Calls : ~OnTrial(call'[q], i)
      BY <2>1, <3>2, <1>m, Alone DEF Moves, OnTrial, Changing, Holder
    <3> QED BY <3>3, <3>4, <1>p, <1>t DEF Trusted
  <2> QED BY <1>p, <2>2, <2>3 DEF Cached
<1>4. ASSUME Enter(r) PROVE Cached'
  <2>1. /\ Finish(r) /\ call[r].at = "enter" /\ UNCHANGED <<vault, removed, lost>> /\ Aside(r)
        /\ mgr'.providers = Entered(mgr.providers, call[r].id, call[r].secret)
        /\ call'[r].at = "done" /\ call'[r].kind = "none" /\ keeper \in {NoKeeper, r}
    BY <1>4, <1>t, <1>a, Finishes DEF Enter, Unkept, Id, pastVars, SaveVault, Upsert
  <2>2. ~Holder(call[r]) /\ call[r].secret # NoSecret
    BY <2>1, <1>t DEF OnCourse, Course, Holder
  <2>3. \A q \in Calls : ~Keeping(call[q])
    BY <2>1, <2>2, ServersAssumption DEF ServInv, Kept, Keeping
  <2>4. \A q \in Calls, i \in Ids : ~OnTrial(call[q], i) /\ ~Renewing(call[q], i) /\ ~OnTrial(call'[q], i)
    BY <2>1, <2>3, <1>m DEF OnTrial, Renewing, Changing, Keeping, Nameless, TakesBack, Writing, Moves, Holder
  <2>5. ASSUME NEW i \in Ids, Sane(i)' PROVE Trusted(i)'
    <3>1. Sane(i) /\ Trusted(i)
      BY <2>1, <2>4, <2>5 DEF ServInv, Cached, Sane
    <3>2. mgr'.providers[i] = IF i = call[r].id /\ mgr.providers[i] = NoSecret THEN call[r].secret
                              ELSE mgr.providers[i]
      BY <2>1, <1>t DEF Entered
    <3>3. mgr'.providers[i] \in {NoSecret, vault[i]}
      BY <2>1, <2>4, <3>1, <3>2 DEF Trusted
    <3>4. ASSUME NEW q \in Calls, call'[q].at = "enter", call'[q].id = i
          PROVE  call'[q].secret = vault[i] \/ mgr'.providers[i] # NoSecret
      <4>1. q # r /\ call'[q] = call[q]
        BY <2>1, <3>4, <1>m DEF Moves
      <4> QED BY <2>2, <2>4, <3>1, <3>2, <3>4, <4>1 DEF Trusted
    <3> QED BY <2>1, <2>4, <3>3, <3>4, <1>p DEF Trusted
  <2> QED BY <2>5 DEF Cached
<1>5. ASSUME Evict(r) PROVE Cached'
  <2>1. ~Holder(call[r]) /\ call'[r].kind = call[r].kind /\ call'[r].at # "enter" /\ Aside(r)
        /\ call[r].id \in removed /\ removed' = removed
    BY <1>5, <1>t, <1>a, GoesTo DEF Evict, OnCourse, Course, Holder, SaveVault, Upsert, pastVars
  <2>2. \A i \in Ids : Sane(i)' => mgr'.providers[i] = mgr.providers[i]
    BY <1>5, <2>1, <1>t DEF Evict, Sane, Id
  <2> QED BY <2>1, <2>2, <1>m, <1>n, CachedIf DEF Holder, Leaves
<1>6. ASSUME mgr'.providers = mgr.providers, Aside(r), ~Holder(call[r]), ~Holder(call'[r]),
             call'[r].at = "enter" => call'[r].secret = vault[call'[r].id]
      PROVE  Cached'
  BY <1>6, <1>m, <1>n, CachedIf DEF Leaves
<1>7. ASSUME LoadVault(r) \/ UpsertFails(r) PROVE Cached'
  <2>1. /\ call'[r].kind = call[r].kind /\ call'[r].id = call[r].id /\ call'[r].prior = call[r].prior
        /\ call'[r].at \in {"load", "save"} /\ call[r].at # "publish" /\ mgr' = mgr
    BY <1>7, <1>t, Writes DEF LoadVault, UpsertFails, Compensate, Request, pastVars
  <2>2. Aside(r)
    BY <1>7 DEF LoadVault, UpsertFails, Aside, pastVars
  <2>3. /\ call[r].at = "upsert" \/ TakesBack(call[r]) <=> TakesBack(call'[r])
        /\ call[r].at # "find" /\ call'[r].at # "upsert"
    BY <1>7, <1>t, Writes DEF LoadVault, UpsertFails, Compensate, TakesBack, Writing, Request
  <2>4. \A i \in Ids : OnTrial(call'[r], i) <=> OnTrial(call[r], i)
    BY <2>1, <2>3 DEF OnTrial, Changing, Holder, Nameless
  <2> QED BY <2>1, <2>2, <2>4, <1>m, CachedIf DEF Leaves, Renewing
<1>8. ASSUME mgr' = mgr, Aside(r), ~TakesBack(call[r]), ~TakesBack(call'[r]),
             call[r].at \notin {"upsert", "publish"}, call'[r].at \notin {"upsert", "enter"}
      PROVE  Cached'
  BY <1>8, <1>m, CachedIf DEF Leaves, OnTrial, Renewing
<1>9. ASSUME Find(r) \/ Prior(r) \/ Failed(r) \/ Lock(r) PROVE Cached'
  <2>1. mgr' = mgr /\ ~TakesBack(call[r]) /\ call[r].at \notin {"upsert", "publish", "save"}
    BY <1>9 DEF Find, Prior, Failed, Lock, TakesBack, Writing, pastVars
  <2>2. ~TakesBack(call'[r]) /\ call'[r].at \notin {"upsert", "enter"}
    BY <1>9, <1>t, Finishes, Writes DEF Find, Prior, Failed, Fail, Lock, TakesBack, Writing, Request
  <2> QED BY <2>1, <2>2, <1>8, <1>a DEF SaveVault, Upsert
<1>10. ASSUME SaveFails(r) PROVE Cached'
  <2>1. /\ Aside(r) /\ mgr' = mgr /\ call[r].at = "save" /\ removed' = removed
        /\ TakesBack(call[r]) => call[r].id \in lost'
    BY <1>10, <1>a DEF SaveFails, SaveVault, Upsert, Aside, TakesBack, Id
  <2>2. call'[r].at \in {"evict", "done"}
    BY <1>10, <1>t, Finishes DEF SaveFails, Fail, Request
  <2>3. \A i \in Ids : Sane(i)' => ~OnTrial(call[r], i) /\ ~OnTrial(call'[r], i) /\ ~Renewing(call[r], i)
    BY <2>1, <2>2 DEF OnTrial, Changing, Renewing, Sane, TakesBack, Writing
  <2> QED BY <2>1, <2>2, <2>3, <1>m, CachedIf DEF Leaves
<1>11. ASSUME \/ Portable(r) \/ LookUp(r) \/ Build(r) \/ BuildFails(r) \/ Sync(r) \/ Reload(r) \/ Delete(r)
              \/ NextInLine(r) \/ Reselect(r) \/ ClearRows(r) \/ ClearVault(r) \/ ClearFails(r)
       PROVE  Cached'
  <2>1. Aside(r)
    BY <1>11, <1>a
       DEF Portable, LookUp, Build, BuildFails, Sync, Reload, Delete, NextInLine, Reselect, ClearRows,
           ClearVault, ClearFails, SaveVault, Upsert
  <2>2. ~Holder(call[r])
    BY <1>11, <1>t
       DEF Portable, LookUp, Build, BuildFails, Sync, Reload, Delete, NextInLine, Reselect, ClearRows,
           ClearVault, ClearFails, OnCourse, Course, Holder
  <2>3. mgr'.providers = mgr.providers
    BY <1>11
       DEF Portable, LookUp, Build, BuildFails, Sync, Reload, Loaded, Delete, NextInLine, Reselect, ClearRows,
           ClearVault, ClearFails, pastVars
  <2>4. CASE Finish(r)
    BY <2>1, <2>2, <2>3, <2>4, <1>6, <1>t, Finishes DEF Holder
  <2>5. CASE Build(r) /\ ~Finish(r)
    <3>1. call'[r].kind = call[r].kind /\ call'[r].id = call[r].id /\ call'[r].secret = vault[call[r].id]
      BY <2>5, <1>t DEF Build, Request, Id
    <3> QED BY <2>1, <2>2, <2>3, <3>1, <1>6 DEF Holder
  <2>6. CASE NextInLine(r) /\ db.rows # {}
    <3>1. PICK i \in db.rows : call' = [call EXCEPT ![r].id = i, ![r].at = "reselect"]
      BY <2>6 DEF NextInLine
    <3>2. call'[r].kind = call[r].kind /\ call'[r].at = "reselect"
      BY <3>1, <1>t DEF Request
    <3> QED BY <2>1, <2>2, <2>3, <3>2, <1>6 DEF Holder
  <2>7. ASSUME NEW label, CallTo(r, label), label # "enter" PROVE Cached'
    BY <2>1, <2>2, <2>3, <2>7, <1>6, <1>t, GoesTo DEF Holder
  <2>8. ASSUME NEW secret, NEW then, Write(r, secret, then) PROVE Cached'
    BY <2>1, <2>2, <2>3, <2>8, <1>6, <1>t, Writes DEF Holder
  <2> QED BY <1>11, <2>4, <2>5, <2>6, <2>7, <2>8
          DEF Portable, LookUp, BuildFails, Sync, Reload, Delete, NextInLine, Reselect, ClearRows,
              ClearVault, ClearFails
<1> QED BY <1>1, <1>2, <1>3, <1>4, <1>5, <1>7, <1>9, <1>10, <1>11 DEF Step

-----------------------------------------------------------------------------
(* What the manager shows: who changes the rows loads them, or says that   *)
(* the manager has missed it.                                              *)
LEMMA AgreeingIf ==
  ASSUME ServInv, NEW r \in Calls, Moves(r),
         \/ Matches' \/ stale' \/ Pending(call'[r])
         \/ /\ mgr'.rows = mgr.rows /\ mgr'.chosen = mgr.chosen /\ db' = db /\ (stale => stale')
            /\ ~Pending(call[r])
  PROVE  Agreeing'
<1>1. \A q \in Calls : Pending(call[q])' <=> Pending(call'[q])
  BY DEF Pending, Building
<1>2. CASE Matches' \/ stale' \/ Pending(call'[r])
  BY <1>1, <1>2 DEF Agreeing
<1>3. CASE /\ mgr'.rows = mgr.rows /\ mgr'.chosen = mgr.chosen /\ db' = db /\ (stale => stale')
           /\ ~Pending(call[r])
  <2>1. Matches \/ stale \/ \E q \in Calls \ {r} : Pending(call[q])
    BY <1>3 DEF ServInv, Agreeing
  <2>2. CASE Matches \/ stale
    BY <1>3, <2>2 DEF Agreeing, Matches
  <2>3. CASE \E q \in Calls \ {r} : Pending(call[q])
    BY <1>1, <2>3 DEF Agreeing, Moves
  <2> QED BY <2>1, <2>2, <2>3
<1> QED BY <1>2, <1>3

LEMMA AgreeingBegins == ASSUME ServInv, NEW r \in Calls, Start(r) PROVE Agreeing'
<1>t. call \in [Calls -> Request] /\ call[r] \in Request
  BY DEF ServInv, Calling
<1>a. ASSUME NEW kind, NEW id, NEW label, Accept(r, kind, id, label)
      PROVE  call'[r].kind = kind /\ call'[r].at = label
  BY <1>a, <1>t DEF Accept, Request
<1>p. ~Pending(call[r])
  BY DEF ServInv, Calling, OnCourse, Course, Pending, Start, ConnectServer, Commit, Reauthenticate, Use, SelectServer,
         Remove, Update, Logout, Accept, CallAt
<1>1. CASE (\E s \in Plain : ConnectServer(r, s)) \/ Logout(r)
  BY <1>1, <1>a, StartMoves, AgreeingIf DEF ConnectServer, Logout, Pending
<1>2. CASE \E i \in Ids : SelectServer(r, i)
  BY <1>2, <1>a, StartMoves, AgreeingIf DEF SelectServer, Pending, Building
<1>3. CASE \/ \E o \in offers, s \in Scoped : Commit(r, o, s)
           \/ \E i \in Ids : Reauthenticate(r, i) \/ Use(r, i) \/ Remove(r, i) \/ Update(r, i)
  <2>1. mgr' = mgr /\ db' = db /\ stale' = stale
    BY <1>3 DEF Commit, Reauthenticate, Use, Remove, Update
  <2> QED BY <2>1, <1>p, StartMoves, AgreeingIf
<1> QED BY <1>1, <1>2, <1>3 DEF Start

LEMMA AgreeingGoesOn == ASSUME ServInv, NEW r \in Calls, Step(r) PROVE Agreeing'
<1>t. /\ call \in [Calls -> Request] /\ call[r] \in Request /\ OnCourse(call[r])
      /\ mgr \in [rows : SUBSET Ids, chosen : SUBSET Ids, providers : [Ids -> Secrets]]
      /\ mgr.chosen \subseteq mgr.rows
  BY DEF ServInv, Calling, ServTypeOK
<1>m. Moves(r)
  BY StepMoves
<1> USE DEF CallAt
<1>q. ASSUME mgr'.rows = mgr.rows, mgr'.chosen = mgr.chosen, db' = db, stale => stale',
             Pending(call[r]) => stale' \/ Pending(call'[r])
      PROVE  Agreeing'
  BY <1>q, <1>m, AgreeingIf
<1>1. ASSUME LoadVault(r) \/ SaveVault(r) PROVE Agreeing'
  <2>1. call'[r].kind = call[r].kind /\ call[r].at \in {"load", "save"} /\ Leads(call[r].kind, call[r].then)
        /\ call'[r].at \in {"save", call[r].then}
    BY <1>1, <1>t DEF LoadVault, SaveVault, Request, OnCourse, Writing
  <2>2. Pending(call[r]) => Pending(call'[r])
    BY <2>1 DEF Pending, Building, Leads
  <2> QED BY <1>1, <2>2, <1>q DEF LoadVault, SaveVault
<1>2. ASSUME SaveFails(r) PROVE Agreeing'
  <2>1. CASE call[r].then = "evict"
    <3>1. call'[r].kind = call[r].kind /\ call'[r].at = "evict" /\ call[r].at = "save"
      BY <1>2, <2>1, <1>t DEF SaveFails, Request
    <3>2. Pending(call[r]) => Pending(call'[r])
      BY <3>1, <1>t, <2>1 DEF Pending, Building, OnCourse, Writing, Leads
    <3> QED BY <1>2, <2>1, <3>2, <1>q DEF SaveFails
  <2>2. CASE call[r].then # "evict"
    <3>1. stale' = (stale \/ call[r].kind \in {"connect", "select", "remove"}) /\ call[r].at = "save"
      BY <1>2, <2>2 DEF SaveFails
    <3>2. Pending(call[r]) => stale'
      BY <3>1 DEF Pending
    <3> QED BY <1>2, <3>1, <3>2, <1>q DEF SaveFails
  <2> QED BY <2>1, <2>2
<1>3. ASSUME Portable(r) PROVE Agreeing'
  <2>1. call'[r].kind = "connect" \/ stale'
    BY <1>3, <1>t, Writes DEF Portable, OnCourse, Course
  <2> QED BY <2>1, <1>m, AgreeingIf DEF Pending
<1>4. ASSUME Find(r) \/ Prior(r) \/ UpsertFails(r) \/ Failed(r) \/ Lock(r) PROVE Agreeing'
  <2>1. ~Pending(call[r])
    BY <1>4, <1>t DEF Find, Prior, UpsertFails, Failed, Lock, OnCourse, Course, Pending
  <2> QED BY <1>4, <2>1, <1>q DEF Find, Prior, UpsertFails, Failed, Lock
<1>5. ASSUME Upsert(r) PROVE Agreeing'
  <2>1. call'[r].kind = "commit" /\ call'[r].at = "publish"
    BY <1>5, <1>t, GoesTo DEF Upsert, OnCourse, Course
  <2> QED BY <2>1, <1>m, AgreeingIf DEF Pending
<1>6. ASSUME PublishProvider(r) \/ Reload(r) PROVE Agreeing'
  <2>1. CASE \E providers : mgr' = Loaded(providers)
    BY <1>6, <2>1, <1>m, AgreeingIf DEF PublishProvider, Reload, Loaded, Matches
  <2>2. CASE PublishProvider(r) /\ call[r].kind = "reauth"
    <3>1. ~Pending(call[r])
      BY <2>2 DEF PublishProvider, Pending
    <3> QED BY <2>2, <3>1, <1>t, <1>q DEF PublishProvider
  <2> QED BY <1>6, <2>1, <2>2 DEF PublishProvider, Reload
<1>7. ASSUME LookUp(r) \/ Build(r) \/ BuildFails(r) \/ Enter(r) PROVE Agreeing'
  <2>1. ~Pending(call[r])
    BY <1>7, <1>t DEF LookUp, Build, BuildFails, Enter, OnCourse, Course, Pending, Building
  <2> QED BY <1>7, <2>1, <1>t, <1>q DEF LookUp, Build, BuildFails, Enter
<1>8. ASSUME Sync(r) \/ Evict(r) \/ NextInLine(r) \/ Delete(r) \/ Reselect(r) PROVE Agreeing'
  <2>1. call[r].kind \in {"select", "remove"}
    BY <1>8, <1>t DEF Sync, Evict, NextInLine, Delete, Reselect, OnCourse, Course
  <2>2. CASE Delete(r) /\ Id(r) \notin db.rows
    <3>1. ~Pending(call[r])
      BY <2>1, <2>2 DEF Delete, Pending
    <3> QED BY <2>2, <3>1, <1>q DEF Delete
  <2>3. CASE NextInLine(r) /\ db.rows # {}
    <3>1. PICK i \in db.rows : call' = [call EXCEPT ![r].id = i, ![r].at = "reselect"]
      BY <2>3 DEF NextInLine
    <3>2. call'[r].kind = call[r].kind /\ call'[r].at = "reselect"
      BY <3>1, <1>t DEF Request
    <3> QED BY <2>1, <3>2, <1>m, AgreeingIf DEF Pending, Building
  <2>4. CASE Reselect(r) /\ Id(r) \notin db.rows
    BY <2>4, <1>m, AgreeingIf DEF Reselect
  <2>5. ASSUME NEW label \in {"reload", "next", "sync"}, CallTo(r, label) PROVE Agreeing'
    BY <2>1, <2>5, <1>t, <1>m, GoesTo, AgreeingIf DEF Pending, Building
  <2>6. ASSUME NEW secret, NEW then, Write(r, secret, then) PROVE Agreeing'
    BY <2>1, <2>6, <1>t, <1>m, Writes, AgreeingIf DEF Pending, Building
  <2>7. CASE Evict(r)
    BY <2>5, <2>7 DEF Evict
  <2> QED BY <1>8, <2>2, <2>3, <2>4, <2>5, <2>6, <2>7 DEF Sync, NextInLine, Delete, Reselect
<1>9. ASSUME ClearRows(r) PROVE Agreeing'
  <2>1. CASE mgr.rows # {}
    BY <1>9, <2>1, <1>m, AgreeingIf DEF ClearRows
  <2>2. CASE mgr.rows = {}
    BY <1>9, <2>2, <1>t, <1>m, AgreeingIf DEF ClearRows, Matches
  <2> QED BY <2>1, <2>2
<1>10. ASSUME ClearVault(r) \/ ClearFails(r) PROVE Agreeing'
  <2>1. Pending(call[r]) => stale'
    BY <1>10, <1>t DEF ClearVault, ClearFails, Pending, OnCourse, Course
  <2>2. mgr' = mgr /\ db' = db /\ (stale => stale')
    BY <1>10 DEF ClearVault, ClearFails, ServInv, ServTypeOK
  <2> QED BY <2>1, <2>2, <1>q
<1> QED BY <1>1, <1>2, <1>3, <1>4, <1>5, <1>6, <1>7, <1>8, <1>9, <1>10 DEF Step

-----------------------------------------------------------------------------
(* The secrets of servers that are gone.                                   *)
LEMMA ErasedIf ==
  ASSUME ServInv, NEW r \in Calls, Moves(r),
         mishaps' = 0 => mishaps = 0, lost \subseteq lost', removed' = removed, vault' = vault,
         \A i \in Ids : Erasing(call[r], i) => Erasing(call'[r], i)
  PROVE  Erased'
<1>1. \A q \in Calls, i \in Ids : Erasing(call[q], i)' <=> Erasing(call'[q], i)
  BY DEF Erasing, Writing
<1>2. \A q \in Calls, i \in Ids : Erasing(call[q], i) => Erasing(call'[q], i)
  BY DEF Moves
<1>3. removed \subseteq Ids
  BY DEF ServInv, ServTypeOK
<1> QED BY <1>1, <1>2, <1>3 DEF ServInv, Erased

LEMMA ErasedBegins == ASSUME ServInv, NEW r \in Calls, Start(r) PROVE Erased'
<1>1. \A i \in Ids : ~Erasing(call[r], i)
  BY Starts DEF Erasing, Writing
<1>2. /\ mishaps' = mishaps /\ lost \subseteq lost' /\ removed' = removed /\ vault' = vault
  BY DEF Start, ConnectServer, Commit, Reauthenticate, Use, SelectServer, Remove, Update, Logout, pastVars
<1> QED BY <1>1, <1>2, StartMoves, ErasedIf

LEMMA ErasedGoesOn == ASSUME ServInv, NEW r \in Calls, Step(r) PROVE Erased'
<1>t. /\ call \in [Calls -> Request] /\ call[r] \in Request /\ OnCourse(call[r])
      /\ vault \in [Ids -> Secrets] /\ removed \subseteq Ids /\ mishaps \in Nat
  BY ServersAssumption DEF ServInv, Calling, ServTypeOK
<1>m. Moves(r)
  BY StepMoves
<1>e. \A q \in Calls, i \in Ids : Erasing(call[q], i)' <=> Erasing(call'[q], i)
  BY DEF Erasing, Writing
<1>h. mishaps = 0 => \A i \in removed \ lost : vault[i] = NoSecret \/ \E q \in Calls : Erasing(call[q], i)
  BY DEF ServInv, Erased
<1> USE DEF CallAt
<1>1. ASSUME LoadVault(r) PROVE Erased'
  <2>1. call'[r].id = call[r].id /\ call'[r].then = call[r].then /\ call'[r].at = "save" /\ call[r].at = "load"
    BY <1>1, <1>t DEF LoadVault, Request
  <2> QED BY <1>1, <2>1, <1>m, ErasedIf DEF LoadVault, Erasing, Writing, pastVars
<1>2. ASSUME SaveVault(r) PROVE Erased'
  <2>1. ASSUME mishaps' = 0, NEW i \in removed' \ lost'
        PROVE  vault'[i] = NoSecret \/ \E q \in Calls : Erasing(call'[q], i)
    <3>1. i \in removed \ lost /\ i \in Ids /\ mishaps = 0 /\ i \notin lost'
      BY <1>2, <2>1, <1>t DEF SaveVault
    <3>2. CASE i = Id(r)
      <4>1. ~Outdated(r) /\ vault'[i] = call[r].secret
        BY <1>2, <3>1, <3>2, <1>t DEF SaveVault, Written, Request
      <4> QED BY <3>1, <3>2, <4>1 DEF Outdated
    <3>3. CASE i # Id(r)
      <4>1. vault'[i] = vault[i]
        BY <1>2, <3>1, <3>3 DEF SaveVault
      <4>2. ~Erasing(call[r], i)
        BY <1>2, <3>3 DEF SaveVault, Erasing, Writing, Id
      <4> QED BY <3>1, <4>1, <4>2, <1>h, <1>m DEF Moves
    <3> QED BY <3>2, <3>3
  <2> QED BY <2>1, <1>e, <1>t, <1>2 DEF Erased, SaveVault
<1>3. ASSUME Mishap PROVE Erased'
  BY <1>3, <1>t DEF Erased, Mishap
<1>4. ASSUME Delete(r) PROVE Erased'
  <2>1. CASE Id(r) \in db.rows
    <3>1. /\ call'[r].at = "load" /\ call'[r].then = "evict" /\ call'[r].id = Id(r)
          /\ removed' = removed \cup {Id(r)} /\ call[r].at = "delete" /\ UNCHANGED <<vault, lost, mishaps>>
      BY <1>4, <2>1, <1>t, Writes DEF Delete, Id
    <3>2. Erasing(call'[r], Id(r)) /\ \A i \in Ids : ~Erasing(call[r], i)
      BY <3>1 DEF Erasing, Writing
    <3>3. ASSUME mishaps' = 0, NEW i \in removed' \ lost'
          PROVE  vault'[i] = NoSecret \/ \E q \in Calls : Erasing(call'[q], i)
      <4>1. CASE i = Id(r)
        BY <3>2, <4>1
      <4>2. CASE i # Id(r)
        BY <3>1, <3>2, <3>3, <4>2, <1>h, <1>m, <1>t DEF Moves
      <4> QED BY <4>1, <4>2
    <3>4. removed' \subseteq Ids
      BY <3>1, <2>1, <1>t DEF ServInv, ServTypeOK
    <3> QED BY <3>3, <3>4, <1>e DEF Erased
  <2>2. CASE Id(r) \notin db.rows
    <3>1. \A i \in Ids : ~Erasing(call[r], i)
      BY <1>4 DEF Delete, Erasing, Writing
    <3> QED BY <1>4, <2>2, <3>1, <1>m, ErasedIf DEF Delete
  <2> QED BY <2>1, <2>2
<1>5. ASSUME ClearRows(r) PROVE Erased'
  <2>1. call'[r].at = "wipe"
    BY <1>5, <1>t, GoesTo DEF ClearRows
  <2>2. removed' \subseteq Ids
    BY <1>5, <1>t DEF ClearRows, ServInv, ServTypeOK
  <2> QED BY <2>1, <2>2, <1>e DEF Erased, Erasing
<1>6. ASSUME ClearVault(r) PROVE Erased'
  BY <1>6, <1>t DEF ClearVault, EmptyVault, Erased
<1>7. ASSUME \/ Portable(r) \/ Find(r) \/ Prior(r) \/ Upsert(r) \/ Failed(r) \/ Lock(r) \/ PublishProvider(r)
             \/ LookUp(r) \/ Build(r) \/ BuildFails(r) \/ Enter(r) \/ Sync(r) \/ Reload(r) \/ Evict(r)
             \/ NextInLine(r) \/ Reselect(r)
      PROVE  Erased'
  <2>1. \A i \in Ids : ~Erasing(call[r], i)
    BY <1>7 DEF Portable, Find, Prior, Upsert, Failed, Lock, PublishProvider, LookUp, Build, BuildFails, Enter,
                Sync, Reload, Evict, NextInLine, Reselect, Erasing, Writing
  <2>2. mishaps' = mishaps /\ lost' = lost /\ removed' = removed /\ vault' = vault
    BY <1>7 DEF Portable, Find, Prior, Upsert, Failed, Lock, PublishProvider, LookUp, Build, BuildFails, Enter,
                Sync, Reload, Evict, NextInLine, Reselect, pastVars
  <2> QED BY <2>1, <2>2, <1>m, ErasedIf
<1> QED BY <1>1, <1>2, <1>3, <1>4, <1>5, <1>6, <1>7 DEF Step, SaveFails, UpsertFails, ClearFails

-----------------------------------------------------------------------------
LEMMA ServStart == ServInit => ServInv
<1> SUFFICES ASSUME ServInit PROVE ServInv
  PROOF OBVIOUS
<1> DEFINE Begun(rows, chosen) == ConfiguredServers(rows, chosen) /\ rows \subseteq Ids /\ chosen \subseteq rows
                                 /\ (\A i, j \in rows : i[1] = j[1] => i = j) /\ \A i, j \in chosen : i = j
<1>1. \E rows, chosen : Begun(rows, chosen)
  <2>1. CASE ConfiguredServers({}, {})
    <3>1. Begun({}, {})
      BY <2>1
    <3> QED BY <3>1
  <2>2. CASE \E s \in Servers : ConfiguredServers(Servers \X {1}, {<<s, 1>>})
    <3>1. PICK s \in Servers : ConfiguredServers(Servers \X {1}, {<<s, 1>>})
      BY <2>2
    <3>2. Begun(Servers \X {1}, {<<s, 1>>})
      BY <3>1, ServersAssumption DEF Ids
    <3> QED BY <3>2
  <2> QED BY <2>1, <2>2 DEF ServInit
<1>2. PICK rows, chosen : Begun(rows, chosen)
  BY <1>1
<1>3. /\ keeper = NoKeeper /\ call = [r \in Calls |-> NoCall] /\ mishaps = 0 /\ removed = {} /\ lost = {}
      /\ stale = FALSE
  BY DEF ServInit
<1>4. \A r \in Calls : call[r] = NoCall /\ call[r].at = "idle" /\ call[r].kind = "none"
  BY <1>3 DEF NoCall
<1>5. NoCall \in Request
  BY DEF NoCall, Request, Labels, Kinds, Names, Secrets, EmptyVault
<1>6. ServTypeOK
  <2>1. vault \in [Ids -> Secrets] /\ EmptyVault \in [Ids -> Secrets]
    BY <1>2 DEF ConfiguredServers, Secrets, EmptyVault
  <2>2. /\ db \in [rows : SUBSET Ids, chosen : SUBSET Ids] /\ taken \subseteq Ids
        /\ mgr \in [rows : SUBSET Ids, chosen : SUBSET Ids, providers : [Ids -> Secrets]]
    BY <1>2, <2>1 DEF ConfiguredServers
  <2>3. mishaps \in 0 .. MaxMishaps
    BY <1>3, ServersAssumption
  <2> QED BY <1>3, <2>1, <2>2, <2>3 DEF ServTypeOK
<1>7. Calling
  <2>1. \A r \in Calls : OnCourse(call[r])
    BY <1>4 DEF OnCourse, Course, Nameless, Holder, Writing, Building
  <2>2. call \in [Calls -> Request]
    BY <1>3, <1>5
  <2> QED BY <2>1, <2>2, <1>2 DEF Calling, ConfiguredServers
<1>8. Kept
  BY <1>3, <1>4, ServersAssumption DEF Kept, Keeping, Holder
<1>9. Apart
  BY <1>2 DEF Apart, ConfiguredServers
<1>10. Vaulted
  BY <1>4 DEF Vaulted, Holder
<1>11. RowsHaveSecrets
  BY <1>2 DEF RowsHaveSecrets, Standing, ConfiguredServers, NoSecret, Old
<1>12. Cached
  <2>1. \A i \in Ids : mgr.providers[i] = NoSecret
    BY <1>2 DEF ConfiguredServers, EmptyVault
  <2> QED BY <2>1, <1>4 DEF Cached, Trusted, OnTrial, Changing, Holder
<1>13. Agreeing
  BY <1>2 DEF Agreeing, Matches, ConfiguredServers
<1>14. Erased
  BY <1>3 DEF Erased
<1> QED BY <1>6, <1>7, <1>8, <1>9, <1>10, <1>11, <1>12, <1>13, <1>14 DEF ServInv

LEMMA ServRestart == ASSUME ServInv, Restart PROVE ServInv'
<1>t. ServTypeOK /\ call \in [Calls -> Request] /\ db.rows \subseteq taken /\ Apart /\ NoSecret \in Secrets
  BY DEF ServInv, Calling, Secrets
<1>1. /\ mishaps' \in 0 .. MaxMishaps /\ mishaps' # 0 /\ keeper' = NoKeeper /\ mgr' = Loaded(EmptyVault)
      /\ stale' = FALSE /\ UNCHANGED <<db, vault, taken, removed, lost>>
  BY <1>t, ServersAssumption DEF Restart, Mishap, ServTypeOK, pastVars
<1>2. call' = [r \in Calls |-> IF CallAt(r, "idle") THEN NoCall ELSE [NoCall EXCEPT !.at = "done"]]
  BY DEF Restart
<1>3. \A r \in Calls : call'[r].kind = "none" /\ call'[r].at \in {"idle", "done"}
  BY <1>2 DEF NoCall
<1>4. NoCall \in Request /\ [NoCall EXCEPT !.at = "done"] \in Request
  BY DEF NoCall, Request, Labels, Kinds, Names, Secrets, EmptyVault
<1>5. ServTypeOK'
  BY <1>1, <1>t DEF ServTypeOK, Loaded, EmptyVault
<1>6. Calling'
  <2>1. \A r \in Calls : OnCourse(call[r])'
    BY <1>3 DEF OnCourse, Course, Nameless, Holder, Writing, Building
  <2>2. call' \in [Calls -> Request]
    BY <1>2, <1>4
  <2>3. (mgr.chosen \subseteq mgr.rows)'
    BY <1>1, <1>t DEF Loaded, Apart
  <2> QED BY <2>1, <2>2, <2>3, <1>1, <1>t DEF Calling
<1>7. Kept'
  BY <1>1, <1>3, ServersAssumption DEF Kept, Keeping, Holder
<1>8. Apart'
  BY <1>1, <1>t DEF Apart
<1>9. Vaulted'
  BY <1>3 DEF Vaulted, Holder
<1>10. RowsHaveSecrets'
  BY <1>1 DEF ServInv, RowsHaveSecrets, Standing
<1>11. Cached'
  <2>1. \A i \in Ids : mgr'.providers[i] = NoSecret
    BY <1>1 DEF Loaded, EmptyVault
  <2> QED BY <2>1, <1>3 DEF Cached, Trusted, OnTrial, Changing, Holder
<1>12. Agreeing'
  BY <1>1 DEF Agreeing, Matches, Loaded
<1>13. Erased'
  BY <1>1 DEF Erased
<1> QED BY <1>5, <1>6, <1>7, <1>8, <1>9, <1>10, <1>11, <1>12, <1>13 DEF ServInv

LEMMA ServStays ==
  ASSUME ServInv, UNCHANGED <<db, vault, mgr, keeper, call, mishaps, pastVars, stale>>
  PROVE  ServInv'
<1> USE DEF ServInv, pastVars
<1>1. ServTypeOK' /\ Calling' /\ Kept' /\ Apart'
  <2>1. ServTypeOK'
    BY DEF ServTypeOK
  <2>2. Calling'
    BY DEF Calling, OnCourse, Holder, Nameless, Writing, Building
  <2>3. Kept' /\ Apart'
    BY DEF Kept, Keeping, Holder, Apart
  <2> QED BY <2>1, <2>2, <2>3
<1>2. Vaulted' /\ RowsHaveSecrets'
  BY DEF Vaulted, Truthful, TakesBack, Writing, Holder, Nameless, Sane, RowsHaveSecrets, Standing
<1>3. Cached'
  BY DEF Cached, Trusted, OnTrial, Renewing, Changing, TakesBack, Writing, Holder, Nameless, Sane
<1>4. Agreeing' /\ Erased'
  BY DEF Agreeing, Matches, Pending, Building, Erased, Erasing, Writing
<1> QED BY <1>1, <1>2, <1>3, <1>4

LEMMA ServStep == ASSUME ServInv, [ServNext]_servVars PROVE ServInv'
<1>1. ASSUME NEW r \in Calls, Start(r) PROVE ServInv'
  <2>1. ServTypeOK'
    BY <1>1, TypesBegin
  <2> QED BY <1>1, <2>1, CallingBegins, KeptBegins, ApartBegins, VaultedBegins, SecretsKept, CachedBegins,
             AgreeingBegins, ErasedBegins DEF ServInv
<1>2. ASSUME NEW r \in Calls, Step(r) PROVE ServInv'
  <2>1. ServTypeOK'
    BY <1>2, TypesGoOn
  <2> QED BY <1>2, <2>1, CallingGoesOn, KeptGoesOn, ApartGoesOn, VaultedGoesOn, SecretsKept, CachedGoesOn,
             AgreeingGoesOn, ErasedGoesOn DEF ServInv
<1>3. ASSUME NEW o \in offers, Cancel(o) PROVE ServInv'
  BY <1>3, ServStays DEF Cancel
<1>4. CASE Restart
  BY <1>4, ServRestart
<1>5. CASE UNCHANGED servVars
  BY <1>5, ServStays DEF servVars, pastVars
<1> QED BY <1>1, <1>2, <1>3, <1>4, <1>5 DEF ServNext

(* What the invariant says of the states the runs look at.                 *)
LEMMA AtMostOne ==
  ASSUME NEW S, \A x, y \in S : x = y
  PROVE  Cardinality(S) <= 1
<1>1. CASE S = {}
  BY <1>1, FS_EmptySet
<1>2. CASE S # {}
  <2>1. PICK x \in S : S = {x}
    BY <1>2
  <2> QED BY <2>1, FS_Singleton
<1> QED BY <1>1, <1>2

LEMMA ServInvSays == ServInv => ServersSafe
<1> SUFFICES ASSUME ServInv PROVE ServersSafe
  PROOF OBVIOUS
<1>1. RowsStand
  <2>1. ASSUME NEW s \in Servers PROVE Cardinality(RowsOf(s)) <= 1
    <3>1. \A i, j \in RowsOf(s) : i = j
      BY DEF ServInv, Apart, RowsOf
    <3> QED BY <3>1, AtMostOne
  <2> QED BY <2>1, AtMostOne DEF ServInv, Apart, RowsStand
<1>2. CachedIsStored
  <2>1. ASSUME keeper = NoKeeper, NEW i \in Standing PROVE mgr.providers[i] \in {NoSecret, vault[i]}
    <3>1. \A r \in Calls : ~Keeping(call[r])
      BY <2>1, ServersAssumption DEF ServInv, Kept
    <3>2. \A r \in Calls : ~OnTrial(call[r], i) /\ ~Renewing(call[r], i)
      BY <3>1 DEF OnTrial, Renewing, Changing, Nameless, Keeping, TakesBack, Writing
    <3>3. i \in Ids /\ Sane(i)
      BY DEF Standing, Sane, ServInv, ServTypeOK
    <3> QED BY <3>2, <3>3 DEF ServInv, Cached, Trusted
  <2> QED BY <2>1 DEF CachedIsStored
<1>3. Quiet => \A r \in Calls : call[r].kind = "none" /\ call[r].at \in {"idle", "done"}
  BY DEF Quiet, ServInv, Calling, OnCourse, Course
<1>4. ManagerAgrees
  BY <1>3 DEF ManagerAgrees, ServInv, Agreeing, Matches, Pending
<1>5. NothingLeftBehind
  BY <1>3 DEF NothingLeftBehind, ServInv, Erased, Erasing, Writing
<1> QED BY <1>1, <1>2, <1>4, <1>5 DEF ServersSafe, ServInv

(* Whatever requests overlap and whatever fails in between: a server has   *)
(* one row and its secret, what is cached was built from what is stored,   *)
(* the manager agrees with the database in the end, and the secrets of     *)
(* servers that were removed are erased (rpc.rs, server/manager.rs).       *)
THEOREM ServersAreSafe == ServSpec => []ServersSafe
<1>1. ServInv /\ [ServNext]_servVars => ServInv'
  BY ServStep
<1> QED BY ServStart, <1>1, ServInvSays, PTL DEF ServSpec

-----------------------------------------------------------------------------
(* Staging: the sort.                                                      *)
Before(adds, i) == {j \in DOMAIN adds : Precedes(adds, j, i)}

LEMMA PlaceType ==
  ASSUME NEW adds \in Seq(Items), NEW i \in 1 .. Len(adds)
  PROVE  /\ Place(adds, i) \in 1 .. Len(adds)
         /\ IsFiniteSet(Before(adds, i)) /\ Cardinality(Before(adds, i)) \in Nat
         /\ Place(adds, i) = Cardinality(Before(adds, i)) + 1
<1>1. IsFiniteSet(1 .. Len(adds)) /\ Cardinality(1 .. Len(adds)) = Len(adds)
  <2>1. Len(adds) \in Nat /\ 1 \in Int /\ Len(adds) \in Int
    OBVIOUS
  <2>2. Cardinality(1 .. Len(adds)) = IF 1 > Len(adds) THEN 0 ELSE Len(adds) - 1 + 1
    BY <2>1, FS_Interval
  <2> QED BY <2>1, <2>2, FS_Interval
<1>2. Before(adds, i) \in SUBSET (1 .. Len(adds)) /\ i \notin Before(adds, i)
  BY DEF Before, Precedes
<1>3. /\ IsFiniteSet(Before(adds, i)) /\ Cardinality(Before(adds, i)) \in Nat
      /\ Cardinality(Before(adds, i)) <= Len(adds)
      /\ Cardinality(Before(adds, i)) # Len(adds)
  BY <1>1, <1>2, FS_Subset, FS_CardinalityType
<1>4. Place(adds, i) = Cardinality(Before(adds, i)) + 1
  BY DEF Place, Before
<1> QED BY <1>3, <1>4

LEMMA PlaceOrder ==
  ASSUME NEW adds \in Seq(Items), NEW i \in 1 .. Len(adds), NEW j \in 1 .. Len(adds),
         Precedes(adds, j, i)
  PROVE  Place(adds, j) < Place(adds, i)
<1>1. \A k \in 1 .. Len(adds) : adds[k].auto \in BOOLEAN
  <2>1. \A k \in 1 .. Len(adds) : adds[k] \in Items
    OBVIOUS
  <2> QED BY <2>1 DEF Items
<1>2. Before(adds, j) \in SUBSET Before(adds, i)
  BY <1>1 DEF Before, Precedes
<1>3. j \in Before(adds, i) /\ j \notin Before(adds, j)
  BY DEF Before, Precedes
<1>4. /\ Cardinality(Before(adds, j)) <= Cardinality(Before(adds, i))
      /\ Cardinality(Before(adds, j)) # Cardinality(Before(adds, i))
  BY <1>2, <1>3, PlaceType, FS_Subset
<1> QED BY <1>4, PlaceType

(* Every place is taken, by one add.                                       *)
LEMMA PlacesTaken ==
  ASSUME NEW adds \in Seq(Items), NEW n \in 1 .. Len(adds)
  PROVE  \E i \in 1 .. Len(adds) : Place(adds, i) = n
<1> DEFINE N == 1 .. Len(adds)
           f == [i \in N |-> Place(adds, i)]
<1>1. IsFiniteSet(N)
  BY FS_Interval
<1>2. f \in [N -> N]
  BY PlaceType
<1>3. ASSUME NEW i \in N, NEW j \in N, i # j PROVE f[i] # f[j]
  <2>1. adds[i].auto \in BOOLEAN /\ adds[j].auto \in BOOLEAN
    <3>1. adds[i] \in Items /\ adds[j] \in Items
      OBVIOUS
    <3> QED BY <3>1 DEF Items
  <2>2. Precedes(adds, i, j) \/ Precedes(adds, j, i)
    BY <1>3, <2>1 DEF Precedes
  <2>3. Place(adds, i) \in N /\ Place(adds, j) \in N
    BY PlaceType
  <2> QED BY <2>2, <2>3, PlaceOrder
<1>4. f \in Injection(N, N)
  BY <1>2, <1>3 DEF Injection, IsInjective
<1>5. f \in Surjection(N, N)
  BY <1>1, <1>4, FS_Injection
<1> QED BY <1>5 DEF Surjection

(* What auto-fill adds comes last.                                         *)
ManualThenAuto(todo) == \A m, n \in 1 .. Len(todo) : m < n /\ todo[m].auto => todo[n].auto

LEMMA SortedIsSorted ==
  ASSUME NEW adds \in Seq(Items)
  PROVE  Sorted(adds) \in Seq(Items) /\ ManualThenAuto(Sorted(adds))
<1> DEFINE At_(n) == CHOOSE i \in DOMAIN adds : Place(adds, i) = n
<1>1. ASSUME NEW n \in 1 .. Len(adds) PROVE At_(n) \in 1 .. Len(adds) /\ Place(adds, At_(n)) = n
  BY PlacesTaken
<1> HIDE DEF At_
<1>2. Sorted(adds) = [n \in 1 .. Len(adds) |-> adds[At_(n)]]
  BY DEF Sorted, At_
<1>3. Sorted(adds) \in Seq(Items) /\ Len(Sorted(adds)) = Len(adds)
  BY <1>1, <1>2
<1>4. ASSUME NEW m \in 1 .. Len(adds), NEW n \in 1 .. Len(adds), m < n, adds[At_(m)].auto
      PROVE  adds[At_(n)].auto
  <2>1. SUFFICES ASSUME ~adds[At_(n)].auto PROVE FALSE
    OBVIOUS
  <2>2. adds[At_(n)].auto \in BOOLEAN /\ adds[At_(m)].auto \in BOOLEAN
    <3>1. adds[At_(n)] \in Items /\ adds[At_(m)] \in Items
      BY <1>1
    <3> QED BY <3>1 DEF Items
  <2>3. Precedes(adds, At_(n), At_(m))
    BY <1>4, <2>1, <2>2 DEF Precedes
  <2> QED BY <1>1, <1>4, <2>3, PlaceOrder
<1> QED BY <1>2, <1>3, <1>4 DEF ManualThenAuto

-----------------------------------------------------------------------------
(* Staging: the bytes that several holders have.                           *)
Units(h) == {u \in (DOMAIN h) \X (1 .. MaxBytes) : u[2] <= h[u[1]]}
But(h, x) == [s \in DOMAIN h \ {x} |-> h[s]]

LEMMA BytesSplit ==
  ASSUME NEW S, IsFiniteSet(S), NEW h \in [S -> Holdings], NEW x \in S
  PROVE  /\ Bytes(h) \in Nat /\ Bytes(But(h, x)) \in Nat
         /\ Bytes(h) = Bytes(But(h, x)) + h[x]
<1> DEFINE Slice == {u \in {x} \X (1 .. MaxBytes) : u[2] <= h[x]}
           f == [k \in 1 .. h[x] |-> <<x, k>>]
<1>1. h[x] \in Nat /\ h[x] <= MaxBytes /\ MaxBytes \in Nat
  BY StagingConstants DEF Holdings
<1>2. IsFiniteSet(Units(h)) /\ Cardinality(Units(h)) \in Nat
  <2>1. IsFiniteSet(S \X (1 .. MaxBytes))
    <3>1. IsFiniteSet(1 .. MaxBytes)
      BY <1>1, FS_Interval
    <3> QED BY <3>1, FS_Product
  <2>2. Units(h) \in SUBSET (S \X (1 .. MaxBytes))
    BY DEF Units
  <2> QED BY <2>1, <2>2, FS_Subset, FS_CardinalityType
<1>3. Units(h) = Units(But(h, x)) \cup Slice /\ Units(But(h, x)) \cap Slice = {}
  BY DEF Units, But
<1>4. /\ IsFiniteSet(Slice) /\ IsFiniteSet(Units(But(h, x)))
      /\ Cardinality(Units(But(h, x))) \in Nat
  BY <1>2, <1>3, FS_Subset, FS_CardinalityType
<1>5. Cardinality(Slice) = h[x]
  <2>1. f \in [1 .. h[x] -> Slice]
    BY <1>1
  <2>2. \A k, l \in 1 .. h[x] : f[k] = f[l] => k = l
    OBVIOUS
  <2>3. \A u \in Slice : u[2] \in 1 .. h[x] /\ f[u[2]] = u
    BY <1>1
  <2>4. f \in Bijection(1 .. h[x], Slice)
    BY <2>1, <2>2, <2>3 DEF Bijection, Injection, IsInjective, Surjection
  <2>5. ExistsBijection(1 .. h[x], Slice)
    BY <2>4 DEF ExistsBijection
  <2> QED BY <2>5, <1>1, FS_CountingElements
<1>6. Cardinality(Units(h)) = Cardinality(Units(But(h, x))) + Cardinality(Slice)
  <2> HIDE DEF Slice
  <2>1. Cardinality(Units(But(h, x)) \cap Slice) = 0
    BY <1>3, FS_EmptySet
  <2>2. Cardinality(Slice) \in Nat
    BY <1>4, FS_CardinalityType
  <2>3. Cardinality(Units(But(h, x)) \cup Slice)
          = Cardinality(Units(But(h, x))) + Cardinality(Slice)
            - Cardinality(Units(But(h, x)) \cap Slice)
    BY <1>4, FS_Union
  <2> QED BY <1>3, <1>4, <2>1, <2>2, <2>3
<1>7. Bytes(h) = Cardinality(Units(h)) /\ Bytes(But(h, x)) = Cardinality(Units(But(h, x)))
  BY DEF Bytes, Units
<1> QED BY <1>2, <1>4, <1>5, <1>6, <1>7

(* Only one holder has more or less than before.                           *)
LEMMA BytesChange ==
  ASSUME NEW S, IsFiniteSet(S), NEW h \in [S -> Holdings], NEW x \in S, NEW k \in Holdings
  PROVE  /\ Bytes([h EXCEPT ![x] = k]) = Bytes(h) - h[x] + k
         /\ Bytes(h) \in Nat /\ h[x] \in Nat /\ h[x] <= Bytes(h)
<1> DEFINE g == [h EXCEPT ![x] = k]
<1>1. g \in [S -> Holdings] /\ g[x] = k /\ But(g, x) = But(h, x)
  BY DEF But
<1>2. h[x] \in Nat /\ k \in Nat
  BY StagingConstants DEF Holdings
<1> HIDE DEF g
<1>3. Bytes(g) = Bytes(But(h, x)) + k
  BY <1>1, BytesSplit
<1> QED BY <1>2, <1>3, BytesSplit DEF g

HeldOf(q) == [n \in DOMAIN q |-> q[n].held]

LEMMA BytesAppend ==
  ASSUME NEW q \in Seq(Tracks), NEW t \in Tracks
  PROVE  /\ Bytes(HeldOf(Append(q, t))) = Bytes(HeldOf(q)) + t.held
         /\ Bytes(HeldOf(q)) \in Nat
<1> DEFINE n == Len(q) + 1
           S == 1 .. n
           h == HeldOf(Append(q, t))
<1>1. IsFiniteSet(S) /\ n \in S
  BY FS_Interval
<1>2. h \in [S -> Holdings] /\ h[n] = t.held /\ But(h, n) = HeldOf(q)
  <2>1. DOMAIN Append(q, t) = S /\ DOMAIN q = S \ {n}
    <3>1. Append(q, t) \in Seq(Tracks) /\ Len(Append(q, t)) = n /\ Len(q) \in Nat
      OBVIOUS
    <3>2. DOMAIN q = 1 .. Len(q) /\ DOMAIN Append(q, t) = 1 .. n
      BY <3>1
    <3> QED BY <3>1, <3>2
  <2>2. \A m \in S : Append(q, t)[m] \in Tracks
    OBVIOUS
  <2>3. Append(q, t)[n] = t /\ \A m \in S \ {n} : Append(q, t)[m] = q[m]
    OBVIOUS
  <2> QED BY <2>1, <2>2, <2>3 DEF HeldOf, But, Tracks
<1> QED BY <1>1, <1>2, BytesSplit

LEMMA BytesTail ==
  ASSUME NEW q \in Seq(Tracks), q # <<>>
  PROVE  /\ Bytes(HeldOf(Tail(q))) = Bytes(HeldOf(q)) - Head(q).held
         /\ Bytes(HeldOf(Tail(q))) \in Nat /\ Head(q) \in Tracks /\ Bytes(HeldOf(q)) \in Nat
<1> DEFINE S == 1 .. Len(q)
           h == HeldOf(q)
           t == HeldOf(Tail(q))
           f == [u \in Units(But(h, 1)) |-> <<u[1] - 1, u[2]>>]
<1>1. IsFiniteSet(S) /\ 1 \in S /\ Len(q) \in Nat
  BY FS_Interval
<1>2. h \in [S -> Holdings] /\ h[1] = Head(q).held /\ Head(q) \in Tracks
  <2>1. \A m \in S : q[m] \in Tracks
    OBVIOUS
  <2> QED BY <2>1, <1>1 DEF HeldOf, Tracks
<1>3. /\ DOMAIN t = 1 .. (Len(q) - 1) /\ DOMAIN But(h, 1) = 2 .. Len(q)
      /\ \A m \in 1 .. (Len(q) - 1) : t[m] = h[m + 1]
      /\ \A m \in 2 .. Len(q) : But(h, 1)[m] = h[m]
  BY DEF HeldOf, But
<1> HIDE DEF h, t
<1>4. f \in [Units(But(h, 1)) -> Units(t)]
  <2> SUFFICES ASSUME NEW u \in Units(But(h, 1)) PROVE <<u[1] - 1, u[2]>> \in Units(t)
    OBVIOUS
  <2>1. u[1] \in 2 .. Len(q) /\ u[2] \in 1 .. MaxBytes /\ u[2] <= h[u[1]]
    BY <1>3 DEF Units
  <2> QED BY <1>1, <1>3, <2>1 DEF Units
<1>5. \A u, v \in Units(But(h, 1)) : f[u] = f[v] => u = v
  BY <1>1, <1>3 DEF Units
<1>6. \A v \in Units(t) : \E u \in Units(But(h, 1)) : f[u] = v
  <2> SUFFICES ASSUME NEW v \in Units(t) PROVE \E u \in Units(But(h, 1)) : f[u] = v
    OBVIOUS
  <2>1. /\ v[1] \in 1 .. (Len(q) - 1) /\ v[2] \in 1 .. MaxBytes /\ v[2] <= h[v[1] + 1]
        /\ v = <<v[1], v[2]>>
    BY <1>3 DEF Units
  <2>2. <<v[1] + 1, v[2]>> \in Units(But(h, 1))
    BY <1>1, <1>3, <2>1 DEF Units
  <2>3. f[<<v[1] + 1, v[2]>>] = v
    BY <1>1, <2>1, <2>2
  <2> QED BY <2>2, <2>3
<1>7. ExistsBijection(Units(But(h, 1)), Units(t))
  <2>1. f \in Bijection(Units(But(h, 1)), Units(t))
    BY <1>4, <1>5, <1>6 DEF Bijection, Injection, IsInjective, Surjection
  <2> QED BY <2>1 DEF ExistsBijection
<1>8. IsFiniteSet(Units(But(h, 1)))
  <2>1. IsFiniteSet(S \X (1 .. MaxBytes))
    <3>1. IsFiniteSet(1 .. MaxBytes)
      BY StagingConstants, FS_Interval
    <3> QED BY <3>1, <1>1, FS_Product
  <2>2. Units(But(h, 1)) \in SUBSET (S \X (1 .. MaxBytes))
    BY <1>3 DEF Units
  <2> QED BY <2>1, <2>2, FS_Subset
<1>9. Bytes(t) = Bytes(But(h, 1))
  BY <1>7, <1>8, FS_Bijection DEF Bytes, Units
<1>10. h[1] \in Nat
  BY <1>1, <1>2, StagingConstants DEF Holdings
<1> QED BY <1>1, <1>2, <1>9, <1>10, BytesSplit DEF h, t

-----------------------------------------------------------------------------
(* Staging: the invariant.  What a producer has left is in order, it is at *)
(* an item only while it has one and holds bytes only while it has a file, *)
(* and it begins with auto-fill only once it passed the barrier.  Who came *)
(* to the barrier has nothing left that the user chose, so that all have   *)
(* come when one of them passes.                                           *)
AtItem == {"source", "count", "bytes", "stream", "send"}
AllAuto(todo) == \A n \in 1 .. Len(todo) : todo[n].auto
CountOf(t) == IF t.at \in {"bytes", "stream", "send"} THEN 1 ELSE 0
InOrder(t) ==
  /\ ManualThenAuto(t.todo)
  /\ t.at \in AtItem \cup {"barrier"} => t.todo # <<>>
  /\ t.at = "barrier" => Head(t.todo).auto
  /\ t.at \in {"last", "ended"} => t.todo = <<>>
  /\ t.at \in AtItem /\ Head(t.todo).auto => t.passed
  /\ t.at \notin {"stream", "send"} => t.held = 0 /\ t.got = 0
  /\ t.got <= t.held
Barred ==
  /\ \A p \in Producers : InOrder(producer[p])
  /\ \A p \in arrived : AllAuto(producer[p].todo)
  /\ \A p \in Producers : producer[p].passed => arrived = Producers
WriterHolds == writer.at # "write" => writer.track.held = 0
StagInv == StagTypeOK /\ BudgetKept /\ Barred /\ WriterHolds

LEMMA RestOfOrder ==
  ASSUME NEW todo \in Seq(Items), todo # <<>>
  PROVE  /\ Head(todo) \in Items /\ Tail(todo) \in Seq(Items)
         /\ ManualThenAuto(todo) => ManualThenAuto(Tail(todo))
         /\ AllAuto(todo) => AllAuto(Tail(todo))
         /\ ManualThenAuto(todo) /\ Head(todo).auto => AllAuto(todo)
<1>1. /\ Head(todo) = todo[1] /\ Len(Tail(todo)) = Len(todo) - 1 /\ Len(todo) \in Nat
      /\ \A n \in 1 .. (Len(todo) - 1) : Tail(todo)[n] = todo[n + 1]
      /\ Head(todo) \in Items /\ Tail(todo) \in Seq(Items)
  OBVIOUS
<1>2. ManualThenAuto(todo) => ManualThenAuto(Tail(todo))
  BY <1>1 DEF ManualThenAuto
<1>3. AllAuto(todo) => AllAuto(Tail(todo))
  BY <1>1 DEF AllAuto
<1>4. ManualThenAuto(todo) /\ Head(todo).auto => AllAuto(todo)
  BY <1>1 DEF ManualThenAuto, AllAuto
<1> QED BY <1>1, <1>2, <1>3, <1>4

(* What the producers hold, when one of them moves.                        *)
HeldByProducers == Bytes([p \in Producers |-> producer[p].held])

LEMMA HoldersMove ==
  ASSUME StagTypeOK, NEW p \in Producers, NEW t \in ProducerTasks,
         producer' = [producer EXCEPT ![p] = t]
  PROVE  /\ HeldByProducers \in Nat /\ HeldByProducers' \in Nat
         /\ producer[p].held \in Nat /\ t.held \in Nat
         /\ HeldByProducers' = HeldByProducers - producer[p].held + t.held
         /\ Cardinality(Counting) \in Nat /\ Cardinality(Counting)' \in Nat
         /\ Cardinality(Counting)' = Cardinality(Counting) - Counts(p) + CountOf(t)
<1> DEFINE h == [q \in Producers |-> producer[q].held]
<1>1. /\ producer \in [Producers -> ProducerTasks] /\ t.held \in Holdings
      /\ \A q \in Producers : producer[q].held \in Holdings
  BY DEF StagTypeOK, ProducerTasks
<1>2. h \in [Producers -> Holdings] /\ h[p] = producer[p].held /\ IsFiniteSet(Producers)
  BY <1>1, StagingConstants
<1>3. HeldByProducers' = Bytes([h EXCEPT ![p] = t.held])
  <2>1. [q \in Producers |-> producer'[q].held] = [h EXCEPT ![p] = t.held]
    BY <1>1
  <2> QED BY <2>1 DEF HeldByProducers, Bytes
<1>4. HeldByProducers = Bytes(h)
  BY DEF HeldByProducers
<1>5. t.held \in Nat /\ producer[p].held \in Nat
  BY <1>1, StagingConstants DEF Holdings
<1> HIDE DEF h
<1>6. /\ HeldByProducers' = HeldByProducers - producer[p].held + t.held
      /\ HeldByProducers \in Nat /\ producer[p].held <= HeldByProducers
  <2>1. /\ Bytes([h EXCEPT ![p] = t.held]) = Bytes(h) - h[p] + t.held
        /\ Bytes(h) \in Nat /\ h[p] <= Bytes(h)
    BY <1>1, <1>2, BytesChange
  <2> QED BY <2>1, <1>2, <1>3, <1>4
<1>7. Counting \in SUBSET Producers /\ Counting' \in SUBSET Producers
  BY DEF Counting
<1>8. /\ IsFiniteSet(Counting) /\ IsFiniteSet(Counting')
      /\ Cardinality(Counting) \in Nat /\ Cardinality(Counting') \in Nat
  BY <1>2, <1>7, FS_Subset, FS_CardinalityType
<1>9. /\ p \in Counting <=> Counts(p) = 1
      /\ p \in Counting' <=> CountOf(t) = 1
      /\ Counting' \ {p} = Counting \ {p}
      /\ Counts(p) \in {0, 1} /\ CountOf(t) \in {0, 1}
  BY <1>1 DEF Counting, Counts, CountOf
<1>10. /\ Cardinality(Counting \ {p}) = Cardinality(Counting) - Counts(p)
       /\ Cardinality(Counting' \ {p}) = Cardinality(Counting') - CountOf(t)
  <2>1. Cardinality(Counting \ {p})
          = IF p \in Counting THEN Cardinality(Counting) - 1 ELSE Cardinality(Counting)
    BY <1>8, FS_RemoveElement
  <2>2. Cardinality(Counting' \ {p})
          = IF p \in Counting' THEN Cardinality(Counting') - 1 ELSE Cardinality(Counting')
    BY <1>8, FS_RemoveElement
  <2> QED BY <2>1, <2>2, <1>8, <1>9
<1>11. Cardinality(Counting') = Cardinality(Counting) - Counts(p) + CountOf(t)
  <2>1. Counts(p) \in Nat /\ CountOf(t) \in Nat
    BY DEF Counts, CountOf
  <2>2. Cardinality(Counting) - Counts(p) = Cardinality(Counting') - CountOf(t)
    BY <1>9, <1>10
  <2> QED BY <2>1, <2>2, <1>8
<1>12. HeldByProducers' \in Nat
  BY <1>5, <1>6
<1> QED BY <1>5, <1>6, <1>8, <1>11, <1>12

LEMMA QueueBytes ==
  ASSUME NEW q \in Seq(Tracks)
  PROVE  Bytes(HeldOf(q)) \in Nat
<1>1. CASE q = <<>>
  <2>1. Units(HeldOf(q)) = {}
    BY <1>1 DEF Units, HeldOf
  <2>2. Bytes(HeldOf(q)) = Cardinality(Units(HeldOf(q)))
    BY DEF Bytes, Units
  <2> QED BY <2>1, <2>2, FS_EmptySet
<1>2. CASE q # <<>>
  BY <1>2, BytesTail
<1> QED BY <1>1, <1>2

LEMMA TracksHold == ASSUME NEW k \in Tracks PROVE k.held \in Nat
<1>1. k.held \in 0 .. MaxBytes
  BY DEF Tracks, Holdings
<1> QED BY <1>1, StagingConstants

LEMMA QueueHolds ==
  ASSUME StagTypeOK
  PROVE  Bytes(HeldOf(queue)) \in Nat /\ writer.track.held \in Nat
<1>1. queue \in Seq(Tracks) /\ writer.track \in Tracks
  BY DEF StagTypeOK
<1> QED BY <1>1, QueueBytes, TracksHold

(* A producer moves and its permits with it.                               *)
LEMMA ProducerMoves ==
  ASSUME StagInv, NEW p \in Producers, NEW t \in ProducerTasks, InOrder(t),
         producer' = [producer EXCEPT ![p] = t],
         AllAuto(producer[p].todo) => AllAuto(t.todo),
         t.passed => producer[p].passed \/ arrived = Producers,
         UNCHANGED <<plan, arrived, queue, writer>>, cancelled' \in BOOLEAN,
         permits' = permits + Counts(p) - CountOf(t), permits' >= 0,
         used' = used - producer[p].held + t.held, used' <= MaxBytes
  PROVE  StagInv'
<1> USE DEF StagInv
<1>1. /\ producer \in [Producers -> ProducerTasks] /\ queue \in Seq(Tracks)
      /\ permits \in Nat /\ used \in Nat /\ MaxTracks \in Nat /\ MaxBytes \in Nat
      /\ Len(queue) \in Nat /\ writer.track.held \in Nat /\ arrived \in SUBSET Producers
  <2>1. writer.track \in Tracks
    BY DEF StagTypeOK
  <2>2. writer.track.held \in 0 .. MaxBytes
    BY <2>1 DEF Tracks, Holdings
  <2> QED BY <2>2, StagingConstants DEF StagTypeOK, Holdings
<1>2. /\ HeldByProducers \in Nat /\ HeldByProducers' \in Nat
      /\ producer[p].held \in Nat /\ t.held \in Nat
      /\ HeldByProducers' = HeldByProducers - producer[p].held + t.held
      /\ Cardinality(Counting) \in Nat /\ Cardinality(Counting)' \in Nat
      /\ Cardinality(Counting)' = Cardinality(Counting) - Counts(p) + CountOf(t)
      /\ Counts(p) \in Nat /\ CountOf(t) \in Nat
  BY HoldersMove DEF Counts, CountOf
<1>3. Bytes(HeldOf(queue)) \in Nat
  BY <1>1, QueueBytes
<1>4. /\ used = HeldByProducers + Bytes(HeldOf(queue)) + writer.track.held
      /\ permits + Cardinality(Counting) + Len(queue)
           + (IF writer.at = "write" THEN 1 ELSE 0) = MaxTracks
  BY DEF BudgetKept, HeldByProducers, HeldOf
<1>b. /\ used' \in Nat
      /\ used' = HeldByProducers' + Bytes(HeldOf(queue)) + writer.track.held
  <2> DEFINE all == used
             now == used'
             theirs == HeldByProducers
             after == HeldByProducers'
             others == Bytes(HeldOf(queue))
             rest == writer.track.held
             old == producer[p].held
             new == t.held
  <2>1. /\ all = theirs + others + rest /\ after = theirs - old + new /\ now = all - old + new
        /\ all \in Nat /\ theirs \in Nat /\ others \in Nat /\ rest \in Nat /\ old \in Nat
        /\ new \in Nat /\ after \in Nat
    BY <1>1, <1>2, <1>3, <1>4
  <2> HIDE DEF all, now, theirs, after, others, rest, old, new
  <2>2. now \in Nat /\ now = after + others + rest
    BY <2>1
  <2> QED BY <2>2 DEF all, now, theirs, after, others, rest, old, new
<1>5. /\ used' = HeldByProducers' + Bytes(HeldOf(queue)) + writer.track.held
      /\ permits' + Cardinality(Counting)' + Len(queue)
           + (IF writer.at = "write" THEN 1 ELSE 0) = MaxTracks
  <2> DEFINE w == IF writer.at = "write" THEN 1 ELSE 0
  <2>1. used' = HeldByProducers' + Bytes(HeldOf(queue)) + writer.track.held
    BY <1>b
  <2>2. w \in Nat
    OBVIOUS
  <2>3. permits + Cardinality(Counting) + Len(queue) + w = MaxTracks
    BY <1>4
  <2> HIDE DEF w
  <2>4. permits' + Cardinality(Counting)' + Len(queue) + w = MaxTracks
    BY <1>1, <1>2, <2>2, <2>3
  <2> QED BY <2>1, <2>4 DEF w
<1>6. BudgetKept'
  BY <1>5 DEF BudgetKept, HeldByProducers, HeldOf
<1>7. permits' \in 0 .. MaxTracks /\ used' \in 0 .. MaxBytes
  <2>1. permits' \in Int
    BY <1>1, <1>2
  <2>2. used' \in Nat
    BY <1>b
  <2>3. permits' <= MaxTracks
    <3> DEFINE w == IF writer.at = "write" THEN 1 ELSE 0
               c == Cardinality(Counting)'
    <3>1. permits' + c + Len(queue) + w = MaxTracks /\ c \in Nat
      BY <1>2, <1>5
    <3>2. w \in Nat
      OBVIOUS
    <3> HIDE DEF w, c
    <3> QED BY <3>1, <3>2, <2>1, <1>1
  <2> QED BY <2>1, <2>2, <2>3
<1>8. StagTypeOK'
  BY <1>1, <1>7 DEF StagTypeOK, Holdings
<1>9. Barred'
  BY <1>1 DEF Barred
<1>10. WriterHolds'
  BY DEF WriterHolds
<1> QED BY <1>6, <1>8, <1>9, <1>10

(* The item at the head is left, or the rest of the items with it.         *)
LEMMA TaskHas ==
  ASSUME StagInv, NEW p \in Producers
  PROVE  /\ producer \in [Producers -> ProducerTasks] /\ producer[p] \in ProducerTasks
         /\ producer[p].todo \in Seq(Items) /\ InOrder(producer[p])
         /\ producer[p].held \in Nat /\ producer[p].got \in Nat /\ producer[p].held <= MaxBytes
         /\ permits \in Nat /\ used \in Nat /\ used <= MaxBytes /\ MaxBytes \in Nat
         /\ Counts(p) = CountOf(producer[p]) /\ cancelled \in BOOLEAN
         /\ Counts(p) \in Nat
         /\ producer[p].held <= used
<1>1. producer \in [Producers -> ProducerTasks] /\ producer[p] \in ProducerTasks
  BY DEF StagInv, StagTypeOK
<1>2. /\ producer[p].todo \in Seq(Items) /\ InOrder(producer[p])
      /\ producer[p].held \in Nat /\ producer[p].got \in Nat /\ producer[p].held <= MaxBytes
      /\ permits \in Nat /\ used \in Nat /\ used <= MaxBytes /\ MaxBytes \in Nat
  BY <1>1, StagingConstants DEF StagInv, StagTypeOK, Barred, ProducerTasks, Holdings
<1>3. Counts(p) = CountOf(producer[p]) /\ cancelled \in BOOLEAN /\ Counts(p) \in Nat
  BY DEF Counts, CountOf, StagInv, StagTypeOK
<1>4. producer[p].held <= used
  <2> DEFINE h == [q \in Producers |-> producer[q].held]
  <2>1. h \in [Producers -> Holdings] /\ h[p] = producer[p].held /\ IsFiniteSet(Producers)
    BY <1>1, StagingConstants DEF ProducerTasks
  <2>2. Bytes(h) \in Nat /\ h[p] <= Bytes(h)
    <3>1. h[p] \in Holdings
      BY <2>1
    <3> HIDE DEF h
    <3> QED BY <2>1, <3>1, BytesChange
  <2>3. Bytes(HeldOf(queue)) \in Nat /\ writer.track.held \in Nat
    BY QueueHolds DEF StagInv
  <2>4. used = Bytes(h) + Bytes(HeldOf(queue)) + writer.track.held
    BY DEF StagInv, BudgetKept, HeldOf
  <2> HIDE DEF h
  <2> QED BY <1>2, <2>1, <2>2, <2>3, <2>4
<1> QED BY <1>1, <1>2, <1>3, <1>4

LEMMA LeavesItem ==
  ASSUME StagInv, NEW p \in Producers, producer[p].at \in AtItem, NextItem(p),
         UNCHANGED <<unmoved, arrived>>, cancelled' \in BOOLEAN
  PROVE  StagInv'
<1> DEFINE t == Onward(producer[p])
<1>1. producer[p].todo # <<>> /\ producer[p].todo \in Seq(Items)
  BY TaskHas DEF InOrder
<1>2. t \in ProducerTasks
  <2>1. 0 \in Holdings /\ "next" \in ProducerStages /\ Tail(producer[p].todo) \in Seq(Items)
    BY <1>1, TaskHas, RestOfOrder DEF ProducerStages, Holdings
  <2>2. producer[p] \in ProducerTasks
    BY TaskHas
  <2> QED BY <2>1, <2>2 DEF ProducerTasks, Onward
<1>3. InOrder(t) /\ CountOf(t) = 0 /\ t.held = 0 /\ t.passed = producer[p].passed
      /\ (AllAuto(producer[p].todo) => AllAuto(t.todo))
  BY <1>1, TaskHas, RestOfOrder DEF InOrder, AtItem, CountOf, ProducerTasks, Onward
<1>4. producer' = [producer EXCEPT ![p] = t]
  BY DEF NextItem
<1>5. /\ permits' = permits + Counts(p) - CountOf(t) /\ permits' >= 0
      /\ used' = used - producer[p].held + t.held /\ used' <= MaxBytes
  BY <1>3, TaskHas DEF NextItem
<1> HIDE DEF t
<1> QED BY <1>2, <1>3, <1>4, <1>5, ProducerMoves DEF unmoved

LEMMA LeavesAll ==
  ASSUME StagInv, NEW p \in Producers, Break(p),
         UNCHANGED <<unmoved, arrived>>, cancelled' \in BOOLEAN
  PROVE  StagInv'
<1> DEFINE t == [producer[p] EXCEPT !.at = IF producer[p].passed THEN "ended" ELSE "last",
                                    !.todo = <<>>, !.held = 0, !.got = 0]
<1>2. t \in ProducerTasks
  <2>1. 0 \in Holdings /\ <<>> \in Seq(Items) /\ "ended" \in ProducerStages /\ "last" \in ProducerStages
    BY TaskHas DEF ProducerStages, Holdings
  <2>2. producer[p] \in ProducerTasks
    BY TaskHas
  <2> QED BY <2>1, <2>2 DEF ProducerTasks
<1>3. InOrder(t) /\ CountOf(t) = 0 /\ t.held = 0 /\ t.passed = producer[p].passed
      /\ AllAuto(t.todo)
  BY TaskHas DEF InOrder, AtItem, CountOf, ProducerTasks, ManualThenAuto, AllAuto
<1>4. producer' = [producer EXCEPT ![p] = t]
  BY TaskHas DEF Break
<1>5. /\ permits' = permits + Counts(p) - CountOf(t) /\ permits' >= 0
      /\ used' = used - producer[p].held + t.held /\ used' <= MaxBytes
  BY <1>3, TaskHas DEF Break
<1> HIDE DEF t
<1> QED BY <1>2, <1>3, <1>4, <1>5, ProducerMoves DEF unmoved

(* The producer goes on with the same items.                               *)
LEMMA KeepsItems ==
  ASSUME StagInv, NEW p \in Producers, NEW t \in ProducerTasks, InOrder(t),
         producer' = [producer EXCEPT ![p] = t], t.todo = producer[p].todo,
         t.passed = producer[p].passed \/ arrived = Producers,
         UNCHANGED <<unmoved, arrived, cancelled>>,
         permits' = permits + Counts(p) - CountOf(t), permits' >= 0,
         used' = used - producer[p].held + t.held, used' <= MaxBytes
  PROVE  StagInv'
<1>1. t.passed => producer[p].passed \/ arrived = Producers
  OBVIOUS
<1>2. cancelled' \in BOOLEAN
  BY TaskHas
<1>3. UNCHANGED <<plan, arrived, queue, writer>>
  BY DEF unmoved
<1>4. AllAuto(producer[p].todo) => AllAuto(t.todo)
  OBVIOUS
<1> QED BY <1>1, <1>2, <1>3, <1>4, ProducerMoves

(* The permits go with the track, and are given back by the writer.        *)
LEMMA SendKeeps == ASSUME StagInv, NEW p \in Producers, Send(p) PROVE StagInv'
<1> DEFINE t == Onward(producer[p])
           k == [item |-> Item(p), held |-> producer[p].held]
<1>t. /\ producer \in [Producers -> ProducerTasks] /\ producer[p] \in ProducerTasks
      /\ producer[p].todo \in Seq(Items) /\ InOrder(producer[p]) /\ producer[p].at = "send"
      /\ producer[p].todo # <<>>
      /\ UNCHANGED <<plan, arrived, permits, used, writer, cancelled>>
  BY TaskHas DEF Send, At, InOrder, AtItem
<1>1. /\ k \in Tracks /\ queue \in Seq(Tracks) /\ Len(queue) < MaxTracks /\ Len(queue) \in Nat
      /\ queue' = Append(queue, k)
  <2>1. Item(p) \in Items /\ producer[p].held \in Holdings
    BY <1>t, RestOfOrder DEF Item, ProducerTasks
  <2> QED BY <2>1 DEF Tracks, Send, StagInv, StagTypeOK
<1>2. t \in ProducerTasks
  <2>1. 0 \in Holdings /\ "next" \in ProducerStages /\ Tail(producer[p].todo) \in Seq(Items)
    BY <1>t, RestOfOrder, StagingConstants DEF ProducerStages, Holdings
  <2> QED BY <2>1, <1>t DEF ProducerTasks, Onward
<1>3. InOrder(t) /\ CountOf(t) = 0 /\ t.held = 0 /\ t.passed = producer[p].passed
      /\ (AllAuto(producer[p].todo) => AllAuto(t.todo)) /\ Counts(p) = 1
  BY <1>t, RestOfOrder DEF InOrder, AtItem, CountOf, Counts, ProducerTasks, Onward
<1>4. producer' = [producer EXCEPT ![p] = t]
  BY DEF Send
<1> HIDE DEF t
<1>5. /\ HeldByProducers' = HeldByProducers - producer[p].held
      /\ HeldByProducers \in Nat /\ producer[p].held \in Nat
      /\ Cardinality(Counting') = Cardinality(Counting) - 1 /\ Cardinality(Counting) \in Nat
  <2>1. /\ HeldByProducers \in Nat /\ HeldByProducers' \in Nat
        /\ producer[p].held \in Nat /\ t.held \in Nat
        /\ HeldByProducers' = HeldByProducers - producer[p].held + t.held
        /\ Cardinality(Counting) \in Nat /\ Cardinality(Counting') \in Nat
        /\ Cardinality(Counting') = Cardinality(Counting) - Counts(p) + CountOf(t)
    BY <1>2, <1>4, HoldersMove DEF StagInv
  <2> QED BY <2>1, <1>3
<1>6. /\ Bytes(HeldOf(queue')) = Bytes(HeldOf(queue)) + producer[p].held
      /\ Bytes(HeldOf(queue)) \in Nat /\ Len(queue') = Len(queue) + 1 /\ queue' \in Seq(Tracks)
  BY <1>1, BytesAppend
<1>7. /\ used = HeldByProducers + Bytes(HeldOf(queue)) + writer.track.held
      /\ permits + Cardinality(Counting) + Len(queue)
           + (IF writer.at = "write" THEN 1 ELSE 0) = MaxTracks
  BY DEF StagInv, BudgetKept, HeldByProducers, HeldOf
<1>8. used = HeldByProducers' + Bytes(HeldOf(queue')) + writer.track.held
  <2> DEFINE theirs == HeldByProducers
             after == HeldByProducers'
             others == Bytes(HeldOf(queue))
             then == Bytes(HeldOf(queue'))
             rest == writer.track.held
             old == producer[p].held
  <2>1. /\ used = theirs + others + rest /\ after = theirs - old /\ then = others + old
        /\ theirs \in Nat /\ others \in Nat /\ rest \in Nat /\ old \in Nat
    BY <1>5, <1>6, <1>7, QueueHolds DEF StagInv
  <2> HIDE DEF theirs, after, others, then, rest, old
  <2>2. used = after + then + rest
    BY <2>1
  <2> QED BY <2>2 DEF after, then, rest
<1>9. permits + Cardinality(Counting') + Len(queue')
        + (IF writer.at = "write" THEN 1 ELSE 0) = MaxTracks
  <2> DEFINE w == IF writer.at = "write" THEN 1 ELSE 0
  <2>1. permits + Cardinality(Counting) + Len(queue) + w = MaxTracks /\ w \in Nat
        /\ permits \in Nat
    BY <1>7, TaskHas
  <2> HIDE DEF w
  <2>2. permits + Cardinality(Counting') + Len(queue') + w = MaxTracks
    <3> DEFINE c == Cardinality(Counting)
               d == Cardinality(Counting')
               l == Len(queue)
               m == Len(queue')
    <3>1. /\ permits + c + l + w = MaxTracks /\ permits \in Nat /\ w \in Nat /\ c \in Nat
          /\ l \in Nat /\ d = c - 1 /\ m = l + 1
      BY <2>1, <1>1, <1>5, <1>6
    <3> HIDE DEF c, d, l, m
    <3>2. permits + d + m + w = MaxTracks
      BY <3>1
    <3> QED BY <3>2 DEF d, m
  <2> QED BY <2>2 DEF w
<1>10. BudgetKept'
  BY <1>8, <1>9, <1>t DEF BudgetKept, HeldByProducers, HeldOf
<1>11. StagTypeOK'
  <2>1. producer' \in [Producers -> ProducerTasks]
    BY <1>2, <1>4, <1>t
  <2>2. queue' \in Seq(Tracks) /\ Len(queue') <= MaxTracks
    BY <1>1, <1>6, StagingConstants
  <2> QED BY <2>1, <2>2, <1>t DEF StagInv, StagTypeOK
<1>12. Barred' /\ WriterHolds'
  BY <1>3, <1>4, <1>t DEF StagInv, Barred, WriterHolds, StagTypeOK
<1> QED BY <1>10, <1>11, <1>12 DEF StagInv

LEMMA HoldsOn ==
  ASSUME StagInv, NEW p \in Producers, NEW t \in ProducerTasks, InOrder(t),
         producer' = [producer EXCEPT ![p] = t], t.todo = producer[p].todo,
         t.passed = producer[p].passed \/ arrived = Producers, t.held = producer[p].held,
         CountOf(t) = Counts(p), UNCHANGED <<unmoved, arrived, cancelled, permits, used>>
  PROVE  StagInv'
<1>1. /\ permits' = permits + Counts(p) - CountOf(t) /\ permits' >= 0
      /\ used' = used - producer[p].held + t.held /\ used' <= MaxBytes
  BY TaskHas
<1> QED BY <1>1, KeepsItems

LEMMA LocalKeeps == ASSUME StagInv, NEW p \in Producers, Local(p) PROVE StagInv'
<1>t. /\ producer \in [Producers -> ProducerTasks] /\ producer[p] \in ProducerTasks
      /\ producer[p].todo \in Seq(Items) /\ InOrder(producer[p])
      /\ producer[p].held \in Nat /\ producer[p].got \in Nat /\ producer[p].held <= MaxBytes
      /\ permits \in Nat /\ used \in Nat /\ used <= MaxBytes /\ MaxBytes \in Nat
      /\ Counts(p) = CountOf(producer[p]) /\ cancelled \in BOOLEAN /\ Counts(p) \in Nat
      /\ producer[p].held <= used
  BY TaskHas
<1>1. CASE Turn(p)
  <2> DEFINE stage == CASE producer[p].todo = <<>> -> IF producer[p].passed THEN "ended" ELSE "last"
                        [] producer[p].todo # <<>> /\ Head(producer[p].todo).auto
                             /\ ~producer[p].passed -> "barrier"
                        [] OTHER -> "source"
             t == [producer[p] EXCEPT !.at = stage]
  <2>1. producer' = [producer EXCEPT ![p] = t] /\ producer[p].at = "next"
    BY <1>1, <1>t DEF Turn, Goto, At
  <2>2. \/ stage \in {"ended", "last"} /\ producer[p].todo = <<>>
        \/ stage = "barrier" /\ producer[p].todo # <<>> /\ Head(producer[p].todo).auto
        \/ stage = "source" /\ producer[p].todo # <<>>
             /\ (Head(producer[p].todo).auto => producer[p].passed)
    <3>1. producer[p].todo # <<>> => Head(producer[p].todo).auto \in BOOLEAN
      BY <1>t, RestOfOrder DEF Items
    <3> QED BY <3>1
  <2> HIDE DEF stage
  <2>3. t \in ProducerTasks /\ t.todo = producer[p].todo /\ t.passed = producer[p].passed
        /\ t.held = producer[p].held
    BY <2>2, <1>t DEF ProducerTasks, ProducerStages
  <2>4. InOrder(t) /\ CountOf(t) = 0 /\ Counts(p) = 0
    BY <2>1, <2>2, <1>t DEF InOrder, AtItem, CountOf, ProducerTasks
  <2>5. UNCHANGED <<unmoved, arrived, cancelled, permits, used>>
    BY <1>1 DEF Turn
  <2> HIDE DEF t
  <2> QED BY <2>1, <2>3, <2>4, <2>5, HoldsOn
<1>2. CASE Arrive(p)
  <2>1. AllAuto(producer[p].todo)
    <3>1. \/ producer[p].todo = <<>>
          \/ producer[p].todo # <<>> /\ Head(producer[p].todo).auto
      BY <1>2, <1>t DEF Arrive, InOrder
    <3>2. CASE producer[p].todo = <<>>
      BY <3>2 DEF AllAuto
    <3> QED BY <3>1, <3>2, <1>t, RestOfOrder DEF InOrder
  <2>2. Barred'
    BY <1>2, <2>1 DEF Arrive, StagInv, Barred, StagTypeOK
  <2>3. StagTypeOK'
    BY <1>2 DEF Arrive, StagInv, StagTypeOK, unmoved
  <2>4. BudgetKept' /\ WriterHolds'
    BY <1>2 DEF Arrive, StagInv, BudgetKept, Counting, Counts, WriterHolds, unmoved, Bytes
  <2> QED BY <2>2, <2>3, <2>4 DEF StagInv
<1>3. CASE Pass(p)
  <2> DEFINE t == [producer[p] EXCEPT !.passed = TRUE,
                                      !.at = IF @ = "last" THEN "ended" ELSE "next"]
  <2>1. producer' = [producer EXCEPT ![p] = t] /\ producer[p].at \in {"barrier", "last"}
        /\ arrived = Producers
    BY <1>3, <1>t DEF Pass, Opens
  <2>2. t \in ProducerTasks /\ t.todo = producer[p].todo /\ t.held = producer[p].held
    BY <1>t DEF ProducerTasks, ProducerStages
  <2>3. InOrder(t) /\ CountOf(t) = 0 /\ Counts(p) = 0
    BY <2>1, <1>t DEF InOrder, AtItem, CountOf, ProducerTasks
  <2>4. UNCHANGED <<unmoved, arrived, cancelled, permits, used>>
    BY <1>3 DEF Pass
  <2> HIDE DEF t
  <2> QED BY <2>1, <2>2, <2>3, <2>4, HoldsOn
<1>4. CASE TakeCount(p)
  <2> DEFINE t == [producer[p] EXCEPT !.at = "bytes"]
  <2>1. producer' = [producer EXCEPT ![p] = t] /\ producer[p].at = "count"
    BY <1>4, <1>t DEF TakeCount, Goto, At
  <2>2. t \in ProducerTasks /\ t.todo = producer[p].todo /\ t.held = producer[p].held
        /\ t.passed = producer[p].passed
    BY <1>t DEF ProducerTasks, ProducerStages
  <2>3. InOrder(t) /\ CountOf(t) = 1 /\ Counts(p) = 0
    BY <2>1, <1>t DEF InOrder, AtItem, CountOf, ProducerTasks
  <2>4. UNCHANGED <<unmoved, arrived, cancelled, used>> /\ permits' = permits - 1 /\ permits' >= 0
    BY <1>4, <1>t DEF TakeCount
  <2>5. /\ permits' = permits + Counts(p) - CountOf(t)
        /\ used' = used - producer[p].held + t.held /\ used' <= MaxBytes
    BY <2>2, <2>3, <2>4, <1>t
  <2> HIDE DEF t
  <2> QED BY <2>1, <2>2, <2>3, <2>4, <2>5, KeepsItems
<1>5. CASE TooLarge(p)
  <2>1. producer[p].at \in AtItem /\ NextItem(p) /\ UNCHANGED <<unmoved, arrived>>
        /\ cancelled' \in BOOLEAN
    BY <1>5, <1>t DEF TooLarge, At, AtItem
  <2> QED BY <2>1, LeavesItem
<1>6. CASE TakeBytes(p)
  <2> DEFINE size == Item(p).size
             t == [producer[p] EXCEPT !.at = "stream", !.held = size]
  <2>1. producer' = [producer EXCEPT ![p] = t] /\ producer[p].at = "bytes"
    BY <1>6, <1>t DEF TakeBytes, At
  <2>2. /\ size \in Nat /\ size <= MaxBytes - used /\ used' = used + size
        /\ UNCHANGED <<unmoved, arrived, cancelled, permits>>
    <3>1. Item(p) \in Items
      BY <2>1, <1>t, RestOfOrder DEF Item, InOrder, AtItem
    <3> QED BY <3>1, <1>6 DEF TakeBytes, Items
  <2> HIDE DEF size
  <2>3. t \in ProducerTasks /\ t.todo = producer[p].todo /\ t.held = size
        /\ t.passed = producer[p].passed
    <3>1. size \in Holdings /\ "stream" \in ProducerStages
      BY <2>2, <1>t DEF Holdings, ProducerStages
    <3> QED BY <3>1, <1>t DEF ProducerTasks
  <2>4. InOrder(t) /\ CountOf(t) = 1 /\ Counts(p) = 1 /\ producer[p].held = 0
    BY <2>1, <2>2, <1>t DEF InOrder, AtItem, CountOf, ProducerTasks
  <2>5. /\ permits' = permits + Counts(p) - CountOf(t) /\ permits' >= 0
        /\ used' = used - producer[p].held + t.held /\ used' <= MaxBytes
    BY <2>2, <2>3, <2>4, <1>t
  <2> HIDE DEF t
  <2> QED BY <2>1, <2>2, <2>3, <2>4, <2>5, KeepsItems
<1>7. CASE Staged(p)
  <2> DEFINE t == [producer[p] EXCEPT !.at = "send", !.held = producer[p].got]
  <2>1. producer' = [producer EXCEPT ![p] = t] /\ producer[p].at = "stream"
    BY <1>7, <1>t DEF Staged, At
  <2>2. /\ producer[p].got <= producer[p].held
        /\ used' = used - (producer[p].held - producer[p].got)
        /\ UNCHANGED <<unmoved, arrived, cancelled, permits>>
    BY <1>7, <1>t DEF Staged, InOrder
  <2>3. t \in ProducerTasks /\ t.todo = producer[p].todo /\ t.held = producer[p].got
        /\ t.passed = producer[p].passed
    BY <1>t DEF ProducerTasks, ProducerStages, Holdings
  <2>4. InOrder(t) /\ CountOf(t) = 1 /\ Counts(p) = 1
    BY <2>1, <1>t DEF InOrder, AtItem, CountOf, ProducerTasks
  <2>5. /\ permits' = permits + Counts(p) - CountOf(t) /\ permits' >= 0
        /\ used' = used - producer[p].held + t.held /\ used' <= MaxBytes
    BY <2>2, <2>3, <2>4, <1>t
  <2> HIDE DEF t
  <2> QED BY <2>1, <2>2, <2>3, <2>4, <2>5, KeepsItems
<1>8. CASE Send(p)
  BY <1>8, SendKeeps
<1>9. CASE HearCancel(p)
  <2>1. CASE ~At(p, "last")
    <3>1. Break(p) /\ UNCHANGED <<unmoved, arrived>> /\ cancelled' \in BOOLEAN
      BY <1>9, <2>1, <1>t DEF HearCancel
    <3> QED BY <3>1, LeavesAll
  <2>2. CASE At(p, "last")
    <3> DEFINE t == [producer[p] EXCEPT !.at = "ended"]
    <3>1. producer' = [producer EXCEPT ![p] = t] /\ producer[p].at = "last"
      BY <1>9, <2>2, <1>t DEF HearCancel, Goto, At
    <3>2. t \in ProducerTasks /\ t.todo = producer[p].todo /\ t.held = producer[p].held
          /\ t.passed = producer[p].passed
      BY <1>t DEF ProducerTasks, ProducerStages
    <3>3. InOrder(t) /\ CountOf(t) = 0 /\ Counts(p) = 0
      BY <3>1, <1>t DEF InOrder, AtItem, CountOf, ProducerTasks
    <3>4. UNCHANGED <<unmoved, arrived, cancelled, permits, used>>
      BY <1>9, <2>2 DEF HearCancel
    <3> HIDE DEF t
    <3> QED BY <3>1, <3>2, <3>3, <3>4, HoldsOn
  <2> QED BY <2>1, <2>2
<1> QED BY <1>1, <1>2, <1>3, <1>4, <1>5, <1>6, <1>7, <1>8, <1>9 DEF Local

(* What the servers decide: a chunk takes a byte more, if there is one.    *)
LEMMA ServerKeeps == ASSUME StagInv, NEW p \in Producers, Served(p) \/ Unserved(p) PROVE StagInv'
<1>t. /\ producer \in [Producers -> ProducerTasks] /\ producer[p] \in ProducerTasks
      /\ producer[p].todo \in Seq(Items) /\ InOrder(producer[p])
      /\ producer[p].held \in Nat /\ producer[p].got \in Nat /\ producer[p].held <= MaxBytes
      /\ permits \in Nat /\ used \in Nat /\ used <= MaxBytes /\ MaxBytes \in Nat
      /\ Counts(p) = CountOf(producer[p]) /\ cancelled \in BOOLEAN /\ Counts(p) \in Nat
      /\ producer[p].held <= used
  BY TaskHas
<1>1. CASE Opened(p)
  <2> DEFINE t == [producer[p] EXCEPT !.at = "count"]
  <2>1. producer' = [producer EXCEPT ![p] = t] /\ producer[p].at = "source"
    BY <1>1, <1>t DEF Opened, Goto, At
  <2>2. t \in ProducerTasks /\ t.todo = producer[p].todo /\ t.held = producer[p].held
        /\ t.passed = producer[p].passed
    BY <1>t DEF ProducerTasks, ProducerStages
  <2>3. InOrder(t) /\ CountOf(t) = 0 /\ Counts(p) = 0
    BY <2>1, <1>t DEF InOrder, AtItem, CountOf, ProducerTasks
  <2>4. UNCHANGED <<unmoved, arrived, cancelled, permits, used>>
    BY <1>1 DEF Opened
  <2> HIDE DEF t
  <2> QED BY <2>1, <2>2, <2>3, <2>4, HoldsOn
<1>2. CASE Skip(p)
  <2>1. producer[p].at \in AtItem /\ NextItem(p) /\ UNCHANGED <<unmoved, arrived>>
        /\ cancelled' \in BOOLEAN
    BY <1>2, <1>t DEF Skip, At, AtItem
  <2> QED BY <2>1, LeavesItem
<1>3. CASE SourceFails(p) \/ StreamFails(p)
  <2>1. Break(p) /\ UNCHANGED <<unmoved, arrived>> /\ cancelled' \in BOOLEAN
    BY <1>3 DEF SourceFails, StreamFails, DropRest
  <2> QED BY <2>1, LeavesAll
<1>4. CASE StreamSkipped(p)
  <2>1. producer[p].at \in AtItem /\ NextItem(p) /\ UNCHANGED <<unmoved, arrived>>
        /\ cancelled' \in BOOLEAN
    BY <1>4, <1>t DEF StreamSkipped, Broken, At, AtItem
  <2> QED BY <2>1, LeavesItem
<1>5. CASE Chunk(p)
  <2> DEFINE more == IF Grows(p) THEN 1 ELSE 0
             t == [producer[p] EXCEPT !.got = @ + 1, !.held = @ + more]
  <2>1. producer[p].at = "stream" /\ producer[p].got <= producer[p].held
        /\ producer[p].got < MaxBytes
    BY <1>5, <1>t DEF Chunk, At, InOrder
  <2>2. producer' = [producer EXCEPT ![p] = t]
    <3>1. CASE Grows(p)
      BY <1>5, <1>t, <3>1 DEF Chunk
    <3>2. CASE ~Grows(p)
      <4>1. producer[p].held + 0 = producer[p].held
        BY <1>t
      <4> QED BY <1>5, <1>t, <3>2, <4>1 DEF Chunk
    <3> QED BY <3>1, <3>2
  <2>3. /\ used' = used + more /\ more \in {0, 1} /\ (more = 1 => used < MaxBytes)
        /\ (more = 0 => producer[p].got < producer[p].held)
        /\ UNCHANGED <<unmoved, arrived, cancelled, permits>>
    BY <1>5, <1>t, <2>1 DEF Chunk, Grows
  <2> HIDE DEF more
  <2>4. t \in ProducerTasks /\ t.todo = producer[p].todo /\ t.held = producer[p].held + more
        /\ t.got = producer[p].got + 1 /\ t.passed = producer[p].passed /\ t.at = "stream"
    <3>1. producer[p].held + more \in Holdings /\ producer[p].got + 1 \in Holdings
      <4>1. CASE more = 0
        BY <2>1, <4>1, <1>t DEF Holdings
      <4>2. CASE more = 1
        BY <2>1, <2>3, <4>2, <1>t DEF Holdings
      <4> QED BY <4>1, <4>2, <2>3
    <3> QED BY <2>1, <3>1, <1>t DEF ProducerTasks
  <2>5. InOrder(t) /\ CountOf(t) = 1 /\ Counts(p) = 1
    BY <2>1, <2>3, <2>4, <1>t DEF InOrder, AtItem, CountOf
  <2>6. /\ permits' = permits + Counts(p) - CountOf(t) /\ permits' >= 0
        /\ used' = used - producer[p].held + t.held /\ used' <= MaxBytes
    BY <2>3, <2>4, <2>5, <1>t
  <2> HIDE DEF t
  <2> QED BY <2>2, <2>3, <2>4, <2>5, <2>6, KeepsItems
<1>6. CASE Again(p)
  <2> DEFINE t == [producer[p] EXCEPT !.got = 0, !.retried = TRUE]
  <2>1. producer' = [producer EXCEPT ![p] = t] /\ producer[p].at = "stream"
    BY <1>6, <1>t DEF Again, At
  <2>2. t \in ProducerTasks /\ t.todo = producer[p].todo /\ t.held = producer[p].held
        /\ t.passed = producer[p].passed
    <3>1. 0 \in Holdings
      BY <1>t DEF Holdings
    <3> QED BY <3>1, <1>t DEF ProducerTasks
  <2>3. InOrder(t) /\ CountOf(t) = 1 /\ Counts(p) = 1
    BY <2>1, <1>t DEF InOrder, AtItem, CountOf, ProducerTasks
  <2>4. UNCHANGED <<unmoved, arrived, cancelled, permits, used>>
    BY <1>6 DEF Again
  <2> HIDE DEF t
  <2> QED BY <2>1, <2>2, <2>3, <2>4, HoldsOn
<1> QED BY <1>1, <1>2, <1>3, <1>4, <1>5, <1>6 DEF Served, Unserved

LEMMA NoTrackIs == NoTrack \in Tracks /\ NoTrack.held = 0
<1>1. 0 \in Holdings
  BY StagingConstants DEF Holdings
<1> QED BY <1>1 DEF NoTrack, Tracks

LEMMA ProducersHold ==
  ASSUME StagTypeOK
  PROVE  HeldByProducers \in Nat /\ Cardinality(Counting) \in Nat
<1>1. IsFiniteSet(Producers) /\ Counting \in SUBSET Producers /\ MaxBytes \in Nat
  BY StagingConstants DEF Counting
<1>2. Cardinality(Counting) \in Nat
  BY <1>1, FS_Subset, FS_CardinalityType
<1>3. HeldByProducers \in Nat
  <2>1. IsFiniteSet(1 .. MaxBytes)
    BY <1>1, FS_Interval
  <2>2. IsFiniteSet(Producers \X (1 .. MaxBytes))
    BY <1>1, <2>1, FS_Product
  <2>3. Units([p \in Producers |-> producer[p].held]) \in SUBSET (Producers \X (1 .. MaxBytes))
    BY DEF Units
  <2>4. HeldByProducers = Cardinality(Units([p \in Producers |-> producer[p].held]))
    BY DEF HeldByProducers, Bytes, Units
  <2> QED BY <2>2, <2>3, <2>4, FS_Subset, FS_CardinalityType
<1> QED BY <1>2, <1>3

(* What the writer takes off the queue or has written gives its permits    *)
(* back; the rest of the accounts stays.                                   *)
LEMMA WriterAccount ==
  ASSUME StagInv, UNCHANGED <<plan, producer, arrived>>, cancelled' \in BOOLEAN,
         queue' \in Seq(Tracks), Len(queue') <= Len(queue),
         writer' \in [at : {"receive", "write", "join", "ended"}, track : Tracks, failed : BOOLEAN],
         WriterHolds', permits' \in Nat, used' \in Nat, permits' <= MaxTracks, used' <= MaxBytes,
         used' - used = Bytes(HeldOf(queue')) + writer'.track.held
                          - (Bytes(HeldOf(queue)) + writer.track.held),
         permits' - permits = Len(queue) + (IF writer.at = "write" THEN 1 ELSE 0)
                                - (Len(queue') + (IF writer'.at = "write" THEN 1 ELSE 0))
  PROVE  StagInv'
<1>1. /\ permits \in Nat /\ used \in Nat /\ Len(queue) \in Nat /\ Len(queue') \in Nat
      /\ Len(queue) <= MaxTracks /\ MaxTracks \in Nat /\ MaxBytes \in Nat
  BY StagingConstants DEF StagInv, StagTypeOK, Holdings
<1>2. StagTypeOK'
  <2>1. Len(queue') <= MaxTracks
    BY <1>1
  <2>2. permits' \in 0 .. MaxTracks /\ used' \in 0 .. MaxBytes
    BY <1>1
  <2> QED BY <2>1, <2>2 DEF StagInv, StagTypeOK, Holdings
<1>3. HeldByProducers' = HeldByProducers /\ Counting' = Counting
  BY DEF HeldByProducers, Bytes, Counting, Counts
<1>4. HeldByProducers \in Nat /\ Cardinality(Counting) \in Nat
  BY ProducersHold DEF StagInv
<1>5. /\ used = HeldByProducers + Bytes(HeldOf(queue)) + writer.track.held
      /\ permits + Cardinality(Counting) + Len(queue)
           + (IF writer.at = "write" THEN 1 ELSE 0) = MaxTracks
  BY DEF StagInv, BudgetKept, HeldByProducers, HeldOf
<1>6. used' = HeldByProducers + Bytes(HeldOf(queue')) + writer'.track.held
  <2> DEFINE theirs == HeldByProducers
             others == Bytes(HeldOf(queue))
             then == Bytes(HeldOf(queue'))
             rest == writer.track.held
             left == writer'.track.held
             all == used
             now == used'
  <2>1. others \in Nat /\ rest \in Nat
    BY QueueHolds DEF StagInv
  <2>2. then \in Nat /\ left \in Nat
    <3>1. writer'.track \in Tracks
      OBVIOUS
    <3> QED BY <3>1, QueueBytes, TracksHold
  <2>3. /\ all = theirs + others + rest /\ now - all = then + left - (others + rest)
        /\ all \in Nat /\ now \in Nat /\ theirs \in Nat
    BY <1>1, <1>4, <1>5
  <2> HIDE DEF theirs, others, then, rest, left, all, now
  <2>4. now = theirs + then + left
    BY <2>1, <2>2, <2>3
  <2> QED BY <2>4 DEF theirs, then, left, now
<1>7. permits' + Cardinality(Counting) + Len(queue')
        + (IF writer'.at = "write" THEN 1 ELSE 0) = MaxTracks
  <2> DEFINE w == IF writer.at = "write" THEN 1 ELSE 0
             v == IF writer'.at = "write" THEN 1 ELSE 0
             c == Cardinality(Counting)
             l == Len(queue)
             m == Len(queue')
             a == permits
             b == permits'
  <2>1. /\ a + c + l + w = MaxTracks /\ b - a = l + w - (m + v) /\ w \in Nat /\ v \in Nat
        /\ c \in Nat /\ l \in Nat /\ m \in Nat /\ a \in Nat /\ b \in Nat
    BY <1>1, <1>4, <1>5
  <2> HIDE DEF w, v, c, l, m, a, b
  <2>2. b + c + m + v = MaxTracks
    BY <2>1, <1>1
  <2> QED BY <2>2 DEF v, c, m, b
<1>8. BudgetKept'
  BY <1>3, <1>6, <1>7 DEF BudgetKept, HeldByProducers, HeldOf
<1>9. Barred'
  BY DEF StagInv, Barred
<1> QED BY <1>2, <1>8, <1>9 DEF StagInv

LEMMA WriterKeeps == ASSUME StagInv, WriterStep \/ RequestCancel PROVE StagInv'
<1>t. /\ writer \in [at : {"receive", "write", "join", "ended"}, track : Tracks, failed : BOOLEAN]
      /\ queue \in Seq(Tracks) /\ Len(queue) \in Nat /\ cancelled \in BOOLEAN
      /\ permits \in Nat /\ used \in Nat /\ permits <= MaxTracks /\ used <= MaxBytes
      /\ MaxTracks \in Nat /\ MaxBytes \in Nat /\ writer.track \in Tracks
      /\ WriterHolds
  BY StagingConstants DEF StagInv, StagTypeOK, Holdings
<1>h. Bytes(HeldOf(queue)) \in Nat /\ writer.track.held \in Nat
  BY QueueHolds DEF StagInv
<1>a. /\ HeldByProducers \in Nat /\ Cardinality(Counting) \in Nat
      /\ used = HeldByProducers + Bytes(HeldOf(queue)) + writer.track.held
      /\ permits + Cardinality(Counting) + Len(queue)
           + (IF writer.at = "write" THEN 1 ELSE 0) = MaxTracks
  BY ProducersHold DEF StagInv, BudgetKept, HeldByProducers, HeldOf
<1>n. NoTrack \in Tracks /\ NoTrack.held = 0
  BY <1>t, NoTrackIs
<1>1. CASE Receive
  <2> DEFINE k == Head(queue)
  <2>1. /\ writer.at = "receive" /\ queue # <<>> /\ queue' = Tail(queue)
        /\ UNCHANGED <<plan, producer, arrived, cancelled>>
    BY <1>1 DEF Receive, still
  <2>2. /\ Bytes(HeldOf(queue')) = Bytes(HeldOf(queue)) - k.held
        /\ Bytes(HeldOf(queue')) \in Nat /\ k \in Tracks /\ k.held \in Nat
    <3>1. Bytes(HeldOf(queue')) = Bytes(HeldOf(queue)) - k.held
          /\ Bytes(HeldOf(queue')) \in Nat /\ k \in Tracks
      BY <2>1, <1>t, BytesTail
    <3>2. k.held \in 0 .. MaxBytes
      BY <3>1 DEF Tracks, Holdings
    <3> QED BY <3>1, <3>2, <1>t
  <2>3. queue' \in Seq(Tracks) /\ Len(queue') = Len(queue) - 1 /\ Len(queue) > 0
    BY <2>1, <1>t
  <2>4. writer.track.held = 0
    BY <2>1, <1>t DEF WriterHolds
  <2>5. CASE writer.failed \/ cancelled
    <3>1. permits' = permits + 1 /\ used' = used - k.held /\ writer' = writer
      BY <1>1, <2>5 DEF Receive, GiveBack
    <3>2. permits' <= MaxTracks /\ permits' \in Nat
      BY <3>1, <2>1, <2>3, <1>t, <1>a
    <3>3. used' \in Nat /\ used' <= MaxBytes
      <4> DEFINE theirs == HeldByProducers
                 others == Bytes(HeldOf(queue))
                 then == Bytes(HeldOf(queue'))
                 kept == k.held
      <4>1. /\ used = theirs + others /\ then = others - kept /\ then \in Nat
            /\ theirs \in Nat /\ others \in Nat /\ kept \in Nat /\ used' = used - kept
            /\ used <= MaxBytes /\ MaxBytes \in Nat
        BY <3>1, <2>2, <2>4, <1>t, <1>a, <1>h
      <4> HIDE DEF theirs, others, then, kept, k
      <4> QED BY <4>1
    <3>4. used' - used = Bytes(HeldOf(queue')) + writer'.track.held
                           - (Bytes(HeldOf(queue)) + writer.track.held)
      BY <3>1, <2>2, <2>4, <1>t, <1>h
    <3>5. permits' - permits = Len(queue) + (IF writer.at = "write" THEN 1 ELSE 0)
                                 - (Len(queue') + (IF writer'.at = "write" THEN 1 ELSE 0))
      BY <3>1, <2>1, <2>3, <1>t
    <3>6. WriterHolds' /\ cancelled' \in BOOLEAN /\ Len(queue') <= Len(queue)
      BY <3>1, <2>1, <2>3, <1>t DEF WriterHolds
    <3>7. writer' \in [at : {"receive", "write", "join", "ended"}, track : Tracks, failed : BOOLEAN]
      BY <3>1, <1>t
    <3> QED BY <2>1, <2>3, <3>2, <3>3, <3>4, <3>5, <3>6, <3>7, WriterAccount
  <2>6. CASE ~(writer.failed \/ cancelled)
    <3>1. /\ writer' = [writer EXCEPT !.at = "write", !.track = k]
          /\ permits' = permits /\ used' = used
      BY <1>1, <2>6 DEF Receive
    <3>2. writer'.at = "write" /\ writer'.track = k
      BY <3>1, <1>t
    <3>4. used' - used = Bytes(HeldOf(queue')) + writer'.track.held
                           - (Bytes(HeldOf(queue)) + writer.track.held)
      BY <3>1, <3>2, <2>2, <2>4, <1>t, <1>h
    <3>5. permits' - permits = Len(queue) + (IF writer.at = "write" THEN 1 ELSE 0)
                                 - (Len(queue') + (IF writer'.at = "write" THEN 1 ELSE 0))
      BY <3>1, <3>2, <2>1, <2>3, <1>t
    <3>6. WriterHolds' /\ cancelled' \in BOOLEAN /\ Len(queue') <= Len(queue)
      BY <3>2, <2>1, <2>3, <1>t DEF WriterHolds
    <3>7. writer' \in [at : {"receive", "write", "join", "ended"}, track : Tracks, failed : BOOLEAN]
      BY <3>1, <2>2, <1>t
    <3> QED BY <2>1, <2>3, <3>1, <3>4, <3>5, <3>6, <3>7, <1>t, WriterAccount
  <2> QED BY <2>5, <2>6
<1>2. CASE TrackWritten \/ WriteFails
  <2>1. /\ writer.at = "write" /\ permits' = permits + 1 /\ used' = used - writer.track.held
        /\ queue' = queue /\ UNCHANGED <<plan, producer, arrived>>
    BY <1>2 DEF TrackWritten, WriteFails, GiveBack, still
  <2>2. /\ writer' \in [at : {"receive", "write", "join", "ended"}, track : Tracks, failed : BOOLEAN]
        /\ writer'.at = "receive" /\ writer'.track = NoTrack /\ cancelled' \in BOOLEAN
    <3>1. CASE TrackWritten
      BY <3>1, <1>t, <1>n DEF TrackWritten, still
    <3>2. CASE WriteFails
      BY <3>2, <1>n DEF WriteFails
    <3> QED BY <3>1, <3>2, <1>2
  <2>3. permits' <= MaxTracks /\ permits' \in Nat
    BY <2>1, <1>t, <1>a
  <2>4. used' \in Nat /\ used' <= MaxBytes
    <3> DEFINE theirs == HeldByProducers
               others == Bytes(HeldOf(queue))
               kept == writer.track.held
    <3>1. /\ used = theirs + others + kept /\ theirs \in Nat /\ others \in Nat /\ kept \in Nat
          /\ used' = used - kept /\ used <= MaxBytes /\ MaxBytes \in Nat
      BY <2>1, <1>t, <1>a, <1>h
    <3> HIDE DEF theirs, others, kept
    <3> QED BY <3>1
  <2>5. used' - used = Bytes(HeldOf(queue')) + writer'.track.held
                         - (Bytes(HeldOf(queue)) + writer.track.held)
    BY <2>1, <2>2, <1>t, <1>h, <1>n
  <2>6. permits' - permits = Len(queue) + (IF writer.at = "write" THEN 1 ELSE 0)
                               - (Len(queue') + (IF writer'.at = "write" THEN 1 ELSE 0))
    BY <2>1, <2>2, <1>t
  <2>7. WriterHolds' /\ Len(queue') <= Len(queue) /\ queue' \in Seq(Tracks)
    BY <2>1, <2>2, <1>n, <1>t DEF WriterHolds
  <2> QED BY <2>1, <2>2, <2>3, <2>4, <2>5, <2>6, <2>7, WriterAccount
<1>3. CASE Close \/ Join
  <2>1. /\ writer.at \in {"receive", "join"} /\ UNCHANGED <<permits, used, queue, cancelled>>
        /\ UNCHANGED <<plan, producer, arrived>>
    BY <1>3 DEF Close, Join, still
  <2>2. /\ writer' \in [at : {"receive", "write", "join", "ended"}, track : Tracks, failed : BOOLEAN]
        /\ writer'.at \in {"join", "ended"} /\ writer'.track = writer.track
    BY <1>3, <1>t DEF Close, Join
  <2>3. used' - used = Bytes(HeldOf(queue')) + writer'.track.held
                         - (Bytes(HeldOf(queue)) + writer.track.held)
    BY <2>1, <2>2, <1>t, <1>h
  <2>4. permits' - permits = Len(queue) + (IF writer.at = "write" THEN 1 ELSE 0)
                               - (Len(queue') + (IF writer'.at = "write" THEN 1 ELSE 0))
    BY <2>1, <2>2, <1>t
  <2>5. WriterHolds' /\ Len(queue') <= Len(queue) /\ queue' \in Seq(Tracks) /\ cancelled' \in BOOLEAN
    BY <2>1, <2>2, <1>t DEF WriterHolds
  <2> QED BY <2>1, <2>2, <2>3, <2>4, <2>5, <1>t, WriterAccount
<1>4. CASE RequestCancel
  <2>1. cancelled' \in BOOLEAN
           /\ UNCHANGED <<plan, producer, arrived, permits, used, queue, writer>>
    BY <1>4 DEF RequestCancel
  <2> QED BY <2>1 DEF StagInv, StagTypeOK, BudgetKept, Barred, WriterHolds, Counting, Counts, Bytes
<1> QED BY <1>1, <1>2, <1>3, <1>4 DEF WriterStep

LEMMA StagStarts == ASSUME StagInit PROVE StagInv
<1> USE DEF StagInit
<1>1. /\ plan \in [Producers -> Seq(Items)] /\ MaxTracks \in Nat /\ MaxBytes \in Nat
      /\ IsFiniteSet(Producers)
  BY StagingConstants
<1>2. \A p \in Producers : Sorted(plan[p]) \in Seq(Items) /\ ManualThenAuto(Sorted(plan[p]))
  BY <1>1, SortedIsSorted
<1>3. \A p \in Producers : /\ producer[p] \in ProducerTasks /\ producer[p].held = 0
                           /\ InOrder(producer[p]) /\ ~producer[p].passed
                           /\ producer[p].at = "next"
  <2> SUFFICES ASSUME NEW p \in Producers
               PROVE  /\ producer[p] \in ProducerTasks /\ producer[p].held = 0
                      /\ InOrder(producer[p]) /\ ~producer[p].passed /\ producer[p].at = "next"
    OBVIOUS
  <2>1. producer[p] = [at |-> "next", todo |-> Sorted(plan[p]), held |-> 0, got |-> 0,
                       retried |-> FALSE, passed |-> FALSE]
    BY DEF Unbegun
  <2>2. 0 \in Holdings /\ "next" \in ProducerStages
    BY <1>1 DEF Holdings, ProducerStages
  <2>3. producer[p] \in ProducerTasks
    BY <1>2, <2>1, <2>2 DEF ProducerTasks
  <2>4. InOrder(producer[p])
    BY <1>2, <2>1 DEF InOrder, AtItem
  <2> QED BY <2>1, <2>3, <2>4
<1>4. StagTypeOK
  <2>1. NoTrack \in Tracks /\ 0 \in Holdings /\ <<>> \in Seq(Tracks) /\ Len(<<>>) <= MaxTracks
    BY <1>1, NoTrackIs DEF Holdings
  <2>2. producer \in [Producers -> ProducerTasks]
    BY <1>3
  <2>3. writer \in [at : {"receive", "write", "join", "ended"}, track : Tracks, failed : BOOLEAN]
    BY <2>1
  <2>4. permits \in 0 .. MaxTracks /\ used \in Holdings /\ cancelled \in BOOLEAN
    <3>1. permits = MaxTracks /\ used = 0 /\ cancelled = FALSE
      OBVIOUS
    <3>2. permits \in 0 .. MaxTracks
      BY <3>1, <1>1
    <3> QED BY <3>1, <3>2, <2>1
  <2>5. queue \in Seq(Tracks) /\ Len(queue) <= MaxTracks /\ plan \in Plans
        /\ arrived \subseteq Producers
    BY <2>1
  <2> QED BY <2>2, <2>3, <2>4, <2>5 DEF StagTypeOK
<1>5. BudgetKept
  <2>1. Units([p \in Producers |-> producer[p].held]) = {} /\ Units(HeldOf(queue)) = {}
    <3>1. [p \in Producers |-> producer[p].held] = [p \in Producers |-> 0]
      BY <1>3
    <3>2. Units([p \in Producers |-> 0]) = {}
      BY <1>1 DEF Units
    <3>3. Units(HeldOf(queue)) = {}
      BY DEF Units, HeldOf
    <3> QED BY <3>1, <3>2, <3>3
  <2>2. Counting = {}
    <3>1. \A p \in Producers : Counts(p) = 0
      BY <1>3 DEF Counts
    <3> QED BY <3>1 DEF Counting
  <2>3. /\ Bytes([p \in Producers |-> producer[p].held]) = 0
        /\ Bytes([n \in DOMAIN queue |-> queue[n].held]) = 0
    <3>1. /\ Bytes([p \in Producers |-> producer[p].held])
               = Cardinality(Units([p \in Producers |-> producer[p].held]))
          /\ Bytes(HeldOf(queue)) = Cardinality(Units(HeldOf(queue)))
      BY DEF Bytes, Units
    <3> QED BY <2>1, <3>1, FS_EmptySet DEF HeldOf
  <2>4. Cardinality(Counting) = 0
    BY <2>2, FS_EmptySet
  <2> QED BY <1>1, <2>3, <2>4 DEF BudgetKept, NoTrack
<1>6. Barred /\ WriterHolds
  BY <1>3 DEF Barred, WriterHolds, NoTrack
<1> QED BY <1>4, <1>5, <1>6 DEF StagInv

LEMMA StagStep == ASSUME StagInv, [StagNext]_stagVars PROVE StagInv'
<1>1. CASE UNCHANGED stagVars
  BY <1>1 DEF stagVars, StagInv, StagTypeOK, BudgetKept, Barred, WriterHolds, Counting, Counts, Bytes
<1> QED BY <1>1, LocalKeeps, ServerKeeps, WriterKeeps DEF StagNext

(* Who begins with auto-fill has passed the barrier, at which all arrived. *)
LEMMA StagInvSays == ASSUME StagInv PROVE StagingSafe
<1>1. ManualFirst
  <2> SUFFICES ASSUME NEW p \in Producers, Fetching(p), Item(p).auto,
                      NEW q \in Producers, NEW i \in Range(producer[q].todo)
               PROVE  i.auto
    BY DEF ManualFirst
  <2>1. arrived = Producers
    BY TaskHas DEF StagInv, Barred, Fetching, Item, InOrder, AtItem
  <2>2. AllAuto(producer[q].todo) /\ producer[q].todo \in Seq(Items)
    BY <2>1, TaskHas DEF StagInv, Barred
  <2>3. PICK n \in 1 .. Len(producer[q].todo) : i = producer[q].todo[n]
    BY <2>2 DEF Range
  <2> QED BY <2>2, <2>3 DEF AllAuto
<1> QED BY <1>1 DEF StagInv, StagingSafe

(* For any servers, items and budgets, with sizes announced too small or   *)
(* too large, retries, failures and a cancellation at any time: every      *)
(* permit is held by one track, the queue and the budget are never         *)
(* exceeded, and what the user chose goes first, over all servers          *)
(* (sync.rs, execute_provider_sync and StagedByteLimiter).                 *)
THEOREM StagingIsSafe == StagSpec => []StagingSafe
<1>1. StagInv /\ [StagNext]_stagVars => StagInv'
  BY StagStep
<1> QED BY StagStarts, <1>1, StagInvSays, PTL DEF StagSpec
=============================================================================
