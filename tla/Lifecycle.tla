----------------------------- MODULE Lifecycle ------------------------------
(***************************************************************************)
(* How windows and daemons find each other: through files in one runtime   *)
(* directory and two advisory locks.  A window that finds no daemon writes *)
(* a ticket and starts a candidate with it; the candidate that gets the    *)
(* owner lock publishes owner.json.  An explicit Quit advances a durable   *)
(* generation that fences every launch begun before it.                    *)
(*                                                                         *)
(* Deadlines are choices.  What a thread of the window does after its      *)
(* attempt was replaced is left out: all of it is behind current(epoch).   *)
(***************************************************************************)
EXTENDS Naturals, FiniteSets

CONSTANTS
  Windows,    \* processes of the user interface
  Launches,   \* launch attempts, and the candidates started for them: 1..n
  Budgets     \* how much may go wrong or be asked for in a behaviour

(* Processes have numbers.                                                 *)
ASSUME ProcessesAssumption ==
  /\ Windows \subseteq Nat \ {0} /\ Launches \subseteq Nat \ {0}
  /\ Windows \cap Launches = {} /\ Budgets \subseteq Nat

VARIABLES
  generation,   \* launch-generation.json
  descriptor,   \* owner.json: the launch that published it, or Nobody
  tickets,      \* attempt-*.json that are neither cancelled nor expired
  failures,     \* failure-*.json
  ownerLock,    \* owner.lock: free, a launch, or a window that probes
  ticketLock,   \* launch-ticket.lock: free, or the launch that publishes
  window, daemon,
  budget,
  withdrawn,    \* history: the attempts their window cancelled
  faultless     \* history: nothing was allowed to go wrong

fileVars == <<generation, descriptor, tickets, failures, ownerLock, ticketLock>>
vars == <<fileVars, window, daemon, budget, withdrawn, faultless>>

Free == 0
Nobody == 0
NoWindow == 0

Init ==
  /\ generation = 0 /\ descriptor = Nobody /\ tickets = {} /\ failures = {}
  /\ ownerLock = Free /\ ticketLock = Free
  /\ window = [w \in Windows |->
                 [at |-> "begin", gen |-> 0, ticket |-> Nobody, slow |-> FALSE, saw |-> Nobody,
                  status |-> "starting"]]
  /\ daemon = [d \in Launches |-> [at |-> "none", gen |-> 0, from |-> NoWindow]]
  /\ budget \in Budgets /\ faultless = (budget = 0) /\ withdrawn = {}

Goes(w, stage) == window' = [window EXCEPT ![w].at = stage]
Steps(d, stage) == daemon' = [daemon EXCEPT ![d].at = stage]
Spend == budget > 0 /\ budget' = budget - 1
Fresh(d) == \A e \in Launches : daemon[e].at = "none" <=> e >= d
Unspent == UNCHANGED <<budget, faultless>>

(* What a daemon answers to daemon.health: it does from the start of its   *)
(* core to the end of its process, and its identity is compared.           *)
Health(d) ==
  CASE d # Nobody /\ daemon[d].at \in {"ready", "fenced", "published", "opening", "serving", "orphan"} -> "ready"
    [] d # Nobody /\ daemon[d].at \in {"quitting", "draining"} -> "stopping"
    [] OTHER -> "silent"

(***************************************************************************)
(* A window: coordinate_daemon_at.                                         *)
(***************************************************************************)
besidesWindow == <<daemon, withdrawn>>
Settle(w, status) ==
  window' = [window EXCEPT ![w].at = "end", ![w].status = status]

Begin(w) ==
  /\ window[w].at = "begin"
  /\ window' = [window EXCEPT ![w] = [@ EXCEPT !.at = "look", !.gen = generation,
                                               !.slow = FALSE, !.status = "starting"]]
  /\ UNCHANGED <<fileVars, besidesWindow>> /\ Unspent

Look(w) ==
  /\ window[w].at = "look"
  /\ CASE generation # window[w].gen -> Settle(w, "stopped")
       [] generation = window[w].gen /\ window[w].ticket \in failures -> Settle(w, "failed")
       [] OTHER -> Goes(w, "read")
  /\ UNCHANGED <<fileVars, besidesWindow>> /\ Unspent

Read(w) ==
  /\ window[w].at = "read"
  /\ window' = [window EXCEPT ![w].saw = descriptor, ![w].at = "ask"]
  /\ UNCHANGED <<fileVars, besidesWindow>> /\ Unspent

(* Once the lock was seen taken no election is tried again.                *)
Ask(w) ==
  /\ window[w].at = "ask"
  /\ CASE Health(window[w].saw) = "ready" -> Settle(w, "ready")
       [] Health(window[w].saw) = "stopping" -> Settle(w, "stopped")
       [] OTHER -> Goes(w, IF window[w].ticket = Nobody /\ ~window[w].slow THEN "elect" ELSE "look")
  /\ UNCHANGED <<fileVars, besidesWindow>> /\ Unspent

Probe(w) ==
  /\ window[w].at = "elect"
  /\ IF ownerLock = Free THEN ownerLock' = w /\ Goes(w, "probing")
     ELSE window' = [window EXCEPT ![w].slow = TRUE, ![w].at = "look"] /\ UNCHANGED ownerLock
  /\ UNCHANGED <<generation, descriptor, tickets, failures, ticketLock, besidesWindow>> /\ Unspent

(* The lock is given back before the candidate is started.                 *)
Spawn(w) ==
  /\ window[w].at = "probing" /\ ownerLock' = Free
  /\ IF generation # window[w].gen
     THEN Settle(w, "stopped") /\ UNCHANGED <<tickets, daemon>>
     ELSE \E d \in Launches :
            /\ Fresh(d) /\ ticketLock = Free /\ tickets' = tickets \cup {d}
            /\ daemon' = [daemon EXCEPT ![d] = [at |-> "begin", gen |-> window[w].gen, from |-> w]]
            /\ window' = [window EXCEPT ![w].ticket = d, ![w].at = "look"]
  /\ UNCHANGED <<generation, descriptor, failures, ticketLock, withdrawn>> /\ Unspent

(* The deadline passes, or the start of the process fails.                 *)
Expire(w) ==
  /\ window[w].at \in {"look", "read", "ask", "elect"} /\ Spend /\ Settle(w, "failed")
  /\ UNCHANGED <<fileVars, besidesWindow, faultless>>

(* However it ended, the attempt's files go; a candidate that still runs   *)
(* has lost its ticket.                                                    *)
Withdraw(w) ==
  LET d == window[w].ticket IN
  /\ window[w].at \in {"end", "replaced"} /\ (d = Nobody \/ ticketLock = Free)
  /\ tickets' = tickets \ {d} /\ failures' = failures \ {d}
  /\ withdrawn' = withdrawn \cup ({d} \ {Nobody})
  /\ window' = [window EXCEPT ![w].ticket = Nobody,
                              ![w].at = IF @ = "end" THEN "rest" ELSE "begin"]
  /\ UNCHANGED <<generation, descriptor, ownerLock, ticketLock, daemon>> /\ Unspent

(* The user asks again, at the end of an attempt or in the middle of it.   *)
Retry(w) ==
  /\ window[w].at \notin {"begin", "probing", "replaced", "end"} /\ Spend
  /\ window' = [window EXCEPT ![w].at = "replaced", ![w].status = "starting"]
  /\ UNCHANGED <<fileVars, besidesWindow, faultless>>

(***************************************************************************)
(* A candidate: run_candidate, and the daemon it becomes.                  *)
(***************************************************************************)
besidesDaemon == <<window, withdrawn>>
Ticket(d) == d \in tickets
Current(d) == generation = daemon[d].gen
Own(d) == IF descriptor = d THEN Nobody ELSE descriptor
Release(d) ==
  /\ ownerLock' = (IF ownerLock = d THEN Free ELSE ownerLock)
  /\ ticketLock' = (IF ticketLock = d THEN Free ELSE ticketLock)

(* Started by hand or at login, without a window.                          *)
Launch(d) ==
  /\ Fresh(d) /\ Spend
  /\ daemon' = [daemon EXCEPT ![d] = [at |-> "alone", gen |-> generation, from |-> NoWindow]]
  /\ UNCHANGED <<fileVars, besidesDaemon, faultless>>
OwnTicket(d) ==
  /\ daemon[d].at = "alone" /\ ticketLock = Free /\ tickets' = tickets \cup {d} /\ Steps(d, "begin")
  /\ UNCHANGED <<generation, descriptor, failures, ownerLock, ticketLock, besidesDaemon>> /\ Unspent

(* The guard is dropped: its owner.json is removed, its lock given back.   *)
Drops(d) == Release(d) /\ descriptor' = Own(d) /\ UNCHANGED <<generation, besidesDaemon>>
Ends(d) == Steps(d, "dead") /\ Drops(d)
Published(d) == IF daemon[d].from # NoWindow THEN failures \cup {d} ELSE failures

(* A candidate that fails before it started its core does nothing more but *)
(* publish the reason.  One that fails after drops its guard first: its    *)
(* core is a thread that nobody waits for, and goes on without the lock    *)
(* until the process, its reason published, ends.                          *)
Fails(d) == Ends(d) /\ failures' = Published(d)
Abandons(d) == Steps(d, "orphan") /\ Drops(d) /\ UNCHANGED failures
Exit(d) ==
  /\ daemon[d].at = "orphan" /\ Steps(d, "dead") /\ failures' = Published(d)
  /\ UNCHANGED <<generation, descriptor, tickets, ownerLock, ticketLock, besidesDaemon>> /\ Unspent

Validate(d) ==
  /\ daemon[d].at = "begin" /\ ticketLock = Free
  /\ IF Ticket(d) THEN Steps(d, "lock") /\ UNCHANGED <<fileVars, besidesDaemon>>
     ELSE Fails(d) /\ UNCHANGED tickets
  /\ Unspent

Acquire(d) ==
  /\ daemon[d].at = "lock"
  /\ IF ownerLock = Free THEN ownerLock' = d /\ Steps(d, "owner")
     ELSE Steps(d, "attach") /\ UNCHANGED ownerLock
  /\ UNCHANGED <<generation, descriptor, tickets, failures, ticketLock, besidesDaemon>> /\ Unspent

(* The loop of a candidate that found the lock taken.                      *)
Attach(d) ==
  /\ daemon[d].at = "attach" /\ ticketLock = Free
  /\ \/ (~Ticket(d) \/ ~Current(d) \/ Health(descriptor) = "stopping")
        /\ Fails(d) /\ UNCHANGED tickets
     \/ Ticket(d) /\ Current(d) /\ Health(descriptor) = "ready"
        /\ Ends(d) /\ tickets' = tickets \ {d} /\ UNCHANGED failures
  /\ Unspent

Verify(d) ==
  /\ daemon[d].at = "owner" /\ ticketLock = Free
  /\ IF Current(d) /\ Ticket(d) THEN Steps(d, "start") /\ UNCHANGED <<fileVars, besidesDaemon>>
     ELSE Fails(d) /\ UNCHANGED tickets
  /\ Unspent

CoreReady(d) ==
  /\ daemon[d].at = "start" /\ Steps(d, "ready") /\ UNCHANGED <<fileVars, besidesDaemon>> /\ Unspent

(* Seeded bug: the ticket is looked at without its lock.                   *)
FenceUnlocked(d) ==
  /\ daemon[d].at = "ready"
  /\ IF Ticket(d) THEN Steps(d, "fenced") /\ UNCHANGED <<fileVars, besidesDaemon>>
     ELSE Abandons(d) /\ UNCHANGED tickets
  /\ Unspent

(* The ticket is valid and stays so until owner.json is there.             *)
Fence(d) ==
  /\ daemon[d].at = "ready" /\ ticketLock = Free
  /\ IF Ticket(d)
     THEN /\ ticketLock' = d /\ Steps(d, "fenced")
          /\ UNCHANGED <<generation, descriptor, tickets, failures, ownerLock, besidesDaemon>>
     ELSE Abandons(d) /\ UNCHANGED tickets
  /\ Unspent

Publish(d) ==
  /\ daemon[d].at = "fenced" /\ descriptor' = d /\ ticketLock' = Free /\ Steps(d, "published")
  /\ UNCHANGED <<generation, tickets, failures, ownerLock, besidesDaemon>> /\ Unspent

Serve(d) ==
  /\ daemon[d].at = "published" /\ ticketLock = Free /\ tickets' = tickets \ {d}
  /\ Steps(d, "opening")
  /\ UNCHANGED <<generation, descriptor, failures, ownerLock, ticketLock, besidesDaemon>> /\ Unspent

(* The tray is built, and the event loop begins.                           *)
Open(d) ==
  /\ daemon[d].at = "opening" /\ Steps(d, "serving") /\ UNCHANGED <<fileVars, besidesDaemon>> /\ Unspent

(* A deadline, an error of the core, a ticket that cannot be removed, an   *)
(* icon or a tray that cannot be built.                                    *)
Falter(d) ==
  /\ \/ daemon[d].at \in {"begin", "attach", "owner"} /\ Fails(d)
     \/ daemon[d].at \in {"start", "ready", "fenced", "published", "opening"} /\ Abandons(d)
  /\ Spend /\ UNCHANGED <<tickets, faultless>>

Crash(d) ==
  /\ daemon[d].at \notin {"none", "dead"} /\ Spend /\ Steps(d, "dead") /\ Release(d)
  /\ UNCHANGED <<generation, descriptor, tickets, failures, besidesDaemon, faultless>>

Quit(d) ==
  /\ daemon[d].at = "serving" /\ Spend /\ Steps(d, "quitting")
  /\ UNCHANGED <<fileVars, besidesDaemon, faultless>>

(* The fence is stored; or it is not, or it is not known to be, and the    *)
(* daemon goes on.                                                         *)
Advance(d) ==
  /\ daemon[d].at = "quitting"
  /\ \/ generation' = generation + 1 /\ Steps(d, "draining") /\ Unspent
     \/ generation' \in {generation, generation + 1} /\ Steps(d, "serving") /\ Spend
        /\ UNCHANGED faultless
  /\ UNCHANGED <<descriptor, tickets, failures, ownerLock, ticketLock, besidesDaemon>>

(* The core has ended before the guard is dropped.                         *)
Leave(d) ==
  /\ daemon[d].at = "draining" /\ Ends(d) /\ UNCHANGED <<tickets, failures>> /\ Unspent

-----------------------------------------------------------------------------
WindowStep(w) == Begin(w) \/ Look(w) \/ Read(w) \/ Ask(w) \/ Probe(w) \/ Spawn(w) \/ Withdraw(w)
DaemonStep(d) ==
  \/ OwnTicket(d) \/ Validate(d) \/ Acquire(d) \/ Attach(d) \/ Verify(d) \/ CoreReady(d)
  \/ Fence(d) \/ Publish(d) \/ Serve(d) \/ Open(d) \/ Advance(d) \/ Leave(d) \/ Exit(d)

Next ==
  \/ \E w \in Windows : WindowStep(w) \/ Expire(w) \/ Retry(w)
  \/ \E d \in Launches : DaemonStep(d) \/ Launch(d) \/ Falter(d) \/ Crash(d) \/ Quit(d)

Spec == Init /\ [][Next]_vars

-----------------------------------------------------------------------------
Stages == {"none", "alone", "begin", "lock", "attach", "owner", "start", "ready", "fenced",
           "published", "opening", "serving", "quitting", "draining", "orphan", "dead"}
WindowStages == {"begin", "look", "read", "ask", "elect", "probing", "replaced", "end", "rest"}
TypeOK ==
  /\ generation \in Nat /\ budget \in Nat /\ descriptor \in Launches \cup {Nobody}
  /\ tickets \subseteq Launches /\ failures \subseteq Launches /\ withdrawn \subseteq Launches
  /\ ownerLock \in {Free} \cup Windows \cup Launches /\ ticketLock \in {Free} \cup Launches
  /\ daemon \in [Launches -> [at : Stages, gen : 0..generation, from : Windows \cup {NoWindow}]]
  /\ window \in [Windows ->
       [at : WindowStages, gen : 0..generation, ticket : Launches \cup {Nobody}, slow : BOOLEAN,
        saw : Launches \cup {Nobody}, status : {"starting", "ready", "stopped", "failed"}]]

(* Who has a core: a database open, observers and requests served.         *)
Owning == {"start", "ready", "fenced", "published", "opening", "serving", "quitting", "draining"}
Core(d) == daemon[d].at \in Owning \cup {"orphan"}

(* Of the cores over one database one at most has the owner lock and a     *)
(* launch that goes on, whatever crashed before; any other is of a launch  *)
(* that failed, is on its way out, and has left nothing to find it by.     *)
OneDaemon ==
  /\ \A d \in Launches : daemon[d].at \in Owning => ownerLock = d
  /\ \A d \in Launches : daemon[d].at = "orphan" => descriptor # d /\ ownerLock # d /\ ticketLock # d

(* "Competing players" are meant to be impossible: never two cores over    *)
(* one database.  A launch that fails after it started its core gives the  *)
(* lock back before its process ends, and the next one need not wait.      *)
OneCore == \A d, e \in Launches : Core(d) /\ Core(e) => d = e

(* An explicit Quit is final for every launch begun before it, and so is a *)
(* window's giving up: who is about to publish owner.json has the lock and *)
(* the generation, and nobody has withdrawn it, however late it came there.*)
FencedStands ==
  \A d \in Launches : daemon[d].at = "fenced" =>
    ownerLock = d /\ daemon[d].gen = generation /\ d \notin withdrawn

(* Never two owners; none comes up after the explicit Quit that fenced     *)
(* it, or after its window gave up on it.                                  *)
DaemonsSafe == TypeOK /\ OneDaemon /\ FencedStands

(* When nothing goes wrong every window gets its daemon, whoever started   *)
(* first and whichever locks they found taken.                             *)
WindowsServed == \A w \in Windows : faultless ~> window[w].status = "ready"
=============================================================================
