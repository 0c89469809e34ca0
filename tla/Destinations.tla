---------------------------- MODULE Destinations ----------------------------
(***************************************************************************)
(* Where the user is: at Playback, at a managed device, or at one that is  *)
(* still to be set up.  Observers poll the machine and send what they find *)
(* to the event loop; requests of the window select and initialize.  A     *)
(* probe may take long, so every arrival and every choice takes a token    *)
(* from one clock when it begins, and the later token wins.                *)
(*                                                                         *)
(* The observers of mass storage and of MTP visit their devices one by     *)
(* one; here every device has an observer of its own.                      *)
(***************************************************************************)
EXTENDS Naturals, Sequences, FiniteSets

CONSTANTS
  Devices,      \* a device is its path: a mount, or mtp:// and its id
  Mtp,          \* those that speak MTP
  MaxChanges,   \* how often something is plugged, unplugged or goes wrong
  MaxChoices,   \* how many requests the window makes
  MaxChannel    \* the capacity of the channel to the event loop

VARIABLES
  present,    \* what is plugged in
  managed,    \* what has a manifest that a probe finds
  clock,      \* DESTINATION_MUTATION_CLOCK
  observer,   \* per device: what DiscoveryObservations and known_* say of it
  channel,    \* DeviceEvents on their way
  handling,   \* the event the loop is at, <<>> or a singleton
  connected,  \* connected_devices: 0, or the token of the arrival
  pending,    \* pending_devices: 0, or the token of the arrival
  issues,     \* devices that could not be read
  selected,   \* selected_destination; selected_device_path always agrees
  latest,     \* latest_selection_token
  requests,   \* selections that have their token and wait for the lock
  setup,      \* initializations under way
  changes, choices,   \* how often something changed, how many requests there were
  gone,       \* history: arrivals whose removal has been handled
  older       \* history: of these the observers knew when the user chose

worldVars == <<present, managed, changes>>
loopVars == <<channel, handling>>
managerVars == <<connected, pending, issues, selected, latest>>
windowVars == <<requests, setup, choices>>
destVars == <<worldVars, clock, observer, loopVars, managerVars, windowVars, gone, older>>

Playback == <<"playback">>
Device(d) == <<"device", d>>
Pending(t) == <<"pending", t>>
Unseen == [token |-> 0, known |-> FALSE, failed |-> FALSE, probing |-> FALSE]
NextToken == clock + 1
Tick == clock' = NextToken

DestInit ==
  /\ present \in SUBSET Devices /\ managed \in SUBSET Devices
  /\ clock = 0 /\ observer = [d \in Devices |-> Unseen]
  /\ channel = <<>> /\ handling = <<>>
  /\ connected = [d \in Devices |-> 0] /\ pending = [d \in Devices |-> 0] /\ issues = {}
  /\ selected = Playback /\ latest = 0
  /\ requests = {} /\ setup = {} /\ changes = 0 /\ choices = 0
  /\ gone = {} /\ older = {}

(***************************************************************************)
(* The machine.                                                            *)
(***************************************************************************)
Change == changes < MaxChanges /\ changes' = changes + 1
besidesWorld == <<clock, observer, loopVars, managerVars, windowVars, gone, older>>

Plug(d) ==
  d \notin present /\ Change /\ present' = present \cup {d} /\ UNCHANGED <<managed, besidesWorld>>
Unplug(d) ==
  d \in present /\ Change /\ present' = present \ {d} /\ UNCHANGED <<managed, besidesWorld>>

(***************************************************************************)
(* The observers: run_observer and run_mtp_observer.                       *)
(***************************************************************************)
besidesObserver == <<worldVars, handling, managerVars, windowVars, gone>>
Room == Len(channel) < MaxChannel
Emit(e) == Room /\ channel' = Append(channel, e)
Event(kind, d) == [kind |-> kind, dev |-> d, token |-> observer[d].token]

Forget(d) ==
  /\ observer' = [observer EXCEPT ![d] = Unseen] /\ older' = older \ {d}
  /\ requests' = {[r EXCEPT !.seen = @ \ {d}] : r \in requests}

(* Seeded bug: a removal is told only of what could be opened.             *)
ToldKnown(d) == d \notin Mtp \/ observer[d].known

(* Removal is told of every mount that was seen, and of every MTP device   *)
(* that was opened or could not be.                                        *)
Told(d) == d \notin Mtp \/ observer[d].known \/ observer[d].failed

Vanish(d) ==
  /\ ~observer[d].probing /\ observer[d].token # 0 /\ d \notin present
  /\ IF Told(d) THEN Emit(Event("removed", d)) ELSE UNCHANGED channel
  /\ Forget(d) /\ UNCHANGED <<worldVars, clock, handling, managerVars, setup, choices, gone>>

(* The arrival is dated before the probe, which may take long; a failed    *)
(* one is repeated later under the same date.                              *)
Notice(d) ==
  /\ d \in present /\ ~observer[d].known /\ ~observer[d].probing
  /\ LET fresh == observer[d].token = 0 IN
       /\ IF fresh THEN Tick ELSE UNCHANGED clock
       /\ observer' = [observer EXCEPT ![d].token = IF fresh THEN NextToken ELSE @,
                                       ![d].known = d \notin Mtp, ![d].probing = TRUE]
  /\ UNCHANGED <<besidesObserver, channel, older>>

Probed(d, kind) ==
  /\ observer[d].probing
  /\ Emit(Event(kind, d))
  /\ observer' = [observer EXCEPT ![d].known = kind # "failed", ![d].failed = kind = "failed",
                                  ![d].probing = FALSE]
  /\ UNCHANGED <<present, managed, clock, handling, managerVars, windowVars, gone, older>>

(* The manifest is read; a mass storage whose manifest cannot be looked up *)
(* counts as blank, anything else that goes wrong as a failure.            *)
Identify(d) ==
  \/ d \in present \cap managed /\ Probed(d, "detected") /\ UNCHANGED changes
  \/ d \in present \ managed /\ Probed(d, "unrecognized") /\ UNCHANGED changes
  \/ d \in present /\ Probed(d, "failed") /\ Change
  \/ d \in managed \ Mtp /\ Probed(d, "unrecognized") /\ Change
  \/ d \notin present /\ UNCHANGED changes
     /\ (Probed(d, "failed") \/ (d \notin Mtp /\ Probed(d, "unrecognized")))

(* Android switches MTP off without leaving the bus.                       *)
LoseStorage(d) ==
  /\ d \in Mtp /\ observer[d].known /\ ~observer[d].probing /\ Change
  /\ Emit(Event("removed", d)) /\ Forget(d)
  /\ UNCHANGED <<present, managed, clock, handling, managerVars, setup, choices, gone>>

(***************************************************************************)
(* The event loop.                                                         *)
(***************************************************************************)
besidesManager == <<worldVars, observer, channel, windowVars>>

(* Seeded bug: an arrival is dated when the loop takes it.                 *)
TakeNow ==
  /\ handling = <<>> /\ channel # <<>> /\ channel' = Tail(channel) /\ Tick
  /\ LET e == Head(channel) IN
       handling' = IF e.kind = "detected" /\ connected[e.dev] # 0 THEN <<>>
                   ELSE <<[event |-> e, token |-> NextToken]>>
  /\ UNCHANGED <<worldVars, observer, managerVars, windowVars, gone, older>>

(* A removal takes its token before it waits for the lock; a detected      *)
(* device is looked up, prepared, and entered.                             *)
Take ==
  /\ handling = <<>> /\ channel # <<>> /\ channel' = Tail(channel)
  /\ LET e == Head(channel) IN
       IF e.kind = "removed" THEN Tick /\ handling' = <<[event |-> e, token |-> NextToken]>>
       ELSE /\ UNCHANGED clock
            /\ handling' = IF e.kind = "detected" /\ connected[e.dev] # 0 THEN <<>>
                           ELSE <<[event |-> e, token |-> e.token]>>
  /\ UNCHANGED <<worldVars, observer, managerVars, windowVars, gone, older>>

Handling(kind) == handling # <<>> /\ handling[1].event.kind = kind
Dev == handling[1].event.dev
Token == handling[1].token
(* An arrival is followed unless the user chose after it began.            *)
Follow(target) ==
  IF Token > latest THEN selected' = target /\ latest' = Token ELSE UNCHANGED <<selected, latest>>

HandleDetected ==
  /\ Handling("detected") /\ handling' = <<>>
  /\ connected' = [connected EXCEPT ![Dev] = Token] /\ pending' = [pending EXCEPT ![Dev] = 0]
  /\ issues' = issues \ {Dev} /\ Follow(Device(Dev))
  /\ UNCHANGED <<besidesManager, clock, gone, older>>

HandleUnrecognized ==
  /\ Handling("unrecognized") /\ handling' = <<>>
  /\ connected' = [connected EXCEPT ![Dev] = 0] /\ pending' = [pending EXCEPT ![Dev] = Token]
  /\ issues' = issues \ {Dev} /\ Follow(Pending(Token))
  /\ UNCHANGED <<besidesManager, clock, gone, older>>

ReportDiscoveryFailure ==
  /\ Handling("failed") /\ handling' = <<>> /\ issues' = issues \cup {Dev}
  /\ UNCHANGED <<besidesManager, clock, connected, pending, selected, latest, gone, older>>

(* Seeded bug: only the path is compared, not the pending entry.           *)
LostDevice(d) == selected = Device(d)

Lost(d) == selected = Device(d) \/ (pending[d] # 0 /\ selected = Pending(pending[d]))

HandleRemoved ==
  /\ Handling("removed") /\ handling' = <<>>
  /\ connected' = [connected EXCEPT ![Dev] = 0] /\ pending' = [pending EXCEPT ![Dev] = 0]
  /\ issues' = issues \ {Dev}
  /\ IF Lost(Dev) THEN selected' = Playback /\ latest' = Token /\ older' = {}
     ELSE UNCHANGED <<selected, latest, older>>
  /\ gone' = gone \cup {handling[1].event.token}
  /\ UNCHANGED <<besidesManager, clock>>

(***************************************************************************)
(* The window's requests: destination.select and device_initialize.        *)
(***************************************************************************)
besidesChoice == <<worldVars, observer, loopVars, connected, pending, issues, gone>>

Request(target) ==
  /\ choices < MaxChoices /\ choices' = choices + 1 /\ Tick
  /\ requests' = requests \cup {[target |-> target, token |-> NextToken,
                                 seen |-> {d \in Devices : observer[d] # Unseen}]}
  /\ UNCHANGED <<besidesChoice, selected, latest, setup, older>>

Selectable(target) ==
  \/ target = Playback
  \/ \E d \in Devices : target = Device(d) /\ connected[d] # 0
  \/ \E d \in Devices : target = Pending(pending[d]) /\ pending[d] # 0

Select(r) ==
  /\ requests' = requests \ {r}
  /\ IF Selectable(r.target)
     THEN selected' = r.target /\ latest' = r.token /\ older' = r.seen
     ELSE UNCHANGED <<selected, latest, older>>
  /\ UNCHANGED <<besidesChoice, clock, setup, choices>>

(* device_initialize reserves the entry it names, once.                    *)
Reserve(d) ==
  /\ pending[d] # 0 /\ \A i \in setup : i.id # pending[d]
  /\ choices < MaxChoices /\ choices' = choices + 1
  /\ setup' = setup \cup {[dev |-> d, id |-> pending[d], written |-> FALSE]}
  /\ UNCHANGED <<besidesChoice, clock, selected, latest, requests, older>>

besidesSetup == <<present, observer, loopVars, clock, requests, choices, gone, older>>
Entry(i) == pending[i.dev] = i.id

(* The manifest of an MTP device goes to a cache under the name it has     *)
(* just got, which no probe knows; the copy on the device may fail.        *)
WriteManifest(i) ==
  /\ ~i.written /\ setup' = (setup \ {i}) \cup {[i EXCEPT !.written = TRUE]}
  /\ \/ i.dev \in present /\ managed' = managed \cup {i.dev} /\ UNCHANGED changes
     \/ i.dev \in present \cap Mtp /\ Change /\ UNCHANGED managed
     \/ i.dev \in Mtp \ present /\ UNCHANGED <<managed, changes>>
  /\ UNCHANGED <<besidesSetup, managerVars>>

Connect(i) ==
  /\ i.written /\ setup' = setup \ {i} /\ Entry(i)
  /\ connected' = [connected EXCEPT ![i.dev] = i.id] /\ pending' = [pending EXCEPT ![i.dev] = 0]
  /\ selected' = IF selected = Pending(i.id) THEN Device(i.dev) ELSE selected
  /\ UNCHANGED <<besidesSetup, managed, changes, issues, latest>>

(* The entry is gone, or the device does not answer.                       *)
GiveUp(i) ==
  /\ setup' = setup \ {i}
  /\ \/ (~Entry(i) \/ i.dev \notin present) /\ UNCHANGED changes
     \/ ~i.written /\ Change
  /\ UNCHANGED <<besidesSetup, managed, managerVars>>

-----------------------------------------------------------------------------
Observe(d) == Vanish(d) \/ Notice(d) \/ Identify(d)
Loop == Take \/ HandleDetected \/ HandleUnrecognized \/ ReportDiscoveryFailure \/ HandleRemoved
Initialize(i) == WriteManifest(i) \/ Connect(i) \/ GiveUp(i)
Targets == {Playback} \cup {Device(d) : d \in Devices}
             \cup {Pending(pending[d]) : d \in {x \in Devices : pending[x] # 0}}

DestNext ==
  \/ \E d \in Devices : Plug(d) \/ Unplug(d) \/ LoseStorage(d) \/ Observe(d) \/ Reserve(d)
  \/ Loop
  \/ \E target \in Targets : Request(target)
  \/ \E r \in requests : Select(r)
  \/ \E i \in setup : Initialize(i)

(* The observers poll and the loop receives for as long as the daemon runs.*)
DestFairness == WF_destVars(Loop) /\ \A d \in Devices : WF_destVars(Observe(d))
DestSpec == DestInit /\ [][DestNext]_destVars
DestFairSpec == DestSpec /\ DestFairness

-----------------------------------------------------------------------------
DestTypeOK ==
  /\ present \in SUBSET Devices /\ managed \in SUBSET Devices /\ issues \in SUBSET Devices
  /\ \A d \in Devices : /\ observer[d].token \in 0..clock /\ connected[d] \in 0..clock
                        /\ pending[d] \in 0..clock
  /\ Len(channel) <= MaxChannel /\ Len(handling) <= 1 /\ latest \in 0..clock
  /\ changes \in 0..MaxChanges /\ choices \in 0..MaxChoices

(* What is selected is there to be used: the device is connected, the      *)
(* entry still pending.  Lookups of the sync target rely on it.            *)
SelectionStands == Selectable(selected)

(* A device is either set up or to be set up, never both - there would be  *)
(* two live back-ends for it - and no arrival comes back after its removal *)
(* has been handled, whatever was under way for it.                        *)
OneEntry == \A d \in Devices : connected[d] = 0 \/ pending[d] = 0
NoGhost == \A d \in Devices : connected[d] \notin gone /\ pending[d] \notin gone

(* What is selected can be used, a device has one entry, and no arrival    *)
(* outlives its removal.                                                   *)
EntriesStand == DestTypeOK /\ SelectionStands /\ OneEntry /\ NoGhost

(* An arrival that an observer knew of when the user chose does not move   *)
(* the selection while the choice stands, however long its probe takes.    *)
LateArrivalYields ==
  [][(HandleDetected \/ HandleUnrecognized) /\ Dev \in older => selected' = selected]_destVars

(* When the machine is left alone, the manager comes to show what is       *)
(* plugged in, and nothing else.                                           *)
Shown(d) == connected[d] # 0 \/ pending[d] # 0
PresenceReflected ==
  \A d \in Devices : <>[](IF d \in present THEN Shown(d) ELSE ~Shown(d) /\ d \notin issues)
=============================================================================
