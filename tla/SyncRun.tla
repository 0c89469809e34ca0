------------------------------ MODULE SyncRun ------------------------------
(***************************************************************************)
(* One synchronisation of one device after another: the delta between what *)
(* the user wants and what the manifest lists, the run that writes and     *)
(* deletes files and commits the manifest after each, and everything that  *)
(* can stop it half way.  A track is written first and listed second, so   *)
(* every step in between is a place where a crash leaves the device and    *)
(* its manifest apart.                                                     *)
(*                                                                         *)
(* One run is at work at a time (OneSync of SyncOps), and the staging      *)
(* pipeline in front of the writer is in Staging: here an item is written  *)
(* in any order, or its source fails.                                      *)
(***************************************************************************)
EXTENDS Naturals, FiniteSets

CONSTANTS
  Songs,        \* the tracks of the library, whatever id the server gives them
  MaxVersion,   \* how many ids a server gives one track in turn
  Matched,      \* tracks whose new id id_change_candidate_matches the old one
  Profiles,     \* transcoding profiles; a file's name depends on it
  Home,         \* the profile a new device starts with
  Paths,
  PathOf,       \* where construct_desired_file_path puts a track
  Threshold,    \* how many deletions need no confirmation
  MaxQuality,   \* bitrates are 1..MaxQuality; 0 is None
  Edits,        \* what the user and the server change: a subset of EditKinds
  MaxEdits,     \* how often they do
  MaxFaults     \* how many failures, crashes and unpluggings there are

EditKinds == {"basket", "reid", "quality", "profile", "force", "repair", "partial", "stale", "anytime"}

ASSUME ConstantsAssumption ==
  /\ Matched \subseteq Songs /\ Home \in Profiles /\ Edits \subseteq EditKinds
  /\ MaxVersion \in Nat \ {0} /\ MaxQuality \in Nat \ {0}
  /\ Threshold \in Nat /\ MaxEdits \in Nat /\ MaxFaults \in Nat
  /\ PathOf \in [Songs -> [Profiles -> Paths]]
  /\ "torn" \notin Songs                          \* the name of what is no track

Ids == Songs \X (1..MaxVersion)
Song(i) == i[1]
Items == [id : Ids, path : Paths, rate : 0..MaxQuality]      \* SyncedItem
Adds == [id : Ids, rate : 0..MaxQuality]                     \* SyncAddItem
Changes == [new : Ids, old : Items]                          \* SyncIdChangeItem
Deltas == [adds : SUBSET Adds, deletes : SUBSET Items, changes : SUBSET Changes]
Manifests == [items : SUBSET Items, dirty : BOOLEAN, profile : Profiles,
              lastProfile : Profiles, profileDirty : BOOLEAN]
Absent == [song |-> {}, profile |-> {}]
Torn == [song |-> {"torn"}, profile |-> {}]
File(s, p) == [song |-> {s}, profile |-> {p}]
Contents == {Absent, Torn} \cup {File(s, p) : s \in Songs, p \in Profiles}
Nothing == [adds |-> {}, deletes |-> {}, changes |-> {}]

VARIABLES
  live,       \* the id the server gives each track now
  quality,    \* the bitrate it has on the server
  basket,     \* the tracks the user wants
  class,      \* whether the device is mass storage ("msc") or "mtp"
  plugged,    \* whether the device manager has the device
  files,      \* what is on the device
  mem,        \* the manifest of the connected device, in the daemon
  durable,    \* .hifimule.json on the device; the local cache for MTP
  offer,      \* the delta the window was shown and its basket, {} or a singleton
  run,        \* the run at work
  edits,      \* how often the user or the server changed something
  faults,     \* how much went wrong
  doubt,      \* history: paths changed and not (yet) settled by the manifest
  touched,    \* history: a run changed the device and did not complete
  goal        \* history: the ids the manifest should list when the run is over

serverVars == <<live, quality, basket>>
deviceVars == <<class, plugged, files>>
historyVars == <<doubt, touched, goal>>
vars == <<serverVars, deviceVars, mem, durable, offer, run, edits, faults, historyVars>>

PhaseAt == {"idle", "mark", "work", "replace", "record", "forget"}
Runs == [phase : PhaseAt, kind : {"auto", "asked"},
         want : SUBSET Songs,            \* what of the basket the delta was made for
         replaced : SUBSET Items,        \* deletes of ids that are added again
         todo : Deltas,                  \* what is left of the delta
         profile : Profiles,             \* the one of the manifest it started from
         add : SUBSET Adds,              \* the add at work
         delete : SUBSET Items,          \* the delete at work
         cancelled : BOOLEAN,            \* the operation's token, or its removal
         failed : BOOLEAN]               \* whether errors were collected
NoRun == [phase |-> "idle", kind |-> "auto", want |-> {}, replaced |-> {}, todo |-> Nothing,
          profile |-> Home, add |-> {}, delete |-> {}, cancelled |-> FALSE, failed |-> FALSE]

Init ==
  /\ live = [s \in Songs |-> 1] /\ quality = [s \in Songs |-> 1]
  /\ basket \in SUBSET Songs
  /\ class \in {"msc", "mtp"} /\ plugged = TRUE
  /\ files = [p \in Paths |-> Absent]
  /\ mem = [items |-> {}, dirty |-> FALSE, profile |-> Home, lastProfile |-> Home,
            profileDirty |-> FALSE]
  /\ durable = mem /\ offer = {} /\ run = NoRun
  /\ edits = 0 /\ faults = 0
  /\ doubt = {} /\ touched = FALSE /\ goal = {}

(***************************************************************************)
(* calculate_delta: desired items against the manifest.                    *)
(***************************************************************************)
Desired(R) == {<<s, live[s]>> : s \in R}       \* R: the tracks that resolved
Listed(m) == {it.id : it \in m.items}

(* A desired item that must be written again: bitrate_stale_reason, or the *)
(* profile changed since the last synchronisation.                         *)
Outdated(m, R, it) ==
  /\ it.id \in Desired(R)
  /\ m.profileDirty \/ (it.rate > 0 /\ quality[Song(it.id)] > it.rate)

(* Seeded bug: an outdated item counts as current.                         *)
FirstAddsListed(m, R) ==
  {[id |-> i, rate |-> quality[Song(i)]] : i \in Desired(R) \ Listed(m)}

FirstAdds(m, R) ==
  LET current == {it.id : it \in {i \in m.items : ~Outdated(m, R, i)}}
  IN  {[id |-> i, rate |-> quality[Song(i)]] : i \in Desired(R) \ current}
FirstDeletes(m, R) == {it \in m.items : Outdated(m, R, it) \/ it.id \notin Desired(R)}

(* An add and a delete of the same track are an id change.  Each add takes *)
(* the first delete that nobody took; one that finds its own id stays an   *)
(* add.  The order of both lists is the caller's: any maximal matching.    *)
Candidates(as, ds) ==
  {c \in [new : {a.id : a \in as}, old : ds] :
     Song(c.new) = Song(c.old.id) /\ Song(c.new) \in Matched /\ c.new # c.old.id}
Matchings(as, ds) ==
  {M \in SUBSET Candidates(as, ds) :
     /\ \A c \in M, e \in M : c.new = e.new \/ c.old = e.old => c = e
     /\ \A c \in Candidates(as, ds) :
          \/ \E e \in M : e.new = c.new \/ e.old = c.old
          \/ \E d \in ds : d.id = c.new}

CalculateDelta(m, R) ==
  LET as == FirstAdds(m, R)  ds == FirstDeletes(m, R) IN
  {[adds |-> {a \in as : \A c \in M : c.new # a.id},
    deletes |-> ds \ {c.old : c \in M}, changes |-> M] : M \in Matchings(as, ds)}

(* augment_delta_with_existence_check: what the window is shown also adds  *)
(* the listed and desired tracks whose file is gone.                       *)
Augment(m, d) ==
  LET inDelta == {a.id : a \in d.adds} \cup {it.id : it \in d.deletes}
                   \cup {c.new : c \in d.changes}
      gone == {it \in m.items : /\ it.id \in Desired(basket) \ inDelta
                                /\ files[it.path] = Absent}
  IN  [d EXCEPT !.adds = @ \cup {[id |-> it.id, rate |-> quality[Song(it.id)]] : it \in gone}]

(* Force sync: everything listed and not deleted is written again.         *)
Forced(m, d) ==
  LET kept == {it \in m.items : \A e \in d.deletes : e.id # it.id} IN
  [adds |-> d.adds \cup {[id |-> it.id, rate |-> 0] : it \in kept},
   deletes |-> d.deletes \cup kept, changes |-> {}]

(* destructive_cleanup_count: a track that is written again is not removed.*)
Removals(d) == {it \in d.deletes : \A a \in d.adds : a.id # it.id}

(* What the manifest lists when every item of the delta has been done.     *)
Goal(m, d) ==
  ((Listed(m) \ {it.id : it \in d.deletes}) \ {c.old.id : c \in d.changes})
    \cup {a.id : a \in d.adds} \cup {c.new : c \in d.changes}

(***************************************************************************)
(* update_manifest_for_device: the manifest is changed in memory, written, *)
(* and put back when writing fails.  The cache of an MTP device may be     *)
(* replaced without its directory being synchronised: then the old one is  *)
(* put back, marked dirty, and written as well as it can be.               *)
(***************************************************************************)
Fault == faults < MaxFaults /\ faults' = faults + 1

Saved(m) == plugged /\ mem' = m /\ durable' = m /\ faults' = faults

Refused == ~plugged /\ UNCHANGED <<mem, durable, faults>>
Unwritten == plugged /\ Fault /\ UNCHANGED <<mem, durable>>
Uncertain(m) ==
  /\ plugged /\ class = "mtp" /\ Fault
  /\ mem' = [mem EXCEPT !.dirty = TRUE]
  /\ durable' \in {m, [mem EXCEPT !.dirty = TRUE]}
NotSaved(m) == Refused \/ Unwritten \/ Uncertain(m)

(***************************************************************************)
(* The run.                                                                *)
(***************************************************************************)
Idle == run.phase = "idle"
At(phase) == run.phase = phase

(* sync_calculate_delta for the window: claims the pipeline, so no run.    *)
Offer ==
  /\ Idle /\ plugged
  /\ \E d \in CalculateDelta(mem, basket) :
       offer' = {[delta |-> Augment(mem, d), want |-> basket]}
  /\ UNCHANGED <<serverVars, deviceVars, mem, durable, run, edits, faults, historyVars>>

(* Seeded bug: a track that is written again is also deleted afterwards.   *)
BeginDeletesAll(kind, d, want) ==
  /\ Idle /\ plugged
  /\ run' = [NoRun EXCEPT !.phase = "mark", !.kind = kind, !.want = want, !.todo = d,
                          !.replaced = d.deletes \ Removals(d), !.profile = mem.profile]
  /\ goal' = Goal(mem, d)
  /\ UNCHANGED <<serverVars, deviceVars, mem, durable, edits, faults, doubt, touched>>

(* Deletes of ids that are added again are left to the writer.             *)
Begin(kind, d, want) ==
  LET again == d.deletes \ Removals(d) IN
  /\ Idle /\ plugged
  /\ run' = [NoRun EXCEPT !.phase = "mark", !.kind = kind, !.want = want, !.replaced = again,
                          !.todo = [d EXCEPT !.deletes = @ \ again], !.profile = mem.profile]
  /\ goal' = Goal(mem, d)
  /\ UNCHANGED <<serverVars, deviceVars, mem, durable, edits, faults, doubt, touched>>

(* sync_execute with the delta of the window, as it was shown; the window  *)
(* has asked when more than the threshold is to be removed.                *)
Execute ==
  \E o \in offer :
    /\ offer' = {}
    /\ \/ Begin("asked", o.delta, o.want)
       \/ "force" \in Edits /\ Begin("asked", Forced(mem, o.delta), o.want)

(* Between the two calls the user may be asked whether so much is to be    *)
(* deleted; the kind "stale" lets something else happen meanwhile.         *)
Undecided == offer = {} \/ "stale" \in Edits

(* run_auto_sync_via_provider.  What the server does not resolve is left   *)
(* out, unless nothing does; nobody is there to confirm.                   *)
AutoSync ==
  /\ Undecided
  /\ \E R \in IF "partial" \in Edits THEN SUBSET basket ELSE {basket} :
       /\ R = {} => basket = {}
       /\ \E d \in CalculateDelta(mem, R) :
            /\ d # Nothing /\ Cardinality(Removals(d)) <= Threshold
            /\ Begin("auto", d, R)
  /\ offer' = offer

unchangedByRun == <<serverVars, class, plugged, offer, edits>>
Goto(phase) == run' = [run EXCEPT !.phase = phase, !.add = {}, !.delete = {}]
Stopped == [run EXCEPT !.phase = "work", !.add = {}, !.delete = {},
                       !.failed = TRUE, !.cancelled = TRUE]

(* Seeded bug: the flag is set in memory only.                             *)
MarkDirtyInMemory ==
  /\ At("mark") /\ mem' = [mem EXCEPT !.dirty = TRUE] /\ Goto("work")
  /\ UNCHANGED <<unchangedByRun, files, durable, faults, historyVars>>

(* The manifest is marked dirty before anything is touched; if that fails, *)
(* nothing is.                                                             *)
MarkDirty ==
  /\ At("mark")
  /\ LET m == [mem EXCEPT !.dirty = TRUE] IN
       \/ Saved(m) /\ Goto("work")
       \/ NotSaved(m) /\ run' = NoRun
  /\ UNCHANGED <<unchangedByRun, files, historyVars>>

Adding(a) == At("work") /\ ~run.cancelled /\ a \in run.todo.adds
Without(a) == [run EXCEPT !.todo.adds = @ \ {a}]
PathFor(a) == PathOf[Song(a.id)][run.profile]

(* The source of an item fails: a transcoding or an auto-fill source is    *)
(* skipped with a warning, any other stops the run.  A file larger than    *)
(* the staging budget, or not found after it was written, is an error that *)
(* lets the run go on.                                                     *)
SkipAdd(a) ==
  /\ Adding(a) /\ Fault
  /\ \/ run' = Without(a)
     \/ run' = [Without(a) EXCEPT !.failed = TRUE]
     \/ run' = [Without(a) EXCEPT !.failed = TRUE, !.cancelled = TRUE]
  /\ goal' = IF a.id \in Listed(mem) THEN goal ELSE goal \ {a.id}
  /\ UNCHANGED <<unchangedByRun, files, mem, durable, doubt, touched>>

WriteFile(a) ==
  /\ Adding(a) /\ plugged
  /\ files' = [files EXCEPT ![PathFor(a)] = File(Song(a.id), run.profile)]
  /\ run' = [Without(a) EXCEPT !.phase = "replace", !.add = {a}]
  /\ doubt' = doubt \cup {PathFor(a)} /\ touched' = TRUE
  /\ UNCHANGED <<unchangedByRun, mem, durable, faults, goal>>

(* Mass storage writes beside the file and renames; MTP may leave part of  *)
(* it behind.                                                              *)
Breaks == IF plugged THEN Fault ELSE UNCHANGED faults

WriteFails(a) ==
  /\ Adding(a) /\ Breaks
  /\ \/ UNCHANGED <<files, doubt, touched>>
     \/ /\ class = "mtp" /\ plugged /\ files' = [files EXCEPT ![PathFor(a)] = Torn]
        /\ doubt' = doubt \cup {PathFor(a)} /\ touched' = TRUE
  /\ run' = [Without(a) EXCEPT !.failed = TRUE, !.cancelled = TRUE]
  /\ UNCHANGED <<unchangedByRun, mem, durable, goal>>

(* Deleting a file that is not there succeeds: on mass storage, also when  *)
(* the whole device is gone.                                               *)
Removed(ds) == {p \in {d.path : d \in ds} : files[p] = Absent}

Remove(ps) ==
  /\ files' = IF plugged THEN [p \in Paths |-> IF p \in ps THEN Absent ELSE files[p]] ELSE files
  /\ plugged \/ class = "msc" \/ ps = {}
  /\ doubt' = doubt \cup ps
  /\ touched' = (touched \/ ps # {})

(* Seeded bug: the new file may have the old one's name.                   *)
OldByName == {it \in run.replaced : \E a \in run.add : it.id = a.id}

(* cleanup_replaced_file_after_write: the old file of a track that was     *)
(* written again, when the new one has another name.                       *)
Old == {it \in run.replaced : \E a \in run.add : it.id = a.id /\ it.path # PathFor(a)}

Replace ==
  /\ At("replace") /\ run' = [run EXCEPT !.phase = "record", !.delete = Old]
  /\ Remove({it.path : it \in Old})
  /\ UNCHANGED <<unchangedByRun, mem, durable, faults, goal>>

ReplaceFails ==
  /\ At("replace") /\ Old # {} /\ Breaks
  /\ run' = [run EXCEPT !.phase = "record", !.failed = TRUE]
  /\ doubt' = doubt \cup {it.path : it \in Old}
  /\ UNCHANGED <<unchangedByRun, files, mem, durable, touched, goal>>

(* A manifest that is written settles which file is at a path, unless it   *)
(* lists there what is none of the tracks S: two tracks can have one name, *)
(* and an old item outlives the new one when the id is not recognised.     *)
Settled(m, ps, S) == {p \in ps : \A i \in m.items : i.path = p => Song(i.id) \in S}

(* The item just written takes the place of the one with its id.  A delta  *)
(* made before another run listed that one does not know its file, which   *)
(* stays: nothing lists it any more.                                       *)
Left(a) == {i.path : i \in {i \in mem.items \ run.delete : i.id = a.id}} \ {PathFor(a)}

Record ==
  /\ At("record")
  /\ \E a \in run.add :
       LET it == [id |-> a.id, path |-> PathFor(a), rate |-> a.rate]
           m == [mem EXCEPT !.items = {i \in @ : i.id # a.id} \cup {it}] IN
       \/ /\ Saved(m) /\ Goto("work")
          /\ doubt' = Left(a) \cup
               (doubt \ (Settled(m, {it.path}, {Song(a.id)}) \cup Settled(m, Removed(run.delete), {})))
       \/ NotSaved(m) /\ run' = Stopped /\ doubt' = doubt \cup Left(a)
  /\ UNCHANGED <<unchangedByRun, files, touched, goal>>

(* Deletes come after the last add.                                        *)
Deleting(d) == At("work") /\ ~run.cancelled /\ run.todo.adds = {} /\ d \in run.todo.deletes

DeleteFile(d) ==
  /\ Deleting(d) /\ Remove({d.path})
  /\ run' = [run EXCEPT !.phase = "forget", !.delete = {d}, !.todo.deletes = @ \ {d}]
  /\ UNCHANGED <<unchangedByRun, mem, durable, faults, goal>>

DeleteFails(d) ==
  /\ Deleting(d) /\ Breaks
  /\ run' = [run EXCEPT !.failed = TRUE, !.todo.deletes = @ \ {d}]
  /\ UNCHANGED <<unchangedByRun, files, mem, durable, historyVars>>

Forget ==
  /\ At("forget")
  /\ \E d \in run.delete :
       LET m == [mem EXCEPT !.items = {i \in @ : i.id # d.id}] IN
       \/ Saved(m) /\ Goto("work") /\ doubt' = doubt \ Settled(m, Removed({d}), {})
       \/ NotSaved(m) /\ run' = Stopped /\ UNCHANGED doubt
  /\ UNCHANGED <<unchangedByRun, files, touched, goal>>

(* An id change keeps the file and its path; the bitrate becomes unknown.  *)
ChangeId(c) ==
  /\ At("work") /\ ~run.cancelled /\ run.todo.adds = {} /\ run.todo.deletes = {}
  /\ c \in run.todo.changes
  /\ LET it == [id |-> c.new, path |-> c.old.path, rate |-> 0]
         m == [mem EXCEPT !.items = {i \in @ : i.id # c.old.id} \cup {it}] IN
       \/ Saved(m) /\ run' = [run EXCEPT !.todo.changes = @ \ {c}]
       \/ NotSaved(m) /\ run' = Stopped
  /\ UNCHANGED <<unchangedByRun, files, historyVars>>

(* finalize_operation: the clean manifest is committed when everything was *)
(* done, nothing failed and nobody cancelled.  Only a requested run says   *)
(* that the files are in the profile that is selected now.                 *)
Clean(m) == IF run.kind = "auto" THEN [m EXCEPT !.dirty = FALSE]
            ELSE [m EXCEPT !.dirty = FALSE, !.lastProfile = m.profile, !.profileDirty = FALSE]
(* Seeded bug: what follows the adds is not waited for.                    *)
DoneAfterAdds == At("work") /\ ~run.cancelled /\ run.todo.adds = {}

Done == At("work") /\ ~run.cancelled /\ run.todo = Nothing

Complete ==
  /\ Done /\ ~run.failed /\ Saved(Clean(mem)) /\ run' = NoRun /\ touched' = FALSE
  /\ UNCHANGED <<unchangedByRun, files, doubt, goal>>

(* The clean manifest may have become visible although it was not synced.  *)
CompleteFails ==
  /\ Done /\ ~run.failed /\ NotSaved(Clean(mem)) /\ run' = NoRun
  /\ touched' = (touched /\ durable' # Clean(mem))
  /\ UNCHANGED <<unchangedByRun, files, doubt, goal>>

GiveUp ==
  /\ \/ At("work") /\ run.cancelled
     \/ Done /\ run.failed
  /\ run' = NoRun
  /\ UNCHANGED <<unchangedByRun, files, mem, durable, faults, historyVars>>

(***************************************************************************)
(* What happens to a run: a cancellation, the end of the daemon, the       *)
(* removal of the device, which cancels the run but does not wait for it.  *)
(***************************************************************************)
Cancel ==
  /\ ~Idle /\ ~run.cancelled /\ Fault /\ run' = [run EXCEPT !.cancelled = TRUE]
  /\ UNCHANGED <<unchangedByRun, files, mem, durable, historyVars>>

Crash ==
  /\ Fault /\ run' = NoRun /\ offer' = {} /\ mem' = durable
  /\ UNCHANGED <<serverVars, deviceVars, durable, edits, historyVars>>

Unplug ==
  /\ plugged /\ Undecided /\ Fault /\ plugged' = FALSE
  /\ run' = IF Idle THEN run ELSE [run EXCEPT !.cancelled = TRUE]
  /\ UNCHANGED <<serverVars, class, files, mem, durable, offer, edits, historyVars>>

Plug ==
  /\ ~plugged /\ plugged' = TRUE /\ mem' = durable
  /\ UNCHANGED <<serverVars, class, files, durable, offer, run, edits, faults, historyVars>>

(***************************************************************************)
(* What the user and the server change meanwhile.                          *)
(***************************************************************************)
Edit(kind) == kind \in Edits /\ Undecided /\ edits < MaxEdits /\ edits' = edits + 1
besidesServer == <<deviceVars, mem, durable, offer, run, faults, historyVars>>

Choose(s) ==
  /\ Edit("basket")
  /\ basket' = IF s \in basket THEN basket \ {s} ELSE basket \cup {s}
  /\ UNCHANGED <<live, quality, besidesServer>>

Reidentify(s) ==
  /\ Edit("reid") /\ live[s] < MaxVersion /\ live' = [live EXCEPT ![s] = @ + 1]
  /\ UNCHANGED <<quality, basket, besidesServer>>

Upgrade(s) ==
  /\ Edit("quality") /\ quality[s] < MaxQuality /\ quality' = [quality EXCEPT ![s] = @ + 1]
  /\ UNCHANGED <<live, basket, besidesServer>>

(* Nothing in the code keeps these from a device that is synchronised; the *)
(* kind "anytime" says whether they happen then.                           *)
Quiet == Idle \/ "anytime" \in Edits

SetProfile(p) ==
  /\ Quiet /\ p # mem.profile /\ Edit("profile")
  /\ LET stale == IF mem.lastProfile = Home THEN mem.items # {} ELSE p # mem.lastProfile
         m == [mem EXCEPT !.profile = p, !.profileDirty = stale] IN
       Saved(m) \/ NotSaved(m)
  /\ UNCHANGED <<serverVars, deviceVars, offer, run, historyVars>>

(* get_discrepancies walks the file system below the device's path, which  *)
(* for MTP is no path of the file system: there everything is missing.     *)
Missing == {it \in mem.items : class = "mtp" \/ files[it.path] = Absent}

Prune ==
  /\ Quiet /\ Missing # {} /\ Edit("repair")
  /\ LET m == [mem EXCEPT !.items = @ \ Missing] IN Saved(m) \/ NotSaved(m)
  /\ doubt' = doubt \cup {it.path : it \in Missing}
  /\ UNCHANGED <<serverVars, deviceVars, offer, run, touched, goal>>

Relink(it, p) ==
  /\ Quiet /\ it \in Missing /\ class = "msc" /\ files[p].song = {Song(it.id)}
  /\ Edit("repair")
  /\ LET m == [mem EXCEPT !.items = (@ \ {it}) \cup {[it EXCEPT !.path = p]}] IN
       Saved(m) \/ NotSaved(m)
  /\ doubt' = doubt \cup {it.path, p}
  /\ UNCHANGED <<serverVars, deviceVars, offer, run, touched, goal>>

(* A user who clears the flag has seen what is wrong.                      *)
ClearDirty ==
  /\ Quiet /\ Missing = {} /\ Edit("repair")
  /\ LET m == [mem EXCEPT !.dirty = FALSE] IN Saved(m) \/ NotSaved(m)
  /\ touched' = (touched /\ ~Idle)
  /\ UNCHANGED <<serverVars, deviceVars, offer, run, doubt, goal>>

Step ==
  \/ MarkDirty \/ Replace \/ ReplaceFails \/ Record \/ Forget
  \/ \E a \in run.todo.adds : SkipAdd(a) \/ WriteFile(a) \/ WriteFails(a)
  \/ \E d \in run.todo.deletes : DeleteFile(d) \/ DeleteFails(d)
  \/ \E c \in run.todo.changes : ChangeId(c)
  \/ Complete \/ CompleteFails \/ GiveUp

User ==
  \/ \E s \in Songs : Choose(s) \/ Reidentify(s) \/ Upgrade(s)
  \/ \E p \in Profiles : SetProfile(p)
  \/ \E it \in mem.items, p \in Paths : Relink(it, p)
  \/ Prune \/ ClearDirty

Next ==
  \/ Offer \/ Execute \/ AutoSync \/ Step
  \/ Cancel \/ Crash \/ Unplug \/ Plug \/ User

Spec == Init /\ [][Next]_vars

-----------------------------------------------------------------------------
TypeOK ==
  /\ live \in [Songs -> 1..MaxVersion] /\ quality \in [Songs -> 1..MaxQuality]
  /\ basket \subseteq Songs /\ class \in {"msc", "mtp"} /\ plugged \in BOOLEAN
  /\ files \in [Paths -> Contents]
  /\ mem \in Manifests /\ durable \in Manifests
  /\ offer \subseteq [delta : Deltas, want : SUBSET Songs] /\ run \in Runs
  /\ edits \in 0..MaxEdits /\ faults \in 0..MaxFaults
  /\ doubt \subseteq Paths /\ touched \in BOOLEAN /\ goal \subseteq Ids

(* What survives a crash says so as long as a run has changed the device   *)
(* and has not completed, whatever failed in between.                      *)
InterruptedIsDirty == touched => durable.dirty

(* Outside the paths in doubt the manifest that survives and the device    *)
(* agree file by file.  In doubt is what a step changed and has not yet    *)
(* recorded, what an interruption or a repair by hand left so, and what    *)
(* was written or deleted while the manifest lists another item there.     *)
Trust ==
  \A p \in Paths \ doubt :
    LET listed == {Song(it.id) : it \in {i \in durable.items : i.path = p}} IN
    files[p].song = listed

(* A delta, done completely, leaves exactly what is desired.               *)
DeltaReaches ==
  plugged /\ Idle => \A d \in CalculateDelta(mem, basket) : Goal(mem, d) = Desired(basket)

(* A run that completes has done all of its delta, except what it skipped. *)
CompleteIsGoal == [][Complete => Listed(mem') = goal]_vars

(* A run never takes a track off the device that it was to keep there,     *)
(* unless a write of MTP broke off, as long as no other track has the name *)
(* of its file and it was not given a new id that is not recognised.       *)
OnDevice(s) == \E p \in Paths : files[p].song = {s}
Own(p) ==
  \A s \in Songs, t \in Songs, f \in Profiles, g \in Profiles :
    PathOf[s][f] = p /\ PathOf[t][g] = p => s = t
OnOwnPath(s) == \E p \in Paths : Own(p) /\ files[p].song = {s}
Renamed(s) == s \notin Matched /\ live[s] > 1
TornAfter == \E p \in Paths : files'[p] = Torn
WantedIsKept ==
  [][~Idle => \A s \in run.want :
        OnOwnPath(s) /\ ~Renamed(s) => OnDevice(s)' \/ TornAfter]_vars

(* A run never takes a track of the basket off the device, whether or not  *)
(* the server resolved it (run_auto_sync_via_provider) and whatever id it  *)
(* has there by now (calculate_delta).                                     *)
BasketIsKept == [][~Idle => \A s \in basket : OnDevice(s) => OnDevice(s)' \/ TornAfter]_vars

(* Between runs, unless the manifest says that the profile changed, every  *)
(* file is in the profile that is selected.                                *)
ProfileKept ==
  Idle /\ ~durable.profileDirty =>
    \A it \in durable.items :
      it.path \in doubt \/ files[it.path].profile \subseteq {durable.profile}
=============================================================================
