--------------------------- MODULE SyncRun_proofs ---------------------------
(***************************************************************************)
(* For any library, any number of edits and any number of failures: every  *)
(* variable keeps its type; a device that a run changed without completing *)
(* says so in the manifest that survives; a delta leads to what is         *)
(* desired, and a run that completes has done all of it; manifest and      *)
(* device agree outside "doubt"; and what is wanted is not taken away.     *)
(***************************************************************************)
EXTENDS SyncRun, TLAPS

LEMMA ItemParts ==
  ASSUME NEW i \in Ids PROVE Song(i) \in Songs
  BY DEF Ids, Song

(* A delta between a manifest and a part of the library is a delta.        *)
LEMMA DeltaTyped ==
  ASSUME live \in [Songs -> 1..MaxVersion], quality \in [Songs -> 1..MaxQuality],
         NEW m \in Manifests, NEW R \in SUBSET Songs, NEW d \in CalculateDelta(m, R)
  PROVE  d \in Deltas
<1>1. Desired(R) \subseteq Ids
  BY DEF Desired, Ids
<1>2. FirstAdds(m, R) \subseteq Adds
  BY <1>1, ItemParts, ConstantsAssumption DEF FirstAdds, Adds
<1>3. m.items \subseteq Items
  BY DEF Manifests
<1>4. FirstDeletes(m, R) \subseteq Items
  BY <1>3 DEF FirstDeletes
<1>5. \A M \in Matchings(FirstAdds(m, R), FirstDeletes(m, R)) : M \subseteq Changes
  <2>1. {a.id : a \in FirstAdds(m, R)} \subseteq Ids
    BY <1>2 DEF Adds
  <2>2. Candidates(FirstAdds(m, R), FirstDeletes(m, R)) \subseteq Changes
    BY <2>1, <1>4 DEF Candidates, Changes
  <2> QED
    BY <2>2 DEF Matchings
<1>6. PICK M \in Matchings(FirstAdds(m, R), FirstDeletes(m, R)) :
        d = [adds |-> {a \in FirstAdds(m, R) : \A c \in M : c.new # a.id},
             deletes |-> FirstDeletes(m, R) \ {c.old : c \in M}, changes |-> M]
  BY DEF CalculateDelta
<1> QED
  BY <1>2, <1>4, <1>5, <1>6 DEF Deltas

LEMMA AugmentTyped ==
  ASSUME TypeOK, NEW m \in Manifests, NEW d \in Deltas
  PROVE  Augment(m, d) \in Deltas
<1>1. m.items \subseteq Items /\ d.adds \subseteq Adds
  BY DEF Manifests, Deltas
<1>2. \A it \in m.items : [id |-> it.id, rate |-> quality[Song(it.id)]] \in Adds
  BY <1>1, ItemParts, ConstantsAssumption DEF TypeOK, Items, Adds
<1> DEFINE inDelta == {a.id : a \in d.adds} \cup {it.id : it \in d.deletes}
                        \cup {c.new : c \in d.changes}
           gone == {it \in m.items : /\ it.id \in Desired(basket) \ inDelta
                                     /\ files[it.path] = Absent}
           more == {[id |-> it.id, rate |-> quality[Song(it.id)]] : it \in gone}
<1>3. more \subseteq Adds
  BY <1>2
<1>4. Augment(m, d) = [d EXCEPT !.adds = @ \cup more]
  BY DEF Augment
<1> HIDE DEF more
<1> QED
  BY <1>1, <1>3, <1>4 DEF Deltas

LEMMA ForceTyped ==
  ASSUME NEW m \in Manifests, NEW d \in Deltas
  PROVE  Forced(m, d) \in Deltas
<1>1. m.items \subseteq Items /\ d.adds \subseteq Adds /\ d.deletes \subseteq Items
  BY DEF Manifests, Deltas
<1>2. \A it \in Items : [id |-> it.id, rate |-> 0] \in Adds
  BY ConstantsAssumption DEF Items, Adds
<1> QED
  BY <1>1, <1>2 DEF Forced, Deltas

LEMMA GoalTyped ==
  ASSUME NEW m \in Manifests, NEW d \in Deltas
  PROVE  Goal(m, d) \subseteq Ids
<1>1. Listed(m) \subseteq Ids
  BY DEF Listed, Manifests, Items
<1>2. {a.id : a \in d.adds} \subseteq Ids
  BY DEF Deltas, Adds
<1>3. {c.new : c \in d.changes} \subseteq Ids
  BY DEF Deltas, Changes
<1> QED
  BY <1>1, <1>2, <1>3 DEF Goal

(***************************************************************************)
(* Types.                                                                  *)
(***************************************************************************)
LEMMA PathTyped ==
  ASSUME TypeOK, NEW a \in Adds PROVE Song(a.id) \in Songs /\ PathFor(a) \in Paths
<1>1. Song(a.id) \in Songs
  BY ItemParts DEF Adds
<1>2. run.profile \in Profiles
  BY DEF TypeOK, Runs
<1> QED
  BY <1>1, <1>2, ConstantsAssumption DEF PathFor

LEMMA BlankRun == NoRun \in Runs
  BY ConstantsAssumption DEF NoRun, Runs, PhaseAt, Deltas, Nothing

(* Writing a manifest, or failing to, leaves the two copies and the count. *)
LEMMA WriteTyped ==
  ASSUME TypeOK, NEW m \in Manifests, Saved(m) \/ NotSaved(m)
  PROVE  mem' \in Manifests /\ durable' \in Manifests /\ faults' \in 0..MaxFaults
<1>1. CASE Saved(m)
  BY <1>1 DEF Saved, TypeOK
<1>2. CASE Refused
  BY <1>2 DEF Refused, TypeOK
<1>3. CASE Unwritten
  BY <1>3, ConstantsAssumption DEF Unwritten, Fault, TypeOK
<1>4. CASE Uncertain(m)
  <2>1. [mem EXCEPT !.dirty = TRUE] \in Manifests
    BY DEF TypeOK, Manifests
  <2>2. faults' \in 0..MaxFaults
    BY <1>4, ConstantsAssumption DEF Uncertain, Fault, TypeOK
  <2> QED
    BY <1>4, <2>1, <2>2 DEF Uncertain
<1> QED
  BY <1>1, <1>2, <1>3, <1>4 DEF NotSaved

LEMMA BeginTyped ==
  ASSUME TypeOK, NEW kind \in {"auto", "asked"}, NEW d \in Deltas, NEW want \in SUBSET Songs,
         Begin(kind, d, want), offer' \subseteq offer
  PROVE  TypeOK'
<1>1. d.deletes \subseteq Items /\ mem.profile \in Profiles
  BY DEF Deltas, TypeOK, Manifests
<1>2. [d EXCEPT !.deletes = @ \ (d.deletes \ Removals(d))] \in Deltas
  BY DEF Deltas
<1>3. run' \in Runs
  BY <1>1, <1>2, BlankRun DEF Begin, Runs, PhaseAt
<1>4. goal' \subseteq Ids
  BY GoalTyped DEF Begin, TypeOK
<1> QED
  BY <1>3, <1>4 DEF Begin, TypeOK, serverVars, deviceVars

LEMMA TypeStarts ==
  ASSUME TypeOK, Offer \/ Execute \/ AutoSync PROVE TypeOK'
<1>1. CASE Offer
  <2>1. PICK d \in CalculateDelta(mem, basket) :
          offer' = {[delta |-> Augment(mem, d), want |-> basket]}
    BY <1>1 DEF Offer
  <2>2. d \in Deltas
    BY DeltaTyped DEF TypeOK
  <2>3. Augment(mem, d) \in Deltas
    BY <2>2, AugmentTyped DEF TypeOK
  <2>4. offer' \subseteq [delta : Deltas, want : SUBSET Songs]
    BY <2>1, <2>3 DEF TypeOK
  <2> QED
    BY <1>1, <2>4 DEF Offer, TypeOK, serverVars, deviceVars, historyVars
<1>2. CASE Execute
  <2>1. PICK o \in offer : /\ offer' = {}
                           /\ \/ Begin("asked", o.delta, o.want)
                              \/ Begin("asked", Forced(mem, o.delta), o.want)
    BY <1>2 DEF Execute
  <2>2. o.delta \in Deltas /\ o.want \in SUBSET Songs
    BY DEF TypeOK
  <2>3. Forced(mem, o.delta) \in Deltas
    BY <2>2, ForceTyped DEF TypeOK
  <2> QED
    BY <2>1, <2>2, <2>3, BeginTyped
<1>3. CASE AutoSync
  <2>1. PICK R \in SUBSET basket :
          \E d \in CalculateDelta(mem, R) : Begin("auto", d, R)
    BY <1>3 DEF AutoSync
  <2>2. PICK d \in CalculateDelta(mem, R) : Begin("auto", d, R)
    BY <2>1
  <2>3. d \in Deltas
    BY <2>1, DeltaTyped DEF TypeOK
  <2> QED
    BY <1>3, <2>2, <2>3, BeginTyped DEF AutoSync, TypeOK
<1> QED
  BY <1>1, <1>2, <1>3
LEMMA RunForms ==
  ASSUME TypeOK
  PROVE  /\ \A phase \in PhaseAt : [run EXCEPT !.phase = phase, !.add = {}, !.delete = {}] \in Runs
         /\ Stopped \in Runs
         /\ [run EXCEPT !.cancelled = TRUE] \in Runs
         /\ [run EXCEPT !.phase = "work"] \in Runs
<1>1. run \in Runs
  BY DEF TypeOK
<1> QED
  BY <1>1 DEF Stopped, Runs, PhaseAt

LEMMA TodoForms ==
  ASSUME TypeOK, NEW x
  PROVE  /\ Without(x) \in Runs
         /\ [run EXCEPT !.todo.deletes = @ \ {x}] \in Runs
         /\ [run EXCEPT !.todo.changes = @ \ {x}] \in Runs
<1>1. run \in Runs /\ run.todo \in Deltas
  BY DEF TypeOK, Runs
<1>2. /\ [run.todo EXCEPT !.adds = @ \ {x}] \in Deltas
      /\ [run.todo EXCEPT !.deletes = @ \ {x}] \in Deltas
      /\ [run.todo EXCEPT !.changes = @ \ {x}] \in Deltas
  BY <1>1 DEF Deltas
<1> QED
  BY <1>1, <1>2 DEF Without, Runs

(* What a step of the run does to the manifest keeps it one.               *)
LEMMA ManifestForms ==
  ASSUME TypeOK, NEW S \in SUBSET Items
  PROVE  /\ [mem EXCEPT !.items = S] \in Manifests
         /\ \A b \in BOOLEAN : [mem EXCEPT !.dirty = b] \in Manifests
         /\ Clean(mem) \in Manifests
  BY DEF TypeOK, Manifests, Clean

LEMMA TypeAdds ==
  ASSUME TypeOK, NEW a \in run.todo.adds, SkipAdd(a) \/ WriteFile(a) \/ WriteFails(a)
  PROVE  TypeOK'
<1>1. a \in Adds /\ run \in Runs
  BY DEF TypeOK, Runs, Deltas
<1>2. Song(a.id) \in Songs /\ PathFor(a) \in Paths /\ run.profile \in Profiles
  BY <1>1, PathTyped DEF TypeOK, Runs
<1>3. Without(a) \in Runs
  BY TodoForms
<1>4. CASE SkipAdd(a)
  <2>1. run' \in Runs
    BY <1>3, <1>4 DEF SkipAdd, Runs
  <2>2. goal' \subseteq Ids
    BY <1>4 DEF SkipAdd, TypeOK
  <2>3. faults' \in 0..MaxFaults
    BY <1>4, ConstantsAssumption DEF SkipAdd, Fault, TypeOK
  <2> QED
    BY <1>4, <2>1, <2>2, <2>3 DEF SkipAdd, TypeOK, unchangedByRun, serverVars
<1>5. CASE WriteFile(a)
  <2>1. run' \in Runs
    BY <1>1, <1>3, <1>5 DEF WriteFile, Runs, PhaseAt
  <2>2. files' \in [Paths -> Contents] /\ doubt' \subseteq Paths /\ touched' \in BOOLEAN
    BY <1>2, <1>5 DEF WriteFile, TypeOK, Contents
  <2> QED
    BY <1>5, <2>1, <2>2 DEF WriteFile, TypeOK, unchangedByRun, serverVars
<1>6. CASE WriteFails(a)
  <2>1. run' \in Runs
    BY <1>3, <1>6 DEF WriteFails, Runs
  <2>2. files' \in [Paths -> Contents] /\ doubt' \subseteq Paths /\ touched' \in BOOLEAN
    <3>1. [files EXCEPT ![PathFor(a)] = Torn] \in [Paths -> Contents]
      BY <1>2 DEF TypeOK, Contents
    <3> QED
      BY <1>2, <1>6, <3>1 DEF WriteFails, TypeOK
  <2>3. faults' \in 0..MaxFaults
    BY <1>6, ConstantsAssumption DEF WriteFails, Breaks, Fault, TypeOK
  <2> QED
    BY <1>6, <2>1, <2>2, <2>3 DEF WriteFails, TypeOK, unchangedByRun, serverVars
<1> QED
  BY <1>4, <1>5, <1>6

LEMMA RemoveTyped ==
  ASSUME TypeOK, NEW ps \in SUBSET Paths, Remove(ps)
  PROVE  files' \in [Paths -> Contents] /\ doubt' \subseteq Paths /\ touched' \in BOOLEAN
<1>1. [p \in Paths |-> IF p \in ps THEN Absent ELSE files[p]] \in [Paths -> Contents]
  BY DEF TypeOK, Contents
<1> QED
  BY <1>1 DEF Remove, TypeOK

LEMMA TypeReplaces ==
  ASSUME TypeOK, Replace \/ ReplaceFails \/ Record PROVE TypeOK'
<1>1. run \in Runs /\ run.add \subseteq Adds /\ run.replaced \subseteq Items
  BY DEF TypeOK, Runs
<1>2. Old \subseteq Items /\ {it.path : it \in Old} \subseteq Paths
  BY <1>1 DEF Old, Items
<1>3. CASE Replace
  <2>1. run' \in Runs
    BY <1>1, <1>2, <1>3 DEF Replace, Runs, PhaseAt
  <2> QED
    BY <1>2, <1>3, <2>1, RemoveTyped DEF Replace, TypeOK, unchangedByRun, serverVars
<1>4. CASE ReplaceFails
  <2>1. run' \in Runs
    BY <1>1, <1>4 DEF ReplaceFails, Runs, PhaseAt
  <2>2. doubt' \subseteq Paths /\ faults' \in 0..MaxFaults
    BY <1>2, <1>4, ConstantsAssumption DEF ReplaceFails, Breaks, Fault, TypeOK
  <2> QED
    BY <1>4, <2>1, <2>2 DEF ReplaceFails, TypeOK, unchangedByRun, serverVars
<1>5. CASE Record
  <2> DEFINE it(a) == [id |-> a.id, path |-> PathFor(a), rate |-> a.rate]
             m(a) == [mem EXCEPT !.items = {i \in @ : i.id # a.id} \cup {it(a)}]
  <2>1. PICK a \in run.add :
          /\ \/ Saved(m(a)) /\ Goto("work")
             \/ NotSaved(m(a)) /\ run' = Stopped
          /\ doubt' \subseteq doubt \cup Left(a)
    BY <1>5 DEF Record
  <2>2. it(a) \in Items
    BY <1>1, <2>1, PathTyped DEF Items, Adds
  <2>3. {i \in mem.items : i.id # a.id} \cup {it(a)} \subseteq Items
    BY <2>2 DEF TypeOK, Manifests
  <2>4. m(a) \in Manifests
    BY <2>3, ManifestForms
  <2>5. Left(a) \subseteq Paths
    BY DEF Left, TypeOK, Manifests, Items
  <2>6. mem' \in Manifests /\ durable' \in Manifests /\ faults' \in 0..MaxFaults
    <3> HIDE DEF m, it
    <3> QED
      BY <2>1, <2>4, WriteTyped
  <2>7. run' \in Runs
    BY <2>1, RunForms DEF Goto, PhaseAt
  <2>8. doubt' \subseteq Paths
    BY <2>1, <2>5 DEF TypeOK
  <2> QED
    BY <1>5, <2>6, <2>7, <2>8 DEF Record, TypeOK, unchangedByRun, serverVars
<1> QED
  BY <1>3, <1>4, <1>5
LEMMA TypeDeletes ==
  ASSUME TypeOK,
         Forget \/ \E d \in run.todo.deletes : DeleteFile(d) \/ DeleteFails(d)
  PROVE  TypeOK'
<1>1. run \in Runs /\ run.todo.deletes \subseteq Items
  BY DEF TypeOK, Runs, Deltas
<1>2. CASE Forget
  <2> DEFINE m(d) == [mem EXCEPT !.items = {i \in @ : i.id # d.id}]
  <2>1. PICK d \in run.delete :
          /\ \/ Saved(m(d)) /\ Goto("work")
             \/ NotSaved(m(d)) /\ run' = Stopped
          /\ doubt' \subseteq doubt
    BY <1>2 DEF Forget
  <2>2. {i \in mem.items : i.id # d.id} \subseteq Items
    BY DEF TypeOK, Manifests
  <2>3. m(d) \in Manifests
    BY <2>2, ManifestForms
  <2>4. mem' \in Manifests /\ durable' \in Manifests /\ faults' \in 0..MaxFaults
    <3> HIDE DEF m
    <3> QED
      BY <2>1, <2>3, WriteTyped
  <2>5. run' \in Runs
    BY <2>1, RunForms DEF Goto, PhaseAt
  <2>6. doubt' \subseteq Paths
    BY <2>1 DEF TypeOK
  <2> QED
    BY <1>2, <2>4, <2>5, <2>6 DEF Forget, TypeOK, unchangedByRun, serverVars
<1>3. CASE \E d \in run.todo.deletes : DeleteFile(d)
  <2>1. PICK d \in run.todo.deletes : DeleteFile(d)
    BY <1>3
  <2>2. d \in Items /\ {d.path} \subseteq Paths
    BY <1>1 DEF Items
  <2>3. run' \in Runs
    <3>1. [run EXCEPT !.todo.deletes = @ \ {d}] \in Runs
      BY TodoForms
    <3>2. run' = [[run EXCEPT !.todo.deletes = @ \ {d}] EXCEPT !.phase = "forget", !.delete = {d}]
      BY <1>1, <2>1 DEF DeleteFile, Runs
    <3> QED
      BY <2>2, <3>1, <3>2 DEF Runs, PhaseAt
  <2> QED
    BY <2>1, <2>2, <2>3, RemoveTyped DEF DeleteFile, TypeOK, unchangedByRun, serverVars
<1>4. CASE \E d \in run.todo.deletes : DeleteFails(d)
  <2>1. PICK d \in run.todo.deletes : DeleteFails(d)
    BY <1>4
  <2>2. run' \in Runs
    <3>1. [run EXCEPT !.todo.deletes = @ \ {d}] \in Runs
      BY TodoForms
    <3>2. run' = [[run EXCEPT !.todo.deletes = @ \ {d}] EXCEPT !.failed = TRUE]
      BY <1>1, <2>1 DEF DeleteFails, Runs
    <3> QED
      BY <3>1, <3>2 DEF Runs
  <2>3. faults' \in 0..MaxFaults
    <3>1. Breaks
      BY <2>1 DEF DeleteFails
    <3> QED
      BY <3>1, ConstantsAssumption DEF Breaks, Fault, TypeOK
  <2> QED
    BY <2>1, <2>2, <2>3 DEF DeleteFails, TypeOK, unchangedByRun, serverVars, historyVars
<1> QED
  BY <1>2, <1>3, <1>4

LEMMA TypeChanges ==
  ASSUME TypeOK, NEW c \in run.todo.changes, ChangeId(c) PROVE TypeOK'
<1> DEFINE it == [id |-> c.new, path |-> c.old.path, rate |-> 0]
           m == [mem EXCEPT !.items = {i \in @ : i.id # c.old.id} \cup {it}]
<1>1. c \in Changes
  BY DEF TypeOK, Runs, Deltas
<1>2. it \in Items
  BY <1>1, ConstantsAssumption DEF Changes, Items
<1>3. {i \in mem.items : i.id # c.old.id} \cup {it} \subseteq Items
  BY <1>2 DEF TypeOK, Manifests
<1>4. m \in Manifests
  BY <1>3, ManifestForms
<1>5. \/ Saved(m) /\ run' = [run EXCEPT !.todo.changes = @ \ {c}]
      \/ NotSaved(m) /\ run' = Stopped
  BY DEF ChangeId
<1>6. mem' \in Manifests /\ durable' \in Manifests /\ faults' \in 0..MaxFaults
  <2> HIDE DEF m
  <2> QED
    BY <1>4, <1>5, WriteTyped
<1>7. run' \in Runs
  BY <1>5, TodoForms, RunForms
<1> QED
  BY <1>6, <1>7 DEF ChangeId, TypeOK, unchangedByRun, serverVars, historyVars

LEMMA TypeEnds ==
  ASSUME TypeOK, MarkDirty \/ Complete \/ CompleteFails \/ GiveUp PROVE TypeOK'
<1>1. [mem EXCEPT !.dirty = TRUE] \in Manifests /\ Clean(mem) \in Manifests
  BY ManifestForms DEF TypeOK, Manifests
<1>2. CASE MarkDirty
  <2>1. mem' \in Manifests /\ durable' \in Manifests /\ faults' \in 0..MaxFaults
    BY <1>1, <1>2, WriteTyped DEF MarkDirty
  <2>2. run' \in Runs
    BY <1>2, RunForms, BlankRun DEF MarkDirty, Goto, PhaseAt
  <2> QED
    BY <1>2, <2>1, <2>2 DEF MarkDirty, TypeOK, unchangedByRun, serverVars, historyVars
<1>3. CASE Complete \/ CompleteFails
  <2>1. mem' \in Manifests /\ durable' \in Manifests /\ faults' \in 0..MaxFaults
    BY <1>1, <1>3, WriteTyped DEF Complete, CompleteFails
  <2>2. touched' \in BOOLEAN
    BY <1>3 DEF Complete, CompleteFails, TypeOK
  <2> QED
    BY <1>3, <2>1, <2>2, BlankRun
       DEF Complete, CompleteFails, TypeOK, unchangedByRun, serverVars
<1>4. CASE GiveUp
  BY <1>4, BlankRun DEF GiveUp, TypeOK, unchangedByRun, serverVars, historyVars
<1> QED
  BY <1>2, <1>3, <1>4

LEMMA TypeWorld ==
  ASSUME TypeOK, Cancel \/ Crash \/ Unplug \/ Plug PROVE TypeOK'
<1>1. CASE Cancel
  <2>1. run' \in Runs
    BY <1>1, RunForms DEF Cancel
  <2>2. faults' \in 0..MaxFaults
    BY <1>1, ConstantsAssumption DEF Cancel, Fault, TypeOK
  <2> QED
    BY <1>1, <2>1, <2>2 DEF Cancel, TypeOK, unchangedByRun, serverVars, historyVars
<1>2. CASE Crash
  BY <1>2, BlankRun, ConstantsAssumption
     DEF Crash, Fault, TypeOK, serverVars, deviceVars, historyVars
<1>3. CASE Unplug
  <2>1. run' \in Runs
    BY <1>3, RunForms DEF Unplug, TypeOK
  <2>2. faults' \in 0..MaxFaults
    BY <1>3, ConstantsAssumption DEF Unplug, Fault, TypeOK
  <2> QED
    BY <1>3, <2>1, <2>2 DEF Unplug, TypeOK, serverVars, historyVars
<1>4. CASE Plug
  BY <1>4 DEF Plug, TypeOK, serverVars, historyVars
<1> QED
  BY <1>1, <1>2, <1>3, <1>4

LEMMA TypeUser == ASSUME TypeOK, User PROVE TypeOK'
<1>1. ASSUME NEW s \in Songs, Choose(s) \/ Reidentify(s) \/ Upgrade(s) PROVE TypeOK'
  <2>1. edits' \in 0..MaxEdits
    BY <1>1, ConstantsAssumption DEF Choose, Reidentify, Upgrade, Edit, TypeOK
  <2>2. CASE Choose(s)
    BY <2>1, <2>2 DEF Choose, TypeOK, besidesServer, deviceVars, historyVars
  <2>3. CASE Reidentify(s)
    <3>1. live[s] + 1 \in 1..MaxVersion
      BY <2>3, ConstantsAssumption DEF Reidentify, TypeOK
    <3>2. live' \in [Songs -> 1..MaxVersion]
      BY <2>3, <3>1 DEF Reidentify, TypeOK
    <3> QED
      BY <2>1, <2>3, <3>2 DEF Reidentify, TypeOK, besidesServer, deviceVars, historyVars
  <2>4. CASE Upgrade(s)
    <3>1. quality[s] + 1 \in 1..MaxQuality
      BY <2>4, ConstantsAssumption DEF Upgrade, TypeOK
    <3>2. quality' \in [Songs -> 1..MaxQuality]
      BY <2>4, <3>1 DEF Upgrade, TypeOK
    <3> QED
      BY <2>1, <2>4, <3>2 DEF Upgrade, TypeOK, besidesServer, deviceVars, historyVars
  <2> QED
    BY <1>1, <2>2, <2>3, <2>4
<1>2. ASSUME NEW p \in Profiles, SetProfile(p) PROVE TypeOK'
  <2>1. PICK stale \in BOOLEAN :
          LET m == [mem EXCEPT !.profile = p, !.profileDirty = stale] IN Saved(m) \/ NotSaved(m)
    BY <1>2 DEF SetProfile
  <2>2. [mem EXCEPT !.profile = p, !.profileDirty = stale] \in Manifests
    BY DEF TypeOK, Manifests
  <2>3. mem' \in Manifests /\ durable' \in Manifests /\ faults' \in 0..MaxFaults
    BY <2>1, <2>2, WriteTyped
  <2>4. edits' \in 0..MaxEdits
    BY <1>2, ConstantsAssumption DEF SetProfile, Edit, TypeOK
  <2> QED
    BY <1>2, <2>3, <2>4 DEF SetProfile, TypeOK, serverVars, deviceVars, historyVars
<1>3. ASSUME NEW it \in mem.items, NEW p \in Paths, Relink(it, p) PROVE TypeOK'
  <2>1. it \in Items /\ [it EXCEPT !.path = p] \in Items
    BY DEF TypeOK, Manifests, Items
  <2>2. (mem.items \ {it}) \cup {[it EXCEPT !.path = p]} \subseteq Items
    BY <2>1 DEF TypeOK, Manifests
  <2>3. [mem EXCEPT !.items = (@ \ {it}) \cup {[it EXCEPT !.path = p]}] \in Manifests
    BY <2>2, ManifestForms
  <2>4. mem' \in Manifests /\ durable' \in Manifests /\ faults' \in 0..MaxFaults
    BY <1>3, <2>3, WriteTyped DEF Relink
  <2>5. edits' \in 0..MaxEdits
    BY <1>3, ConstantsAssumption DEF Relink, Edit, TypeOK
  <2>6. doubt' \subseteq Paths
    BY <1>3, <2>1 DEF Relink, TypeOK, Items
  <2> QED
    BY <1>3, <2>4, <2>5, <2>6 DEF Relink, TypeOK, serverVars, deviceVars
<1>4. CASE Prune
  <2>1. mem.items \ Missing \subseteq Items
    BY DEF TypeOK, Manifests
  <2>2. [mem EXCEPT !.items = @ \ Missing] \in Manifests
    BY <2>1, ManifestForms
  <2>3. mem' \in Manifests /\ durable' \in Manifests /\ faults' \in 0..MaxFaults
    BY <1>4, <2>2, WriteTyped DEF Prune
  <2>4. edits' \in 0..MaxEdits
    BY <1>4, ConstantsAssumption DEF Prune, Edit, TypeOK
  <2>5. doubt' \subseteq Paths
    BY <1>4 DEF Prune, Missing, TypeOK, Manifests, Items
  <2> QED
    BY <1>4, <2>3, <2>4, <2>5 DEF Prune, TypeOK, serverVars, deviceVars
<1>5. CASE ClearDirty
  <2>1. [mem EXCEPT !.dirty = FALSE] \in Manifests
    BY DEF TypeOK, Manifests
  <2>2. mem' \in Manifests /\ durable' \in Manifests /\ faults' \in 0..MaxFaults
    BY <1>5, <2>1, WriteTyped DEF ClearDirty
  <2>3. edits' \in 0..MaxEdits
    BY <1>5, ConstantsAssumption DEF ClearDirty, Edit, TypeOK
  <2> QED
    BY <1>5, <2>2, <2>3 DEF ClearDirty, TypeOK, serverVars, deviceVars
<1> QED
  BY <1>1, <1>2, <1>3, <1>4, <1>5 DEF User

LEMMA TypeNext == TypeOK /\ [Next]_vars => TypeOK'
<1> SUFFICES ASSUME TypeOK, [Next]_vars PROVE TypeOK'
  OBVIOUS
<1>1. CASE UNCHANGED vars
  BY <1>1 DEF vars, TypeOK, serverVars, deviceVars, historyVars
<1>2. CASE Step
  BY <1>2, TypeAdds, TypeReplaces, TypeDeletes, TypeChanges, TypeEnds DEF Step
<1> QED
  BY <1>1, <1>2, TypeStarts, TypeWorld, TypeUser DEF Next

LEMMA TypeInit == Init => TypeOK
<1> SUFFICES ASSUME Init PROVE TypeOK
  OBVIOUS
<1>1. mem \in Manifests
  BY ConstantsAssumption DEF Init, Manifests
<1>2. files \in [Paths -> Contents]
  BY DEF Init, Contents
<1>3. live \in [Songs -> 1..MaxVersion] /\ quality \in [Songs -> 1..MaxQuality]
  BY ConstantsAssumption DEF Init
<1>4. basket \subseteq Songs /\ class \in {"msc", "mtp"} /\ plugged \in BOOLEAN
  BY DEF Init
<1>5. durable \in Manifests /\ run \in Runs /\ offer \subseteq [delta : Deltas, want : SUBSET Songs]
  BY <1>1, BlankRun DEF Init
<1>6. edits \in 0..MaxEdits /\ faults \in 0..MaxFaults
  BY ConstantsAssumption DEF Init
<1>7. doubt \subseteq Paths /\ touched \in BOOLEAN /\ goal \subseteq Ids
  BY DEF Init
<1> QED
  BY <1>1, <1>2, <1>3, <1>4, <1>5, <1>6, <1>7 DEF TypeOK

(* Every step keeps every variable in its type.                            *)
THEOREM TypeCorrect == Spec => []TypeOK
  BY TypeInit, TypeNext, PTL DEF Spec
(***************************************************************************)
(* The dirty flag.  While a run may touch the device both copies of the    *)
(* manifest carry it, and after a run that did not complete both keep it:  *)
(* whatever is written next is derived from a copy that does.              *)
(***************************************************************************)
Working == run.phase \in {"work", "replace", "record", "forget"}
Marked == Working \/ touched => mem.dirty /\ durable.dirty

(* A manifest that carries the flag, written or not, leaves it in both.    *)
LEMMA FlagStays ==
  ASSUME TypeOK, NEW m \in Manifests, m.dirty, mem.dirty, durable.dirty,
         Saved(m) \/ NotSaved(m)
  PROVE  mem'.dirty /\ durable'.dirty
<1>1. [mem EXCEPT !.dirty = TRUE].dirty
  BY DEF TypeOK, Manifests
<1> QED
  BY <1>1 DEF Saved, NotSaved, Refused, Unwritten, Uncertain

LEMMA MarkedStarts ==
  ASSUME TypeOK, Marked, Offer \/ Execute \/ AutoSync PROVE Marked'
<1>1. CASE Offer
  BY <1>1 DEF Offer, Marked, Working, historyVars
<1>2. ASSUME NEW kind, NEW d, NEW want, Begin(kind, d, want) PROVE Marked'
  <2>1. run'.phase = "mark"
    BY <1>2, BlankRun DEF Begin, Runs
  <2> QED
    BY <1>2, <2>1 DEF Begin, Marked, Working
<1> QED
  BY <1>1, <1>2 DEF Execute, AutoSync

LEMMA MarkedMark ==
  ASSUME TypeOK, Marked, MarkDirty PROVE Marked'
<1> DEFINE m == [mem EXCEPT !.dirty = TRUE]
<1>1. m \in Manifests /\ m.dirty
  BY DEF TypeOK, Manifests
<1>2. CASE Saved(m)
  BY <1>1, <1>2 DEF Saved, Marked
<1>3. CASE NotSaved(m) /\ run' = NoRun
  <2>1. touched' = touched /\ ~Working'
    BY <1>3 DEF MarkDirty, historyVars, Working, NoRun
  <2>2. touched => mem'.dirty /\ durable'.dirty
    <3> HIDE DEF m
    <3> QED
      BY <1>1, <1>3, FlagStays DEF Marked
  <2> QED
    BY <2>1, <2>2 DEF Marked
<1> QED
  BY <1>2, <1>3 DEF MarkDirty

(* Steps that leave the manifest alone.                                    *)
LEMMA MarkedFiles ==
  ASSUME TypeOK, Marked, UNCHANGED <<mem, durable>>, Working
  PROVE  Marked'
  BY DEF Marked

LEMMA MarkedItems ==
  ASSUME TypeOK, Marked, Working, NEW S \in SUBSET Items,
         LET m == [mem EXCEPT !.items = S] IN Saved(m) \/ NotSaved(m)
  PROVE  Marked'
<1> DEFINE m == [mem EXCEPT !.items = S]
<1>1. mem.dirty /\ durable.dirty
  BY DEF Marked
<1>2. m \in Manifests /\ m.dirty
  BY <1>1, ManifestForms DEF TypeOK, Manifests
<1>3. mem'.dirty /\ durable'.dirty
  <2> HIDE DEF m
  <2>1. Saved(m) \/ NotSaved(m)
    BY DEF m
  <2> QED
    BY <1>1, <1>2, <2>1, FlagStays
<1> QED
  BY <1>3 DEF Marked

LEMMA MarkedSteps ==
  ASSUME TypeOK, Marked, Step PROVE Marked'
<1>1. CASE MarkDirty
  BY <1>1, MarkedMark
<1>2. CASE Replace \/ ReplaceFails
  BY <1>2, MarkedFiles DEF Replace, ReplaceFails, Working, At
<1>3. ASSUME NEW a, SkipAdd(a) \/ WriteFile(a) \/ WriteFails(a) PROVE Marked'
  BY <1>3, MarkedFiles DEF SkipAdd, WriteFile, WriteFails, Adding, Working, At
<1>4. ASSUME NEW d, DeleteFile(d) \/ DeleteFails(d) PROVE Marked'
  BY <1>4, MarkedFiles DEF DeleteFile, DeleteFails, Deleting, Working, At
<1>5. CASE Record
  <2>1. Working
    BY <1>5 DEF Record, Working, At
  <2>2. PICK a \in run.add :
          LET m == [mem EXCEPT !.items = {i \in @ : i.id # a.id}
                      \cup {[id |-> a.id, path |-> PathFor(a), rate |-> a.rate]}] IN
            Saved(m) \/ NotSaved(m)
    BY <1>5 DEF Record
  <2>3. [id |-> a.id, path |-> PathFor(a), rate |-> a.rate] \in Items
    BY <2>2, PathTyped DEF TypeOK, Runs, Items, Adds
  <2>4. {i \in mem.items : i.id # a.id}
          \cup {[id |-> a.id, path |-> PathFor(a), rate |-> a.rate]} \in SUBSET Items
    BY <2>3 DEF TypeOK, Manifests
  <2> QED
    BY <2>1, <2>2, <2>4, MarkedItems
<1>6. CASE Forget
  <2>1. Working
    BY <1>6 DEF Forget, Working, At
  <2>2. PICK d \in run.delete :
          LET m == [mem EXCEPT !.items = {i \in @ : i.id # d.id}] IN Saved(m) \/ NotSaved(m)
    BY <1>6 DEF Forget
  <2>3. {i \in mem.items : i.id # d.id} \in SUBSET Items
    BY DEF TypeOK, Manifests
  <2> QED
    BY <2>1, <2>2, <2>3, MarkedItems
<1>7. ASSUME NEW c \in run.todo.changes, ChangeId(c) PROVE Marked'
  <2> DEFINE it == [id |-> c.new, path |-> c.old.path, rate |-> 0]
             S == {i \in mem.items : i.id # c.old.id} \cup {it}
  <2>1. Working
    BY <1>7 DEF ChangeId, Working, At
  <2>2. c \in Changes
    BY DEF TypeOK, Runs, Deltas
  <2>3. it \in Items
    BY <2>2, ConstantsAssumption DEF Changes, Items
  <2>4. S \in SUBSET Items
    BY <2>3 DEF TypeOK, Manifests
  <2>5. Saved([mem EXCEPT !.items = S]) \/ NotSaved([mem EXCEPT !.items = S])
    BY <1>7 DEF ChangeId
  <2> HIDE DEF S, it
  <2> QED
    BY <2>1, <2>4, <2>5, MarkedItems
<1>8. CASE Complete
  BY <1>8 DEF Complete, Marked, Working, NoRun
<1>9. CASE CompleteFails
  <2> DEFINE m == Clean(mem)
  <2>1. mem.dirty /\ durable.dirty
    BY <1>9 DEF CompleteFails, Done, At, Working, Marked
  <2>2. ~m.dirty /\ [mem EXCEPT !.dirty = TRUE].dirty
    BY DEF Clean, TypeOK, Manifests
  <2>3. NotSaved(m) /\ run' = NoRun /\ touched' = (touched /\ durable' # m)
    BY <1>9 DEF CompleteFails
  <2>4. ~Working'
    BY <2>3 DEF Working, NoRun
  <2>5. durable' # m => mem'.dirty /\ durable'.dirty
    BY <2>1, <2>2, <2>3 DEF NotSaved, Refused, Unwritten, Uncertain
  <2> QED
    BY <2>3, <2>4, <2>5 DEF Marked
<1>10. CASE GiveUp
  BY <1>10 DEF GiveUp, Marked, Working, NoRun, historyVars
<1> QED
  BY <1>1, <1>2, <1>3, <1>4, <1>5, <1>6, <1>7, <1>8, <1>9, <1>10 DEF Step
LEMMA MarkedWorld ==
  ASSUME TypeOK, Marked, Cancel \/ Crash \/ Unplug \/ Plug PROVE Marked'
<1>1. CASE Cancel
  <2>1. run'.phase = run.phase
    BY <1>1 DEF Cancel, TypeOK, Runs
  <2> QED
    BY <1>1, <2>1 DEF Cancel, Marked, Working, historyVars
<1>2. CASE Crash
  BY <1>2 DEF Crash, Marked, Working, NoRun, historyVars
<1>3. CASE Unplug
  <2>1. run'.phase = run.phase
    BY <1>3 DEF Unplug, TypeOK, Runs
  <2> QED
    BY <1>3, <2>1 DEF Unplug, Marked, Working, historyVars
<1>4. CASE Plug
  BY <1>4 DEF Plug, Marked, Working, historyVars
<1> QED
  BY <1>1, <1>2, <1>3, <1>4

(* The user changes items and settings of an idle device's manifest.       *)
LEMMA MarkedWrite ==
  ASSUME TypeOK, Marked, ~Working, UNCHANGED <<run, touched>>,
         NEW m \in Manifests, m.dirty = mem.dirty, Saved(m) \/ NotSaved(m)
  PROVE  Marked'
<1>1. ~Working'
  BY DEF Working
<1>2. touched => mem'.dirty /\ durable'.dirty
  BY FlagStays DEF Marked
<1> QED
  BY <1>1, <1>2 DEF Marked

LEMMA MarkedUser ==
  ASSUME TypeOK, Marked, "anytime" \notin Edits, User PROVE Marked'
<1>1. ASSUME NEW s, Choose(s) \/ Reidentify(s) \/ Upgrade(s) PROVE Marked'
  BY <1>1 DEF Choose, Reidentify, Upgrade, besidesServer, historyVars, Marked, Working
<1>2. Quiet => ~Working
  BY DEF Quiet, Idle, Working
<1>3. ASSUME NEW p \in Profiles, SetProfile(p) PROVE Marked'
  <2>1. PICK stale \in BOOLEAN :
          LET m == [mem EXCEPT !.profile = p, !.profileDirty = stale] IN Saved(m) \/ NotSaved(m)
    BY <1>3 DEF SetProfile
  <2> DEFINE m == [mem EXCEPT !.profile = p, !.profileDirty = stale]
  <2>2. m \in Manifests /\ m.dirty = mem.dirty
    BY DEF TypeOK, Manifests
  <2>3. (Saved(m) \/ NotSaved(m)) /\ ~Working /\ UNCHANGED <<run, touched>>
    BY <1>2, <1>3, <2>1 DEF SetProfile, historyVars
  <2> HIDE DEF m
  <2> QED
    BY <2>2, <2>3, MarkedWrite
<1>4. ASSUME NEW it \in mem.items, NEW p \in Paths, Relink(it, p) PROVE Marked'
  <2> DEFINE m == [mem EXCEPT !.items = (@ \ {it}) \cup {[it EXCEPT !.path = p]}]
  <2>1. (mem.items \ {it}) \cup {[it EXCEPT !.path = p]} \subseteq Items
    BY DEF TypeOK, Manifests, Items
  <2>2. m \in Manifests /\ m.dirty = mem.dirty
    BY <2>1 DEF TypeOK, Manifests
  <2>3. (Saved(m) \/ NotSaved(m)) /\ ~Working /\ UNCHANGED <<run, touched>>
    BY <1>2, <1>4 DEF Relink
  <2> HIDE DEF m
  <2> QED
    BY <2>2, <2>3, MarkedWrite
<1>5. CASE Prune
  <2> DEFINE m == [mem EXCEPT !.items = @ \ Missing]
  <2>1. m \in Manifests /\ m.dirty = mem.dirty
    BY DEF TypeOK, Manifests
  <2>2. (Saved(m) \/ NotSaved(m)) /\ ~Working /\ UNCHANGED <<run, touched>>
    BY <1>2, <1>5 DEF Prune
  <2> HIDE DEF m
  <2> QED
    BY <2>1, <2>2, MarkedWrite
<1>6. CASE ClearDirty
  <2>1. ~Working' /\ touched' = FALSE
    BY <1>6 DEF ClearDirty, Quiet, Idle, Working
  <2> QED
    BY <2>1 DEF Marked
<1> QED
  BY <1>1, <1>3, <1>4, <1>5, <1>6 DEF User

(* What survives a crash says that a run changed the device and did not    *)
(* complete, for any number of failures, crashes, unpluggings and edits    *)
(* between runs, the flag being cleared by the user alone.                 *)
THEOREM DirtySurvives ==
  ASSUME "anytime" \notin Edits PROVE Spec => []InterruptedIsDirty
<1>1. Init => Marked
  BY BlankRun DEF Init, Marked, Working, NoRun
<1>2. TypeOK /\ Marked /\ [Next]_vars => Marked'
  <2> SUFFICES ASSUME TypeOK, Marked, [Next]_vars PROVE Marked'
    OBVIOUS
  <2>1. CASE UNCHANGED vars
    BY <2>1 DEF vars, Marked, Working, historyVars
  <2> QED
    BY <2>1, MarkedStarts, MarkedSteps, MarkedWorld, MarkedUser DEF Next
<1>3. Marked => InterruptedIsDirty
  BY DEF Marked, InterruptedIsDirty
<1> QED
  BY <1>1, <1>2, <1>3, TypeCorrect, PTL DEF Spec

-----------------------------------------------------------------------------
(***************************************************************************)
(* A plan: the adds A, deletes D and changes C that are left to do on a    *)
(* list I.  A track is in one of them at most, and listed once.            *)
(***************************************************************************)
Alike(i, j) == Song(i) = Song(j) /\ Song(i) \in Matched
Single(I) == \A i \in I, j \in I : i.id = j.id \/ Alike(i.id, j.id) => i = j

AddsFit(A, I) ==
  /\ \A a \in A, i \in I : Alike(a.id, i.id) => a.id = i.id
  /\ \A a \in A, b \in A : Alike(a.id, b.id) => a.id = b.id
  /\ \A a \in A, b \in A : a.id = b.id /\ a # b => \E i \in I : i.id = a.id
DeletesFit(A, D, I) == D \subseteq I /\ \A a \in A, d \in D : a.id # d.id
ChangesFit(A, D, C, I) ==
  \A c \in C :
    /\ c.old \in I /\ Alike(c.new, c.old.id)
    /\ \A a \in A : Song(a.id) # Song(c.new)
    /\ \A d \in D : Song(d.id) # Song(c.new)
    /\ \A e \in C : e # c => Song(e.new) # Song(c.new)

(* A whole delta: what it deletes it may add again.                        *)
DeltaFits(d, I) ==
  d.deletes \subseteq I /\ AddsFit(d.adds, I) /\ ChangesFit(d.adds, d.deletes, d.changes, I)

(* The server gave a track its ids in turn, up to the one it has now.      *)
Given(i) == i[2] <= live[Song(i)]
AllGiven(I) == \A i \in I : Given(i.id)

(* No track of W is deleted for good, but one whose new id nobody knows.   *)
Spares(d, W) ==
  \A x \in d.deletes :
    Song(x.id) \in W => (\E a \in d.adds : a.id = x.id) \/ Renamed(Song(x.id))

(* What it adds is listed already, or has the id it has now.               *)
Brings(d, m) ==
  /\ \A a \in d.adds : a.id \in Desired(Songs) \cup Listed(m)
  /\ \A c \in d.changes : c.new \in Desired(Songs)

(* A server gives a track one id at a time.                                *)
LEMMA DesiredOnce ==
  ASSUME NEW R, NEW i \in Desired(R), NEW j \in Desired(R), Song(i) = Song(j)
  PROVE  i = j
  BY DEF Desired, Song

LEMMA DeltaParts ==
  ASSUME live \in [Songs -> 1..MaxVersion], quality \in [Songs -> 1..MaxQuality],
         NEW m \in Manifests, Single(m.items), NEW R \in SUBSET Songs,
         NEW d \in CalculateDelta(m, R)
  PROVE  /\ DeltaFits(d, m.items) /\ Goal(m, d) = Desired(R)
         /\ \A a \in d.adds : a.id \in Desired(R)
         /\ \A c \in d.changes : c.new \in Desired(R)
         /\ Brings(d, m) /\ (AllGiven(m.items) => Spares(d, R))
<1> DEFINE as == FirstAdds(m, R)
           ds == FirstDeletes(m, R)
<1>1. PICK M \in Matchings(as, ds) :
        d = [adds |-> {a \in as : \A c \in M : c.new # a.id},
             deletes |-> ds \ {c.old : c \in M}, changes |-> M]
  BY DEF CalculateDelta
<1>2. d.adds = {a \in as : \A c \in M : c.new # a.id} /\ d.deletes = ds \ {c.old : c \in M}
        /\ d.changes = M
  BY <1>1
<1>3. \A a \in as : a.id \in Desired(R) /\ \A i \in m.items : i.id = a.id => Outdated(m, R, i)
  BY DEF FirstAdds
<1>4. \A a \in as, b \in as : a.id = b.id => a = b
  BY DEF FirstAdds
<1>5. \A i \in Desired(R) :
        (\A x \in m.items : x.id = i => Outdated(m, R, x)) => \E a \in as : a.id = i
  <2> SUFFICES ASSUME NEW i \in Desired(R), \A x \in m.items : x.id = i => Outdated(m, R, x)
               PROVE  \E a \in as : a.id = i
    OBVIOUS
  <2> DEFINE a == [id |-> i, rate |-> quality[Song(i)]]
  <2>1. a \in as
    BY DEF FirstAdds
  <2> QED
    BY <2>1
<1>6. ds \subseteq m.items
  BY DEF FirstDeletes
<1>7. \A x \in m.items : x \in ds <=> Outdated(m, R, x) \/ x.id \notin Desired(R)
  BY DEF FirstDeletes
<1>8. \A c \in M : /\ c.new \in Desired(R) /\ c.old \in ds
                   /\ Alike(c.new, c.old.id) /\ c.new # c.old.id
  BY <1>1, <1>3 DEF Matchings, Candidates, Alike
<1>9. \A c \in M, e \in M : c.new = e.new \/ c.old = e.old => c = e
  BY <1>1 DEF Matchings
<1>10. ASSUME NEW i \in {a.id : a \in as}, NEW x \in ds, Alike(i, x.id), i # x.id
       PROVE  \/ \E e \in M : e.new = i \/ e.old = x
              \/ \E y \in ds : y.id = i
  <2> DEFINE c == [new |-> i, old |-> x]
  <2>1. c \in Candidates(as, ds)
    BY <1>10 DEF Candidates, Alike
  <2> QED
    BY <1>1, <2>1 DEF Matchings
<1> HIDE DEF as, ds
<1>11. \A c \in M, x \in m.items : Alike(c.new, x.id) => x = c.old
  BY <1>6, <1>8 DEF Single, Alike
<1>12. AddsFit(d.adds, m.items)
  <2>1. ASSUME NEW a \in d.adds, NEW i \in m.items, Alike(a.id, i.id), a.id # i.id PROVE FALSE
    <3>1. a \in as /\ a.id \in Desired(R) /\ \A c \in M : c.new # a.id
      BY <1>2, <1>3
    <3>2. i \in ds
      BY <1>7, <2>1, <3>1, DesiredOnce DEF Alike
    <3>3. \/ \E e \in M : e.new = a.id \/ e.old = i
          \/ \E y \in ds : y.id = a.id
      BY <1>10, <2>1, <3>1, <3>2
    <3>4. ASSUME NEW e \in M, e.old = i PROVE FALSE
      <4>1. Song(e.new) = Song(a.id)
        BY <1>8, <2>1, <3>4 DEF Alike
      <4> QED
        BY <1>8, <3>1, <4>1, DesiredOnce
    <3>5. ASSUME NEW y \in ds, y.id = a.id PROVE FALSE
      BY <1>6, <2>1, <3>5 DEF Single
    <3> QED
      BY <3>1, <3>3, <3>4, <3>5
  <2>2. \A a \in d.adds, b \in d.adds : Alike(a.id, b.id) => a.id = b.id
    BY <1>2, <1>3, DesiredOnce DEF Alike
  <2>3. \A a \in d.adds, b \in d.adds : a.id = b.id => a = b
    BY <1>2, <1>4
  <2> QED
    BY <2>1, <2>2, <2>3 DEF AddsFit
<1>13. ChangesFit(d.adds, d.deletes, d.changes, m.items)
  <2> SUFFICES ASSUME NEW c \in M
               PROVE  /\ c.old \in m.items /\ Alike(c.new, c.old.id)
                      /\ \A a \in d.adds : Song(a.id) # Song(c.new)
                      /\ \A x \in d.deletes : Song(x.id) # Song(c.new)
                      /\ \A e \in M : e # c => Song(e.new) # Song(c.new)
    BY <1>2 DEF ChangesFit
  <2>1. \A a \in d.adds : Song(a.id) # Song(c.new)
    BY <1>2, <1>3, <1>8, DesiredOnce
  <2>2. \A x \in d.deletes : Song(x.id) # Song(c.new)
    BY <1>2, <1>6, <1>8, <1>11 DEF Alike
  <2>3. \A e \in M : e # c => Song(e.new) # Song(c.new)
    BY <1>8, <1>9, DesiredOnce
  <2> QED
    BY <1>6, <1>8, <2>1, <2>2, <2>3
<1>14. DeltaFits(d, m.items)
  BY <1>2, <1>6, <1>12, <1>13 DEF DeltaFits
<1>15. \A x \in d.deletes : x.id \in Desired(R) => \E a \in d.adds : a.id = x.id
  <2> SUFFICES ASSUME NEW x \in ds, x.id \in Desired(R)
               PROVE  \E a \in d.adds : a.id = x.id
    BY <1>2
  <2>1. PICK a \in as : a.id = x.id
    BY <1>5, <1>6, <1>7 DEF Single
  <2>2. \A c \in M : c.new # x.id
    BY <1>6, <1>8, <1>11 DEF Alike
  <2> QED
    BY <1>2, <2>1, <2>2
<1>16. ASSUME AllGiven(m.items) PROVE Spares(d, R)
  <2> SUFFICES ASSUME NEW x \in d.deletes, Song(x.id) \in R, ~Renamed(Song(x.id))
               PROVE  \E a \in d.adds : a.id = x.id
    BY DEF Spares
  <2> DEFINE s == Song(x.id)
             j == <<s, live[s]>>
  <2>1. j \in Desired(R) /\ Song(j) = s
    BY DEF Desired, Song
  <2>2. x \in m.items /\ x \in ds /\ \A c \in M : c.old # x
    BY <1>2, <1>6
  <2>3. x.id = <<s, x.id[2]>> /\ x.id[2] \in 1..MaxVersion /\ s \in Songs /\ live[s] \in 1..MaxVersion
    BY <2>2, ItemParts DEF Manifests, Items, Ids, Song
  <2>4. x.id[2] <= live[s]
    BY <1>16, <2>2 DEF AllGiven, Given
  <2>5. CASE x.id = j
    BY <1>15, <2>1, <2>5
  <2>6. CASE x.id # j
    <3>1. x.id[2] # live[s]
      BY <2>3, <2>6
    <3>2. live[s] > 1
      BY <2>3, <2>4, <3>1, ConstantsAssumption
    <3>3. Alike(j, x.id)
      BY <2>1, <3>2 DEF Renamed, Alike
    <3> HIDE DEF j
    <3>4. \A i \in m.items : i.id # j
      BY <2>2, <2>6, <3>3 DEF Single, Alike
    <3>5. PICK a \in as : a.id = j
      BY <1>5, <2>1, <3>4
    <3>6. PICK e \in M : e.new = j
      BY <1>6, <1>10, <2>2, <2>6, <3>3, <3>4, <3>5
    <3> QED
      BY <1>11, <2>2, <3>3, <3>6
  <2> QED
    BY <2>5, <2>6
<1>17. Goal(m, d) \subseteq Desired(R)
  <2>1. ASSUME NEW x \in m.items, \A y \in d.deletes : y.id # x.id, \A c \in M : c.old.id # x.id
        PROVE  x.id \in Desired(R)
    BY <1>2, <1>7, <2>1
  <2> QED
    BY <1>2, <1>3, <1>8, <2>1 DEF Goal, Listed
<1>18. Desired(R) \subseteq Goal(m, d)
  <2> SUFFICES ASSUME NEW i \in Desired(R) PROVE i \in Goal(m, d)
    OBVIOUS
  <2>1. CASE \E a \in as : a.id = i
    BY <1>2, <2>1 DEF Goal
  <2>2. CASE ~ \E a \in as : a.id = i
    <3>1. PICK x \in m.items : x.id = i /\ ~Outdated(m, R, x)
      BY <1>5, <2>2
    <3>2. x \notin ds
      BY <1>7, <3>1
    <3>3. \A y \in ds : y.id # i
      BY <1>6, <3>1, <3>2 DEF Single
    <3> QED
      BY <1>2, <1>8, <3>1, <3>3 DEF Goal, Listed
  <2> QED
    BY <2>1, <2>2
<1>19. Brings(d, m)
  <2>1. Desired(R) \subseteq Desired(Songs)
    BY DEF Desired
  <2> QED
    BY <1>2, <1>3, <1>8, <2>1 DEF Brings
<1> QED
  BY <1>2, <1>3, <1>8, <1>14, <1>16, <1>17, <1>18, <1>19

(* What the window is shown adds only tracks that are listed and desired.  *)
LEMMA AugmentParts ==
  ASSUME TypeOK, NEW m \in Manifests, Single(m.items), NEW d \in Deltas, DeltaFits(d, m.items),
         \A a \in d.adds : a.id \in Desired(basket),
         \A c \in d.changes : c.new \in Desired(basket),
         Brings(d, m), NEW W, AllGiven(m.items) => Spares(d, W)
  PROVE  LET g == Augment(m, d) IN
           DeltaFits(g, m.items) /\ Brings(g, m) /\ (AllGiven(m.items) => Spares(g, W))
<1> DEFINE inDelta == {a.id : a \in d.adds} \cup {it.id : it \in d.deletes}
                        \cup {c.new : c \in d.changes}
           gone == {it \in m.items : /\ it.id \in Desired(basket) \ inDelta
                                     /\ files[it.path] = Absent}
           more == {[id |-> it.id, rate |-> quality[Song(it.id)]] : it \in gone}
           g == Augment(m, d)
<1>1. g.adds = d.adds \cup more /\ g.deletes = d.deletes /\ g.changes = d.changes
  BY DEF Augment, Deltas
<1>2. \A a \in more : /\ \E i \in m.items : i.id = a.id
                      /\ a.id \in Desired(basket)
                      /\ \A c \in d.changes : c.new # a.id
  OBVIOUS
<1> HIDE DEF more, g
<1>3. \A a \in g.adds : a.id \in Desired(basket)
  BY <1>1, <1>2
<1>4. AddsFit(g.adds, m.items)
  <2>1. \A a \in g.adds, i \in m.items : Alike(a.id, i.id) => a.id = i.id
    BY <1>1, <1>2 DEF DeltaFits, AddsFit, Single
  <2>2. \A a \in g.adds, b \in g.adds : Alike(a.id, b.id) => a.id = b.id
    BY <1>3, DesiredOnce DEF Alike
  <2>3. \A a \in g.adds, b \in g.adds : a.id = b.id /\ a # b => \E i \in m.items : i.id = a.id
    BY <1>1, <1>2 DEF DeltaFits, AddsFit
  <2> QED
    BY <2>1, <2>2, <2>3 DEF AddsFit
<1>5. \A c \in g.changes, a \in g.adds : Song(a.id) # Song(c.new)
  BY <1>1, <1>2, DesiredOnce DEF DeltaFits, ChangesFit
<1>6. ChangesFit(g.adds, g.deletes, g.changes, m.items)
  BY <1>1, <1>5 DEF DeltaFits, ChangesFit
<1>7. AllGiven(m.items) => Spares(g, W)
  BY <1>1 DEF Spares
<1>8. Brings(g, m)
  BY <1>1, <1>2 DEF Brings, Listed
<1> QED
  BY <1>1, <1>4, <1>6, <1>7, <1>8 DEF DeltaFits, g

(* What is kept is listed, and written again.                              *)
LEMMA ForcedParts ==
  ASSUME NEW m \in Manifests, Single(m.items), NEW d \in Deltas, DeltaFits(d, m.items),
         Brings(d, m), NEW W, AllGiven(m.items) => Spares(d, W)
  PROVE  LET g == Forced(m, d) IN
           DeltaFits(g, m.items) /\ Brings(g, m) /\ (AllGiven(m.items) => Spares(g, W))
<1> DEFINE kept == {it \in m.items : \A e \in d.deletes : e.id # it.id}
           more == {[id |-> it.id, rate |-> 0] : it \in kept}
           g == Forced(m, d)
<1>1. g.adds = d.adds \cup more /\ g.deletes = d.deletes \cup kept /\ g.changes = {}
  BY DEF Forced
<1>2. \A a \in more : \E i \in m.items : i.id = a.id
  OBVIOUS
<1>3. \A i \in kept : i \in m.items /\ \E a \in more : a.id = i.id
  <2> SUFFICES ASSUME NEW i \in kept PROVE \E a \in more : a.id = i.id
    OBVIOUS
  <2>1. [id |-> i.id, rate |-> 0] \in more
    OBVIOUS
  <2> QED
    BY <2>1
<1> HIDE DEF kept, more, g
<1>4. AddsFit(g.adds, m.items)
  <2>1. \A a \in g.adds, i \in m.items : Alike(a.id, i.id) => a.id = i.id
    BY <1>1, <1>2 DEF DeltaFits, AddsFit, Single
  <2>2. \A a \in d.adds, b \in d.adds : Alike(a.id, b.id) => a.id = b.id
    BY DEF DeltaFits, AddsFit
  <2>3. \A a \in more, b \in g.adds : Alike(a.id, b.id) => a.id = b.id
    BY <1>2, <2>1 DEF Alike
  <2>4. \A a \in g.adds, b \in g.adds : Alike(a.id, b.id) => a.id = b.id
    BY <1>1, <2>2, <2>3 DEF Alike
  <2>5. \A a \in g.adds, b \in g.adds : a.id = b.id /\ a # b => \E i \in m.items : i.id = a.id
    BY <1>1, <1>2 DEF DeltaFits, AddsFit
  <2> QED
    BY <2>1, <2>4, <2>5 DEF AddsFit
<1>5. ChangesFit(g.adds, g.deletes, g.changes, m.items)
  BY <1>1 DEF ChangesFit
<1>6. g.deletes \subseteq m.items
  BY <1>1, <1>3 DEF DeltaFits
<1>7. AllGiven(m.items) => Spares(g, W)
  BY <1>1, <1>3 DEF Spares
<1>8. Brings(g, m)
  BY <1>1, <1>2 DEF Brings, Listed
<1> QED
  BY <1>4, <1>5, <1>6, <1>7, <1>8 DEF DeltaFits, g

-----------------------------------------------------------------------------
(***************************************************************************)
(* The invariant.  What is left of a run that still may do something fits  *)
(* the list; the list is the one that survives; and doing what is left     *)
(* gives what the run set out for, unless something failed.                *)
(***************************************************************************)
Live == At("replace") \/ At("record") \/ At("forget") \/ (~Idle /\ ~run.cancelled)
Toadd == run.todo.adds \cup run.add
Todelete == IF At("forget") THEN run.todo.deletes \cup run.delete ELSE run.todo.deletes
Reached(m) ==
  ((Listed(m) \ {d.id : d \in Todelete}) \ {c.old.id : c \in run.todo.changes})
    \cup {a.id : a \in Toadd} \cup {c.new : c \in run.todo.changes}

Once == Single(mem.items) /\ Single(durable.items)
Fresh ==
  \A o \in offer :
    /\ Idle /\ plugged /\ o.want = basket
    /\ \E d \in CalculateDelta(mem, basket) : o.delta = Augment(mem, d)
Shape ==
  /\ At("replace") \/ At("record") => \E a \in Adds : run.add = {a}
  /\ ~(At("replace") \/ At("record")) => run.add = {}
  /\ At("forget") => \E d \in Items : run.delete = {d} /\ d \notin run.todo.deletes
InSync == Live => (mem = durable \/ At("mark")) /\ (plugged \/ run.cancelled)
Fits ==
  Live => /\ AddsFit(Toadd, mem.items) /\ DeletesFit(Toadd, Todelete, mem.items)
          /\ ChangesFit(Toadd, Todelete, run.todo.changes, mem.items)
Heads == Live /\ ~run.failed => goal = Reached(mem)
Lists == Once /\ Shape /\ InSync /\ Fits /\ Heads

(* Nothing happens between what the window is shown and its answer.        *)
AnsweredAtOnce == "stale" \notin Edits /\ "anytime" \notin Edits

LEMMA FreshNext ==
  ASSUME TypeOK, AnsweredAtOnce, Fresh, [Next]_vars PROVE Fresh'
<1>1. CASE UNCHANGED vars
  <2>1. CalculateDelta(mem, basket)' = CalculateDelta(mem, basket)
    BY <1>1 DEF vars, serverVars, CalculateDelta, Matchings, FirstAdds, FirstDeletes, Outdated,
                Desired
  <2>2. \A d : Augment(mem, d)' = Augment(mem, d)
    BY <1>1 DEF vars, serverVars, deviceVars, Augment, Desired
  <2>3. Idle' = Idle /\ plugged' = plugged /\ basket' = basket /\ offer' = offer
    BY <1>1 DEF vars, serverVars, deviceVars, Idle
  <2> QED
    BY <2>1, <2>2, <2>3 DEF Fresh
<1>2. CASE Offer
  <2>1. PICK d \in CalculateDelta(mem, basket) :
          offer' = {[delta |-> Augment(mem, d), want |-> basket]}
    BY <1>2 DEF Offer
  <2>2. CalculateDelta(mem, basket)' = CalculateDelta(mem, basket)
    BY <1>2 DEF Offer, serverVars, CalculateDelta, Matchings, FirstAdds, FirstDeletes, Outdated,
                Desired
  <2>3. Augment(mem, d)' = Augment(mem, d)
    BY <1>2 DEF Offer, serverVars, deviceVars, Augment, Desired
  <2>4. Idle' /\ plugged' /\ basket' = basket
    BY <1>2 DEF Offer, Idle, serverVars, deviceVars
  <2> QED
    BY <2>1, <2>2, <2>3, <2>4 DEF Fresh
<1>3. CASE offer' = {}
  BY <1>3 DEF Fresh
<1>4. CASE Execute \/ Crash
  BY <1>3, <1>4 DEF Execute, Crash
<1>5. CASE AutoSync \/ Unplug
  BY <1>3, <1>5 DEF AutoSync, Unplug, Undecided, AnsweredAtOnce
<1>6. CASE Plug \/ Cancel \/ Step
  <2>1. offer' = offer
    BY <1>6 DEF Plug, Cancel, Step, unchangedByRun, MarkDirty, Replace, ReplaceFails, Record,
         Forget, SkipAdd, WriteFile, WriteFails, DeleteFile, DeleteFails, ChangeId, Complete,
         CompleteFails, GiveUp
  <2>2. ~plugged \/ ~Idle
    BY <1>6 DEF Plug, Cancel, Step, Idle, At, MarkDirty, Replace, ReplaceFails, Record, Forget,
         SkipAdd, WriteFile, WriteFails, Adding, DeleteFile, DeleteFails, Deleting, ChangeId,
         Complete, CompleteFails, Done, GiveUp
  <2> QED
    BY <1>3, <2>1, <2>2 DEF Fresh
<1>7. CASE User
  BY <1>3, <1>7 DEF User, Choose, Reidentify, Upgrade, SetProfile, Relink, Prune, ClearDirty,
       Edit, Undecided, AnsweredAtOnce, besidesServer
<1> QED
  BY <1>1, <1>2, <1>4, <1>5, <1>6, <1>7 DEF Next

(* The two copies of a manifest after a write or the attempt of one.       *)
LEMMA WriteChoices ==
  ASSUME TypeOK, NEW m, Saved(m) \/ NotSaved(m)
  PROVE  /\ mem'.items \in {mem.items, m.items}
         /\ durable'.items \in {durable.items, mem.items, m.items}
<1>1. [mem EXCEPT !.dirty = TRUE].items = mem.items
  BY DEF TypeOK, Manifests
<1> QED
  BY <1>1 DEF Saved, NotSaved, Refused, Unwritten, Uncertain

LEMMA OnceWritten ==
  ASSUME TypeOK, Once, NEW m, Single(m.items), Saved(m) \/ NotSaved(m)
  PROVE  Once'
  BY WriteChoices DEF Once, Single

(* Doing less leaves what is left fitting.                                 *)
LEMMA FitsLess ==
  ASSUME NEW A, NEW D, NEW C, NEW I, AddsFit(A, I), DeletesFit(A, D, I), ChangesFit(A, D, C, I),
         NEW B \in SUBSET A, NEW E \in SUBSET D, NEW F \in SUBSET C
  PROVE  AddsFit(B, I) /\ DeletesFit(B, E, I) /\ ChangesFit(B, E, F, I)
<1>1. AddsFit(B, I)
  BY DEF AddsFit
<1>2. DeletesFit(B, E, I)
  BY DEF DeletesFit
<1>3. ChangesFit(B, E, F, I)
  BY DEF ChangesFit
<1> QED
  BY <1>1, <1>2, <1>3

LEMMA Resting ==
  ASSUME Idle, Once, run.add = {} PROVE Lists
  BY DEF Lists, Shape, InSync, Fits, Heads, Live, Idle, At

LEMMA Ended ==
  ASSUME run' = NoRun, Once' PROVE Lists'
<1>1. Idle' /\ run'.add = {}
  BY DEF Idle, NoRun
<1> QED
  BY <1>1 DEF Lists, Shape, InSync, Fits, Heads, Live, Idle, At

(* A run starts with a delta that fits the list.                           *)
LEMMA ListsBegin ==
  ASSUME TypeOK, Lists, NEW kind, NEW d \in Deltas, NEW want, Begin(kind, d, want),
         DeltaFits(d, mem.items)
  PROVE  Lists'
<1> DEFINE again == d.deletes \ Removals(d)
<1>1. /\ run' = [NoRun EXCEPT !.phase = "mark", !.kind = kind, !.want = want, !.replaced = again,
                              !.todo = [d EXCEPT !.deletes = @ \ again], !.profile = mem.profile]
      /\ goal' = Goal(mem, d) /\ plugged' = plugged /\ plugged
      /\ mem' = mem /\ durable' = durable
  BY DEF Begin, deviceVars
<1>2. /\ run'.phase = "mark" /\ run'.add = {} /\ run'.cancelled = FALSE
      /\ run'.todo = [d EXCEPT !.deletes = @ \ again]
  BY <1>1 DEF NoRun
<1>3. /\ run'.todo.adds = d.adds /\ run'.todo.changes = d.changes
      /\ run'.todo.deletes = {x \in d.deletes : \A a \in d.adds : a.id # x.id}
  BY <1>2 DEF Deltas, Removals
<1>4. Toadd' = d.adds /\ Todelete' = {x \in d.deletes : \A a \in d.adds : a.id # x.id}
  BY <1>2, <1>3 DEF Toadd, Todelete, At
<1>5. DeletesFit(d.adds, Todelete', mem.items)
  BY <1>4 DEF DeltaFits, DeletesFit
<1>6. ChangesFit(d.adds, Todelete', d.changes, mem.items)
  BY <1>4 DEF DeltaFits, ChangesFit
<1>7. Fits'
  BY <1>1, <1>3, <1>4, <1>5, <1>6 DEF Fits, DeltaFits
<1>8. Reached(mem)' = Goal(mem, d)
  <2>1. Listed(mem)' = Listed(mem)
    BY <1>1 DEF Listed
  <2> QED
    BY <1>3, <1>4, <2>1 DEF Reached, Goal
<1> QED
  BY <1>1, <1>2, <1>7, <1>8 DEF Lists, Once, Shape, InSync, Heads, At

(* Whoever starts a run, its delta fits the list, and spares what of the   *)
(* basket the server resolved.                                             *)
LEMMA Started ==
  ASSUME TypeOK, Fresh, Once, Execute \/ AutoSync
  PROVE  \E kind \in {"auto", "asked"}, d \in Deltas, want \in SUBSET Songs :
           /\ Begin(kind, d, want) /\ DeltaFits(d, mem.items)
           /\ Brings(d, mem) /\ (AllGiven(mem.items) => Spares(d, want))
<1>1. mem \in Manifests /\ Single(mem.items) /\ live \in [Songs -> 1..MaxVersion]
        /\ quality \in [Songs -> 1..MaxQuality] /\ basket \in SUBSET Songs
  BY DEF TypeOK, Once
<1>2. CASE Execute
  <2>1. PICK o \in offer : \/ Begin("asked", o.delta, o.want)
                           \/ Begin("asked", Forced(mem, o.delta), o.want)
    BY <1>2 DEF Execute
  <2>2. PICK d \in CalculateDelta(mem, basket) : o.delta = Augment(mem, d) /\ o.want = basket
    BY DEF Fresh
  <2>3. /\ d \in Deltas /\ DeltaFits(d, mem.items)
        /\ \A a \in d.adds : a.id \in Desired(basket)
        /\ \A c \in d.changes : c.new \in Desired(basket)
        /\ Brings(d, mem) /\ (AllGiven(mem.items) => Spares(d, basket))
    BY <1>1, DeltaParts, DeltaTyped
  <2>4. o.delta \in Deltas /\ DeltaFits(o.delta, mem.items)
          /\ Brings(o.delta, mem) /\ (AllGiven(mem.items) => Spares(o.delta, o.want))
    BY <1>1, <2>2, <2>3, AugmentParts, AugmentTyped
  <2>5. Forced(mem, o.delta) \in Deltas /\ DeltaFits(Forced(mem, o.delta), mem.items)
          /\ Brings(Forced(mem, o.delta), mem)
          /\ (AllGiven(mem.items) => Spares(Forced(mem, o.delta), o.want))
    BY <1>1, <2>4, ForcedParts, ForceTyped
  <2> QED
    BY <1>1, <2>1, <2>2, <2>4, <2>5
<1>3. CASE AutoSync
  <2>1. PICK R \in SUBSET basket : \E d \in CalculateDelta(mem, R) : Begin("auto", d, R)
    BY <1>3 DEF AutoSync
  <2>2. PICK d \in CalculateDelta(mem, R) : Begin("auto", d, R)
    BY <2>1
  <2>3. R \in SUBSET Songs
    BY <1>1
  <2>4. /\ d \in Deltas /\ DeltaFits(d, mem.items)
        /\ Brings(d, mem) /\ (AllGiven(mem.items) => Spares(d, R))
    BY <1>1, <2>3, DeltaParts, DeltaTyped
  <2> QED
    BY <2>2, <2>3, <2>4
<1> QED
  BY <1>2, <1>3

LEMMA ListsStarts ==
  ASSUME TypeOK, Fresh, Lists, Offer \/ Execute \/ AutoSync PROVE Lists'
<1>1. CASE Offer
  BY <1>1 DEF Offer, deviceVars, historyVars, Lists, Once, Shape, InSync, Fits, Heads, Live, At,
              Idle, Toadd, Todelete, Reached
<1>2. CASE Execute \/ AutoSync
  BY <1>2, Started, ListsBegin DEF Lists
<1> QED
  BY <1>1, <1>2

(* Steps of the run that leave the manifest alone.                         *)
LEMMA ListsFiles ==
  ASSUME Lists, UNCHANGED <<mem, durable, plugged>>, Live, Shape',
         run.cancelled => run'.cancelled, plugged \/ run.cancelled, At("mark") => At("mark")',
         run'.todo.changes = run.todo.changes,
         Toadd' \subseteq Toadd, Todelete' \subseteq Todelete,
         ~run'.failed => ~run.failed /\ goal' = Reached(mem)'
  PROVE  Lists'
<1>1. Fits'
  BY FitsLess DEF Lists, Fits
<1>2. mem = durable \/ At("mark")
  BY DEF Lists, InSync
<1> QED
  BY <1>1, <1>2 DEF Lists, Once, InSync, Heads, Live

LEMMA WithoutFields ==
  ASSUME TypeOK, NEW a
  PROVE  /\ Without(a).todo.adds = run.todo.adds \ {a}
         /\ Without(a).todo.deletes = run.todo.deletes
         /\ Without(a).todo.changes = run.todo.changes
         /\ Without(a).phase = run.phase /\ Without(a).add = run.add
         /\ Without(a).delete = run.delete /\ Without(a).want = run.want
         /\ Without(a).replaced = run.replaced /\ Without(a).profile = run.profile
         /\ Without(a).cancelled = run.cancelled /\ Without(a).failed = run.failed
  BY DEF Without, TypeOK, Runs, Deltas

LEMMA ListsAdds ==
  ASSUME TypeOK, Lists, NEW a \in run.todo.adds, SkipAdd(a) \/ WriteFile(a) \/ WriteFails(a)
  PROVE  Lists'
<1>1. At("work") /\ ~run.cancelled /\ a \in Adds /\ run \in Runs /\ Without(a) \in Runs
  BY TodoForms DEF SkipAdd, WriteFile, WriteFails, Adding, TypeOK, Runs, Deltas
<1>2. Live /\ plugged /\ run.add = {} /\ ~At("mark") /\ ~At("forget")
  BY <1>1 DEF Live, Idle, At, Lists, InSync, Shape
<1>3. Toadd = run.todo.adds /\ Todelete = run.todo.deletes
  BY <1>2 DEF Toadd, Todelete
<1>4. UNCHANGED <<mem, durable, plugged>>
  BY DEF SkipAdd, WriteFile, WriteFails, unchangedByRun
<1>5. CASE SkipAdd(a)
  <2>1. /\ run'.phase = run.phase /\ run'.add = {} /\ run'.todo = Without(a).todo
        /\ ~run'.failed => ~run.failed
    <3>1. \/ run' = Without(a)
          \/ run' = [Without(a) EXCEPT !.failed = TRUE]
          \/ run' = [Without(a) EXCEPT !.failed = TRUE, !.cancelled = TRUE]
      BY <1>5 DEF SkipAdd
    <3>2. CASE run' = Without(a)
      BY <1>2, <3>2, WithoutFields
    <3>3. CASE run' = [Without(a) EXCEPT !.failed = TRUE]
      BY <1>1, <1>2, <3>3, WithoutFields DEF Runs
    <3>4. CASE run' = [Without(a) EXCEPT !.failed = TRUE, !.cancelled = TRUE]
      BY <1>1, <1>2, <3>4, WithoutFields DEF Runs
    <3> QED
      BY <3>1, <3>2, <3>3, <3>4
  <2>2. Shape' /\ Toadd' = Toadd \ {a} /\ Todelete' = Todelete
          /\ run'.todo.changes = run.todo.changes
    BY <1>1, <1>2, <1>3, <2>1, WithoutFields DEF Shape, Toadd, Todelete, At
  <2>3. Listed(mem)' = Listed(mem)
    BY <1>4 DEF Listed
  <2>4. ASSUME ~run.failed PROVE goal' = Reached(mem)'
    <3>1. goal = Reached(mem) /\ Fits
      BY <1>2, <2>4 DEF Lists, Heads
    <3>2. goal' = IF a.id \in Listed(mem) THEN goal ELSE goal \ {a.id}
      BY <1>5 DEF SkipAdd
    <3>3. /\ \A d \in Todelete : d.id # a.id
          /\ \A c \in run.todo.changes : c.old.id # a.id /\ c.new # a.id
      BY <1>2, <1>3, <3>1 DEF Fits, DeletesFit, ChangesFit, Alike
    <3>4. (\E b \in Toadd \ {a} : b.id = a.id) => a.id \in Listed(mem)
      BY <1>2, <1>3, <3>1 DEF Fits, AddsFit, Listed
    <3> QED
      BY <1>3, <2>2, <2>3, <3>1, <3>2, <3>3, <3>4 DEF Reached
  <2> QED
    BY <1>1, <1>2, <1>4, <2>1, <2>2, <2>4, ListsFiles
<1>6. CASE WriteFile(a)
  <2>1. /\ run'.phase = "replace" /\ run'.add = {a} /\ run'.todo = Without(a).todo
        /\ run'.failed = run.failed
    BY <1>1, <1>6, WithoutFields DEF WriteFile, Runs
  <2>2. Shape' /\ Toadd' = Toadd /\ Todelete' = Todelete
          /\ run'.todo.changes = run.todo.changes
    BY <1>1, <1>2, <1>3, <2>1, WithoutFields DEF Shape, Toadd, Todelete, At
  <2>3. Reached(mem)' = Reached(mem) /\ goal' = goal
    BY <1>4, <1>6, <2>2 DEF Reached, Listed, WriteFile
  <2>4. ~run.failed => goal = Reached(mem)
    BY <1>2 DEF Lists, Heads
  <2> QED
    BY <1>1, <1>2, <1>4, <2>1, <2>2, <2>3, <2>4, ListsFiles
<1>7. CASE WriteFails(a)
  <2>1. /\ run'.phase = run.phase /\ run'.add = {} /\ run'.todo = Without(a).todo
        /\ run'.failed = TRUE
    BY <1>1, <1>2, <1>7, WithoutFields DEF WriteFails, Runs
  <2>2. Shape' /\ Toadd' \subseteq Toadd /\ Todelete' = Todelete
          /\ run'.todo.changes = run.todo.changes
    BY <1>1, <1>2, <1>3, <2>1, WithoutFields DEF Shape, Toadd, Todelete, At
  <2> QED
    BY <1>1, <1>2, <1>4, <2>1, <2>2, ListsFiles
<1> QED
  BY <1>5, <1>6, <1>7

LEMMA ListsReplaces ==
  ASSUME TypeOK, Lists, Replace \/ ReplaceFails PROVE Lists'
<1>1. At("replace") /\ Live /\ run \in Runs /\ UNCHANGED <<mem, durable, plugged>>
  BY DEF Replace, ReplaceFails, Live, TypeOK, unchangedByRun
<1>2. /\ run'.phase = "record" /\ run'.add = run.add /\ run'.todo = run.todo
      /\ run'.cancelled = run.cancelled /\ (run'.failed = run.failed \/ run'.failed)
  BY <1>1 DEF Replace, ReplaceFails, Runs
<1>3. Shape' /\ Toadd' = Toadd /\ Todelete' = Todelete
  BY <1>1, <1>2 DEF Lists, Shape, Toadd, Todelete, At
<1>4. Reached(mem)' = Reached(mem) /\ goal' = goal
  BY <1>1, <1>2, <1>3 DEF Reached, Listed, Replace, ReplaceFails
<1>5. (plugged \/ run.cancelled) /\ ~At("mark")
  BY <1>1 DEF Lists, InSync, At
<1> QED
  BY <1>1, <1>2, <1>3, <1>4, <1>5, ListsFiles DEF Lists, Heads

LEMMA ListsDeletes ==
  ASSUME TypeOK, Lists, NEW d \in run.todo.deletes, DeleteFile(d) \/ DeleteFails(d)
  PROVE  Lists'
<1>1. At("work") /\ ~run.cancelled /\ d \in Items /\ run \in Runs
        /\ [run EXCEPT !.todo.deletes = @ \ {d}] \in Runs
  BY TodoForms DEF DeleteFile, DeleteFails, Deleting, TypeOK, Runs, Deltas
<1>2. Live /\ plugged /\ run.add = {} /\ ~At("mark") /\ ~At("forget")
  BY <1>1 DEF Live, Idle, At, Lists, InSync, Shape
<1>3. Toadd = run.todo.adds /\ Todelete = run.todo.deletes
  BY <1>2 DEF Toadd, Todelete
<1>4. UNCHANGED <<mem, durable, plugged, goal>>
  BY DEF DeleteFile, DeleteFails, unchangedByRun, historyVars
<1>5. CASE DeleteFile(d)
  <2>1. run' = [run EXCEPT !.phase = "forget", !.delete = {d}, !.todo.deletes = @ \ {d}]
    BY <1>5 DEF DeleteFile
  <2>2. /\ run'.phase = "forget" /\ run'.add = {} /\ run'.delete = {d}
        /\ run'.todo.adds = run.todo.adds /\ run'.todo.deletes = run.todo.deletes \ {d}
        /\ run'.todo.changes = run.todo.changes
        /\ run'.failed = run.failed /\ run'.cancelled = run.cancelled
    BY <1>1, <1>2, <2>1 DEF Runs, Deltas
  <2>3. Shape' /\ Toadd' = Toadd /\ Todelete' = Todelete
    BY <1>1, <1>2, <1>3, <2>2 DEF Shape, Toadd, Todelete, At
  <2>4. Reached(mem)' = Reached(mem)
    BY <1>4, <2>2, <2>3 DEF Reached, Listed
  <2>5. ~run.failed => goal = Reached(mem)
    BY <1>2 DEF Lists, Heads
  <2> QED
    BY <1>1, <1>2, <1>4, <2>2, <2>3, <2>4, <2>5, ListsFiles
<1>6. CASE DeleteFails(d)
  <2>1. run' = [run EXCEPT !.failed = TRUE, !.todo.deletes = @ \ {d}]
    BY <1>6 DEF DeleteFails
  <2>2. /\ run'.phase = run.phase /\ run'.add = {} /\ run'.failed = TRUE
        /\ run'.todo.adds = run.todo.adds /\ run'.todo.deletes = run.todo.deletes \ {d}
        /\ run'.todo.changes = run.todo.changes /\ run'.cancelled = run.cancelled
    BY <1>1, <1>2, <2>1 DEF Runs, Deltas
  <2>3. Shape' /\ Toadd' = Toadd /\ Todelete' \subseteq Todelete
    BY <1>1, <1>2, <1>3, <2>2 DEF Shape, Toadd, Todelete, At
  <2> QED
    BY <1>1, <1>2, <1>4, <2>2, <2>3, ListsFiles
<1> QED
  BY <1>5, <1>6

LEMMA ListsStopped ==
  ASSUME TypeOK, run' = Stopped, Once' PROVE Lists'
<1>1. run'.phase = "work" /\ run'.add = {} /\ run'.cancelled = TRUE
  BY DEF Stopped, TypeOK, Runs
<1> QED
  BY <1>1 DEF Lists, Shape, InSync, Fits, Heads, Live, Idle, At

(* Steps of the run that write the manifest and go on.                     *)
LEMMA ListsSaved ==
  ASSUME TypeOK, Lists, Live, NEW m, Saved(m), plugged' = plugged,
         Single(m.items), Shape', run'.phase = "work",
         run'.failed = run.failed, goal' = goal,
         AddsFit(Toadd', m.items), DeletesFit(Toadd', Todelete', m.items),
         ChangesFit(Toadd', Todelete', run'.todo.changes, m.items),
         Reached(mem)' = Reached(mem)
  PROVE  Lists'
<1>1. plugged /\ mem' = m /\ durable' = m
  BY DEF Saved
<1>2. Heads'
  BY DEF Lists, Heads
<1>3. Fits'
  BY <1>1 DEF Fits
<1> QED
  BY <1>1, <1>2, <1>3 DEF Lists, Once, InSync

LEMMA GotoFields ==
  ASSUME TypeOK, Goto("work")
  PROVE  /\ run'.phase = "work" /\ run'.add = {} /\ run'.delete = {} /\ run'.todo = run.todo
         /\ run'.failed = run.failed /\ run'.cancelled = run.cancelled
         /\ run'.want = run.want /\ run'.replaced = run.replaced /\ run'.profile = run.profile
         /\ Toadd' = run.todo.adds /\ Todelete' = run.todo.deletes
<1>1. /\ run'.phase = "work" /\ run'.add = {} /\ run'.delete = {} /\ run'.todo = run.todo
      /\ run'.failed = run.failed /\ run'.cancelled = run.cancelled
      /\ run'.want = run.want /\ run'.replaced = run.replaced /\ run'.profile = run.profile
  BY DEF Goto, TypeOK, Runs
<1> QED
  BY <1>1 DEF Toadd, Todelete, At

LEMMA ListsRecord ==
  ASSUME TypeOK, Lists, Record PROVE Lists'
<1>1. At("record") /\ Live /\ goal' = goal /\ plugged' = plugged
  BY DEF Record, Live, unchangedByRun
<1>2. PICK a \in Adds : run.add = {a}
  BY <1>1 DEF Lists, Shape
<1> DEFINE it == [id |-> a.id, path |-> PathFor(a), rate |-> a.rate]
           I == {i \in mem.items : i.id # a.id} \cup {it}
           m == [mem EXCEPT !.items = I]
<1>3. \/ Saved(m) /\ Goto("work")
      \/ NotSaved(m) /\ run' = Stopped
  BY <1>2 DEF Record
<1>4. m.items = I /\ it.id = a.id /\ it \in I
        /\ (\A i \in mem.items : i.id # a.id => i \in I)
        /\ (\A i \in I : i = it \/ (i \in mem.items /\ i.id # a.id))
  <2>1. m.items = I
    BY DEF TypeOK, Manifests
  <2>2. it.id = a.id
    OBVIOUS
  <2> HIDE DEF m, it
  <2>3. it \in I /\ \A i \in mem.items : i.id # a.id => i \in I
    OBVIOUS
  <2>4. \A i \in I : i = it \/ (i \in mem.items /\ i.id # a.id)
    OBVIOUS
  <2> QED
    BY <2>1, <2>2, <2>3, <2>4
<1>5. Toadd = run.todo.adds \cup {a} /\ Todelete = run.todo.deletes
  BY <1>1, <1>2 DEF Toadd, Todelete, At
<1>6. /\ AddsFit(Toadd, mem.items) /\ DeletesFit(Toadd, Todelete, mem.items)
      /\ ChangesFit(Toadd, Todelete, run.todo.changes, mem.items) /\ Single(mem.items)
  BY <1>1 DEF Lists, Fits, Once
<1> HIDE DEF m, I, it
<1>7. Single(I)
  <2>1. \A j \in mem.items : Alike(a.id, j.id) => j.id = a.id
    BY <1>5, <1>6 DEF AddsFit
  <2>2. \A j \in I : j.id = a.id \/ Alike(j.id, a.id) \/ Alike(a.id, j.id) => j = it
    BY <1>4, <2>1 DEF Alike
  <2>3. \A i \in I, j \in I : i # it /\ j # it /\ (i.id = j.id \/ Alike(i.id, j.id)) => i = j
    BY <1>4, <1>6 DEF Single
  <2> QED
    BY <1>4, <2>2, <2>3 DEF Single
<1>8. Once'
  BY <1>3, <1>4, <1>7, OnceWritten DEF Lists
<1>9. CASE NotSaved(m) /\ run' = Stopped
  BY <1>8, <1>9, ListsStopped
<1>10. CASE Saved(m) /\ Goto("work")
  <2> DEFINE A == run.todo.adds
             D == run.todo.deletes
             C == run.todo.changes
  <2>1. run'.phase = "work" /\ run'.add = {} /\ run'.todo = run.todo
          /\ run'.failed = run.failed /\ Toadd' = A /\ Todelete' = D
    BY <1>10, GotoFields
  <2>2. AddsFit(A, I)
    <3>1. \A b \in A, i \in I : Alike(b.id, i.id) => b.id = i.id
      BY <1>4, <1>5, <1>6 DEF AddsFit
    <3>2. \A b \in A, c \in A : Alike(b.id, c.id) => b.id = c.id
      BY <1>5, <1>6 DEF AddsFit
    <3>3. \A b \in A, c \in A : b.id = c.id /\ b # c => \E i \in I : i.id = b.id
      BY <1>4, <1>5, <1>6 DEF AddsFit
    <3> QED
      BY <3>1, <3>2, <3>3 DEF AddsFit
  <2>3. DeletesFit(A, D, I)
    BY <1>4, <1>5, <1>6 DEF DeletesFit
  <2>4. ChangesFit(A, D, C, I)
    BY <1>4, <1>5, <1>6 DEF ChangesFit, Alike
  <2>5. Reached(mem)' = Reached(mem)
    <3>1. Listed(mem)' = Listed(mem) \cup {a.id}
      BY <1>4, <1>10 DEF Listed, Saved
    <3>2. \A d \in D : d.id # a.id
      BY <1>5, <1>6 DEF DeletesFit
    <3>3. \A c \in C : c.old.id # a.id
      BY <1>5, <1>6 DEF ChangesFit, Alike
    <3>4. {b.id : b \in Toadd} = {b.id : b \in A} \cup {a.id}
      BY <1>5
    <3> QED
      BY <1>5, <2>1, <3>1, <3>2, <3>3, <3>4 DEF Reached
  <2>6. Shape'
    BY <2>1 DEF Shape, At
  <2> QED
    BY <1>1, <1>4, <1>7, <1>10, <2>1, <2>2, <2>3, <2>4, <2>5, <2>6, ListsSaved
<1> QED
  BY <1>3, <1>9, <1>10

LEMMA ListsForget ==
  ASSUME TypeOK, Lists, Forget PROVE Lists'
<1>1. At("forget") /\ Live /\ goal' = goal /\ plugged' = plugged
  BY DEF Forget, Live, unchangedByRun
<1>2. PICK d \in Items : run.delete = {d} /\ d \notin run.todo.deletes
  BY <1>1 DEF Lists, Shape
<1> DEFINE I == {i \in mem.items : i.id # d.id}
           m == [mem EXCEPT !.items = I]
<1>3. \/ Saved(m) /\ Goto("work")
      \/ NotSaved(m) /\ run' = Stopped
  BY <1>2 DEF Forget
<1>4. m.items = I /\ I \subseteq mem.items
  BY DEF TypeOK, Manifests
<1>5. run.add = {}
  BY <1>1 DEF Lists, Shape, At
<1>6. Toadd = run.todo.adds /\ Todelete = run.todo.deletes \cup {d}
  BY <1>1, <1>2, <1>5 DEF Toadd, Todelete
<1>7. /\ AddsFit(Toadd, mem.items) /\ DeletesFit(Toadd, Todelete, mem.items)
      /\ ChangesFit(Toadd, Todelete, run.todo.changes, mem.items) /\ Single(mem.items)
  BY <1>1 DEF Lists, Fits, Once
<1>8. Single(I)
  BY <1>4, <1>7 DEF Single
<1>9. Once'
  BY <1>3, <1>4, <1>8, OnceWritten DEF Lists
<1>10. CASE NotSaved(m) /\ run' = Stopped
  BY <1>9, <1>10, ListsStopped
<1>11. CASE Saved(m) /\ Goto("work")
  <2> DEFINE A == run.todo.adds
             D == run.todo.deletes
             C == run.todo.changes
  <2>1. run'.phase = "work" /\ run'.add = {} /\ run'.todo = run.todo
          /\ run'.failed = run.failed /\ Toadd' = A /\ Todelete' = D
    BY <1>11, GotoFields
  <2>2. \A a \in A : a.id # d.id
    BY <1>6, <1>7 DEF DeletesFit
  <2>3. \A e \in D : e \in mem.items /\ e.id # d.id
    BY <1>2, <1>6, <1>7 DEF DeletesFit, Single
  <2>4. \A c \in C : c.old.id # d.id /\ c.new # d.id
    BY <1>6, <1>7 DEF ChangesFit, Alike
  <2>5. AddsFit(A, I)
    BY <1>6, <1>7, <2>2 DEF AddsFit
  <2>6. DeletesFit(A, D, I)
    BY <1>6, <1>7, <2>3 DEF DeletesFit
  <2>7. ChangesFit(A, D, C, I)
    BY <1>6, <1>7, <2>4 DEF ChangesFit
  <2>8. Reached(mem)' = Reached(mem)
    <3>1. Listed(mem)' = Listed(mem) \ {d.id}
      BY <1>4, <1>11 DEF Listed, Saved
    <3>2. {e.id : e \in Todelete} = {e.id : e \in D} \cup {d.id}
      BY <1>6
    <3> QED
      BY <1>6, <2>1, <3>1, <3>2 DEF Reached
  <2>9. Shape'
    BY <2>1 DEF Shape, At
  <2> HIDE DEF m, I
  <2> QED
    BY <1>1, <1>4, <1>8, <1>11, <2>1, <2>5, <2>6, <2>7, <2>8, <2>9, ListsSaved
<1> QED
  BY <1>3, <1>10, <1>11

LEMMA ListsChange ==
  ASSUME TypeOK, Lists, NEW c \in run.todo.changes, ChangeId(c) PROVE Lists'
<1>1. /\ At("work") /\ ~run.cancelled /\ run.todo.adds = {} /\ run.todo.deletes = {}
      /\ goal' = goal /\ plugged' = plugged
  BY DEF ChangeId, unchangedByRun, historyVars
<1>2. Live /\ run.add = {} /\ Toadd = {} /\ Todelete = {}
  BY <1>1 DEF Live, Idle, At, Lists, Shape, Toadd, Todelete
<1> DEFINE it == [id |-> c.new, path |-> c.old.path, rate |-> 0]
           I == {i \in mem.items : i.id # c.old.id} \cup {it}
           m == [mem EXCEPT !.items = I]
           C == run.todo.changes
<1>3. \/ Saved(m) /\ run' = [run EXCEPT !.todo.changes = @ \ {c}]
      \/ NotSaved(m) /\ run' = Stopped
  BY DEF ChangeId
<1>4. m.items = I /\ it.id = c.new /\ it \in I
        /\ (\A i \in mem.items : i.id # c.old.id => i \in I)
        /\ (\A i \in I : i = it \/ (i \in mem.items /\ i.id # c.old.id))
  <2>1. m.items = I
    BY DEF TypeOK, Manifests
  <2>2. it.id = c.new
    OBVIOUS
  <2> HIDE DEF m, it
  <2>3. it \in I /\ \A i \in mem.items : i.id # c.old.id => i \in I
    OBVIOUS
  <2>4. \A i \in I : i = it \/ (i \in mem.items /\ i.id # c.old.id)
    OBVIOUS
  <2> QED
    BY <2>1, <2>2, <2>3, <2>4
<1>5. ChangesFit({}, {}, C, mem.items) /\ Single(mem.items)
  BY <1>2 DEF Lists, Fits, Once
<1>6. c.old \in mem.items /\ Alike(c.new, c.old.id)
  BY <1>5 DEF ChangesFit
<1> HIDE DEF m, I, it
<1>7. \A j \in mem.items : j.id = c.new \/ Song(j.id) = Song(c.new) => j = c.old
  BY <1>5, <1>6 DEF Single, Alike
<1>8. Single(I)
  <2>1. \A j \in I : j.id = it.id \/ Song(j.id) = Song(it.id) => j = it
    BY <1>4, <1>7
  <2>2. \A i \in I, j \in I : i # it /\ j # it /\ (i.id = j.id \/ Alike(i.id, j.id)) => i = j
    BY <1>4, <1>5 DEF Single
  <2> QED
    BY <1>4, <2>1, <2>2 DEF Single, Alike
<1>9. Once'
  BY <1>3, <1>4, <1>8, OnceWritten DEF Lists
<1>10. CASE NotSaved(m) /\ run' = Stopped
  BY <1>9, <1>10, ListsStopped
<1>11. CASE Saved(m) /\ run' = [run EXCEPT !.todo.changes = @ \ {c}]
  <2>1. /\ run'.phase = "work" /\ run'.add = {} /\ run'.failed = run.failed
        /\ run'.todo.adds = {} /\ run'.todo.deletes = {} /\ run'.todo.changes = C \ {c}
    BY <1>1, <1>2, <1>11 DEF At, TypeOK, Runs, Deltas
  <2>2. Toadd' = {} /\ Todelete' = {} /\ Shape'
    BY <2>1 DEF Toadd, Todelete, Shape, At
  <2>3. ChangesFit({}, {}, C \ {c}, I)
    BY <1>4, <1>5, <1>6, <1>7 DEF ChangesFit, Alike
  <2>4. AddsFit({}, I) /\ DeletesFit({}, {}, I)
    BY DEF AddsFit, DeletesFit
  <2>5. Reached(mem)' = Reached(mem)
    <3>1. Listed(mem)' = (Listed(mem) \ {c.old.id}) \cup {c.new}
      BY <1>4, <1>11 DEF Listed, Saved
    <3>2. \A e \in C \ {c} : e.old.id # c.new
      BY <1>5 DEF ChangesFit, Alike
    <3>3. Reached(mem) = (Listed(mem) \ {e.old.id : e \in C}) \cup {e.new : e \in C}
      BY <1>2 DEF Reached
    <3>4. Reached(mem)' = (Listed(mem)' \ {e.old.id : e \in C \ {c}}) \cup {e.new : e \in C \ {c}}
      BY <2>1, <2>2 DEF Reached
    <3> QED
      BY <3>1, <3>2, <3>3, <3>4
  <2> QED
    BY <1>1, <1>2, <1>4, <1>8, <1>11, <2>1, <2>2, <2>3, <2>4, <2>5, ListsSaved
<1> QED
  BY <1>3, <1>10, <1>11

LEMMA ListsEnds ==
  ASSUME TypeOK, Lists, MarkDirty \/ Complete \/ CompleteFails \/ GiveUp PROVE Lists'
<1>1. Single(mem.items) /\ Once
  BY DEF Lists, Once
<1>2. \A b \in BOOLEAN : [mem EXCEPT !.dirty = b].items = mem.items
  BY DEF TypeOK, Manifests
<1>3. Clean(mem).items = mem.items
  BY DEF TypeOK, Manifests, Clean
<1>4. CASE MarkDirty
  <2> DEFINE m == [mem EXCEPT !.dirty = TRUE]
  <2>1. m.items = mem.items
    BY <1>2
  <2>2. (Saved(m) /\ Goto("work")) \/ (NotSaved(m) /\ run' = NoRun)
    BY <1>4 DEF MarkDirty
  <2>3. At("mark") /\ plugged' = plugged /\ goal' = goal
    BY <1>4 DEF MarkDirty, unchangedByRun, historyVars
  <2> HIDE DEF m
  <2>4. Once'
    BY <1>1, <2>1, <2>2, OnceWritten
  <2>5. CASE NotSaved(m) /\ run' = NoRun
    BY <2>4, <2>5, Ended
  <2>6. CASE Saved(m) /\ Goto("work")
    <3>1. run'.phase = "work" /\ run'.add = {} /\ run'.todo = run.todo
            /\ run'.failed = run.failed /\ run'.cancelled = run.cancelled
            /\ Toadd' = run.todo.adds /\ Todelete' = run.todo.deletes
      BY <2>6, GotoFields
    <3>2. run.add = {} /\ Toadd = run.todo.adds /\ Todelete = run.todo.deletes
      BY <2>3 DEF Lists, Shape, At, Toadd, Todelete
    <3>3. Shape'
      BY <3>1 DEF Shape, At
    <3>4. CASE run.cancelled
      BY <2>4, <3>1, <3>3, <3>4 DEF Lists, InSync, Fits, Heads, Live, Idle, At
    <3>5. CASE ~run.cancelled
      <4>1. Live
        BY <2>3, <3>5 DEF Live, Idle, At
      <4>2. Reached(mem)' = Reached(mem)
        BY <2>1, <2>6, <3>1, <3>2 DEF Reached, Listed, Saved
      <4> QED
        BY <1>1, <2>1, <2>3, <2>6, <3>1, <3>2, <3>3, <4>1, <4>2, ListsSaved DEF Lists, Fits
    <3> QED
      BY <3>4, <3>5
  <2> QED
    BY <2>2, <2>5, <2>6
<1>5. CASE Complete \/ CompleteFails
  <2> DEFINE m == Clean(mem)
  <2>1. (Saved(m) \/ NotSaved(m)) /\ run' = NoRun
    BY <1>5 DEF Complete, CompleteFails
  <2>2. Single(m.items)
    BY <1>1, <1>3
  <2> HIDE DEF m
  <2> QED
    BY <1>1, <2>1, <2>2, OnceWritten, Ended
<1>6. CASE GiveUp
  BY <1>1, <1>6, Ended DEF GiveUp, Once
<1> QED
  BY <1>4, <1>5, <1>6

LEMMA ListsWorld ==
  ASSUME TypeOK, Lists, Cancel \/ Crash \/ Unplug \/ Plug PROVE Lists'
<1>1. ASSUME UNCHANGED <<mem, durable, goal>>, run' = [run EXCEPT !.cancelled = TRUE], ~Idle
      PROVE  Lists'
  <2>1. /\ run'.phase = run.phase /\ run'.add = run.add /\ run'.delete = run.delete
        /\ run'.todo = run.todo /\ run'.cancelled = TRUE /\ run'.failed = run.failed
    BY <1>1 DEF TypeOK, Runs
  <2>2. /\ Live' => Live
        /\ Shape' /\ Toadd' = Toadd /\ Todelete' = Todelete
    BY <2>1 DEF Live, Idle, At, Shape, Toadd, Todelete, Lists
  <2>3. Reached(mem)' = Reached(mem)
    BY <1>1, <2>1, <2>2 DEF Reached, Listed
  <2> QED
    BY <1>1, <2>1, <2>2, <2>3 DEF Lists, Once, InSync, Fits, Heads, At
<1>2. CASE Cancel
  BY <1>1, <1>2 DEF Cancel, historyVars
<1>3. CASE Crash
  BY <1>3, Ended DEF Crash, Lists, Once
<1>4. CASE Unplug
  <2>1. CASE Idle
    <3>1. Idle' /\ Once' /\ run' = run
      BY <1>4, <2>1 DEF Unplug, Idle, Lists, Once
    <3> QED
      BY <2>1, <3>1 DEF Lists, Shape, InSync, Fits, Heads, Live, Idle, At
  <2>2. CASE ~Idle
    BY <1>1, <1>4, <2>2 DEF Unplug, historyVars
  <2> QED
    BY <2>1, <2>2
<1>5. CASE Plug
  <2>1. run' = run /\ mem' = durable /\ durable' = durable /\ goal' = goal /\ ~plugged
    BY <1>5 DEF Plug, historyVars
  <2>2. Live' = Live /\ Toadd' = Toadd /\ Todelete' = Todelete
    BY <2>1 DEF Live, Idle, At, Toadd, Todelete
  <2>3. Live => mem' = mem
    BY <2>1 DEF Lists, InSync, Live, At
  <2>4. Live => Reached(mem)' = Reached(mem)
    BY <2>1, <2>2, <2>3 DEF Reached, Listed
  <2>5. Live => run.cancelled
    BY <2>1 DEF Lists, InSync
  <2> QED
    BY <2>1, <2>2, <2>3, <2>4, <2>5 DEF Lists, Once, Shape, InSync, Fits, Heads, At
<1> QED
  BY <1>2, <1>3, <1>4, <1>5

LEMMA ListsUser ==
  ASSUME TypeOK, AnsweredAtOnce, Lists, User PROVE Lists'
<1>1. ASSUME NEW s, Choose(s) \/ Reidentify(s) \/ Upgrade(s) PROVE Lists'
  BY <1>1 DEF Choose, Reidentify, Upgrade, besidesServer, deviceVars, historyVars, Lists, Once,
              Shape, InSync, Fits, Heads, Live, Idle, At, Toadd, Todelete, Reached, Listed
<1>2. ASSUME Quiet, run' = run, Once' PROVE Lists'
  <2>1. Idle' /\ run'.add = {}
    BY <1>2 DEF Quiet, AnsweredAtOnce, Idle, Lists, Shape, At
  <2> QED
    BY <1>2, <2>1 DEF Lists, Shape, InSync, Fits, Heads, Live, Idle, At
<1>3. Single(mem.items) /\ Once
  BY DEF Lists, Once
<1>4. ASSUME NEW p \in Profiles, SetProfile(p) PROVE Lists'
  <2>1. PICK stale \in BOOLEAN :
          LET m == [mem EXCEPT !.profile = p, !.profileDirty = stale] IN Saved(m) \/ NotSaved(m)
    BY <1>4 DEF SetProfile
  <2> DEFINE m == [mem EXCEPT !.profile = p, !.profileDirty = stale]
  <2>2. m.items = mem.items
    BY DEF TypeOK, Manifests
  <2>3. (Saved(m) \/ NotSaved(m)) /\ Quiet /\ run' = run
    BY <1>4, <2>1 DEF SetProfile
  <2> HIDE DEF m
  <2> QED
    BY <1>2, <1>3, <2>2, <2>3, OnceWritten
<1>5. ASSUME NEW it \in mem.items, NEW p \in Paths, Relink(it, p) PROVE Lists'
  <2> DEFINE new == [it EXCEPT !.path = p]
             I == (mem.items \ {it}) \cup {new}
             m == [mem EXCEPT !.items = I]
  <2>1. m.items = I /\ new.id = it.id
    BY DEF TypeOK, Manifests, Items
  <2>2. (Saved(m) \/ NotSaved(m)) /\ Quiet /\ run' = run
    BY <1>5 DEF Relink
  <2> HIDE DEF new
  <2>3. Single(I)
    BY <1>3, <2>1 DEF Single, Alike
  <2> HIDE DEF m, I
  <2> QED
    BY <1>2, <1>3, <2>1, <2>2, <2>3, OnceWritten
<1>6. CASE Prune
  <2> DEFINE m == [mem EXCEPT !.items = @ \ Missing]
  <2>1. m.items = mem.items \ Missing
    BY DEF TypeOK, Manifests
  <2>2. Single(m.items)
    BY <1>3, <2>1 DEF Single
  <2>3. (Saved(m) \/ NotSaved(m)) /\ Quiet /\ run' = run
    BY <1>6 DEF Prune
  <2> HIDE DEF m
  <2> QED
    BY <1>2, <1>3, <2>2, <2>3, OnceWritten
<1>7. CASE ClearDirty
  <2> DEFINE m == [mem EXCEPT !.dirty = FALSE]
  <2>1. m.items = mem.items
    BY DEF TypeOK, Manifests
  <2>2. (Saved(m) \/ NotSaved(m)) /\ Quiet /\ run' = run
    BY <1>7 DEF ClearDirty
  <2> HIDE DEF m
  <2> QED
    BY <1>2, <1>3, <2>1, <2>2, OnceWritten
<1> QED
  BY <1>1, <1>4, <1>5, <1>6, <1>7 DEF User

LEMMA ListsNext == TypeOK /\ AnsweredAtOnce /\ Fresh /\ Lists /\ [Next]_vars => Lists'
<1> SUFFICES ASSUME TypeOK, AnsweredAtOnce, Fresh, Lists, [Next]_vars PROVE Lists'
  OBVIOUS
<1>1. CASE UNCHANGED vars
  BY <1>1 DEF vars, deviceVars, historyVars, Lists, Once, Shape, InSync, Fits, Heads, Live, Idle,
              At, Toadd, Todelete, Reached, Listed
<1>2. CASE Step
  BY <1>2, ListsAdds, ListsReplaces, ListsRecord, ListsDeletes, ListsForget, ListsChange, ListsEnds
     DEF Step
<1> QED
  BY <1>1, <1>2, ListsStarts, ListsWorld, ListsUser DEF Next

LEMMA ListsInit == Init => Fresh /\ Lists
<1> SUFFICES ASSUME Init PROVE Fresh /\ Lists
  OBVIOUS
<1>1. Idle /\ run.add = {} /\ mem.items = {} /\ durable.items = {} /\ offer = {}
  BY DEF Init, Idle, NoRun
<1>2. Once
  BY <1>1 DEF Once, Single
<1> QED
  BY <1>1, <1>2, Resting DEF Fresh

LEMMA ListsInvariant == ASSUME AnsweredAtOnce PROVE Spec => [](TypeOK /\ Fresh /\ Lists)
  BY ListsInit, ListsNext, FreshNext, TypeCorrect, PTL DEF Spec

(* Between runs, a delta computed from the manifest and done completely    *)
(* leaves exactly what is desired (calculate_delta), whatever failed or    *)
(* was interrupted before, when the user answers before anything changes.  *)
THEOREM DeltaIsEnough ==
  ASSUME AnsweredAtOnce PROVE Spec => []DeltaReaches
<1>1. TypeOK /\ Lists => DeltaReaches
  <2> SUFFICES ASSUME TypeOK, Lists, NEW d \in CalculateDelta(mem, basket)
               PROVE  Goal(mem, d) = Desired(basket)
    BY DEF DeltaReaches
  <2> QED
    BY DeltaParts DEF TypeOK, Lists, Once
<1> QED
  BY <1>1, ListsInvariant, PTL

(* A run that commits the clean manifest lists what its delta was for, but *)
(* for items skipped with a warning (finalize_operation).                  *)
THEOREM CompletedIsGoal ==
  ASSUME AnsweredAtOnce PROVE Spec => CompleteIsGoal
<1>1. TypeOK /\ Lists /\ [Next]_vars => [Complete => Listed(mem') = goal]_vars
  <2> SUFFICES ASSUME TypeOK, Lists, Complete PROVE Listed(mem') = goal
    OBVIOUS
  <2>1. At("work") /\ ~run.cancelled /\ run.todo = Nothing /\ ~run.failed /\ Saved(Clean(mem))
    BY DEF Complete, Done
  <2>2. Live /\ run.add = {} /\ goal = Reached(mem)
    BY <2>1 DEF Live, Idle, At, Lists, Shape, Heads
  <2>3. Toadd = {} /\ Todelete = {} /\ run.todo.changes = {}
    BY <2>1, <2>2 DEF Toadd, Todelete, At, Nothing
  <2>4. Reached(mem) = Listed(mem)
    BY <2>3 DEF Reached
  <2>5. mem'.items = mem.items
    BY <2>1 DEF Saved, Clean, TypeOK, Manifests
  <2> QED
    BY <2>2, <2>4, <2>5 DEF Listed
<1> QED
  BY <1>1, ListsInvariant, PTL DEF Spec, CompleteIsGoal
-----------------------------------------------------------------------------
(***************************************************************************)
(* The device.  A file is where the name of its track says, the two copies *)
(* of the manifest agree with the device outside "doubt", and what a run   *)
(* is about to record or forget is in doubt until it has.                  *)
(***************************************************************************)
Placed(it) == \E f \in Profiles : it.path = PathOf[Song(it.id)][f]
Here(I, p) == {Song(i.id) : i \in {i \in I : i.path = p}}
Agree(I, F, D) == \A p \in Paths \ D : F[p].song = Here(I, p)

Places == \A it \in mem.items \cup durable.items \cup run.replaced : Placed(it)
FilesOwn ==
  \A p \in Paths, s \in Songs : s \in files[p].song => \E f \in Profiles : p = PathOf[s][f]
Agrees == Agree(mem.items, files, doubt) /\ Agree(durable.items, files, doubt)
Written ==
  At("replace") \/ At("record") =>
    \A a \in run.add : PathFor(a) \in doubt /\ files[PathFor(a)].song = {Song(a.id)}
Deleted ==
  /\ ~(At("record") \/ At("forget")) => run.delete = {}
  /\ \A d \in run.delete :
       /\ d.path \in doubt
       /\ At("record") => d \in run.replaced /\ \A a \in run.add : d.id = a.id /\ d.path # PathFor(a)
Disk == Places /\ FilesOwn /\ Agrees /\ Written /\ Deleted

(* Every id in use is one the server has given.                            *)
Issued ==
  /\ AllGiven(mem.items) /\ AllGiven(durable.items)
  /\ \A a \in run.todo.adds \cup run.add : Given(a.id)
  /\ \A c \in run.todo.changes : Given(c.new)

(* What a run deletes at the end it is not to keep, or does not recognise. *)
Unwanted ==
  Live => \A d \in run.todo.deletes : Song(d.id) \in run.want => Renamed(Song(d.id))

LEMMA HereIn ==
  ASSUME NEW I, NEW p, NEW s
  PROVE  s \in Here(I, p) <=> \E i \in I : i.path = p /\ Song(i.id) = s
  BY DEF Here

LEMMA HereSame ==
  ASSUME NEW I, NEW J, NEW p,
         \A s : (\E i \in I : i.path = p /\ Song(i.id) = s)
                  <=> (\E j \in J : j.path = p /\ Song(j.id) = s)
  PROVE  Here(I, p) = Here(J, p)
<1>1. \A s : s \in Here(I, p) <=> s \in Here(J, p)
  BY HereIn
<1> QED
  BY <1>1

LEMMA AgreeMore ==
  ASSUME NEW I, NEW F, NEW D, NEW G, NEW E, Agree(I, F, D), D \subseteq E,
         \A p \in Paths \ E : G[p] = F[p]
  PROVE  Agree(I, G, E)
  BY DEF Agree

(* A step that leaves the lists, and files other than those now in doubt.  *)
LEMMA DiskKept ==
  ASSUME TypeOK, Disk,
         mem'.items \in {mem.items, durable.items}, durable'.items \in {mem.items, durable.items},
         run'.replaced \subseteq run.replaced \cup mem.items, doubt \subseteq doubt',
         \A p \in Paths \ doubt' : files'[p] = files[p], FilesOwn', Written', Deleted'
  PROVE  Disk'
<1>1. Places'
  BY DEF Disk, Places, Placed, Song
<1>2. Agree(mem.items, files', doubt') /\ Agree(durable.items, files', doubt')
  BY AgreeMore DEF Disk, Agrees
<1>3. Agrees'
  BY <1>2 DEF Agrees
<1> QED
  BY <1>1, <1>3 DEF Disk

(* ... and the device, and the run's item at work.                         *)
LEMMA DiskRuns ==
  ASSUME TypeOK, Disk, files' = files, doubt \subseteq doubt',
         mem'.items \in {mem.items, durable.items}, durable'.items \in {mem.items, durable.items},
         \/ UNCHANGED <<run.phase, run.replaced, run.profile, run.add, run.delete>>
         \/ /\ run'.phase \in {"idle", "mark", "work"} /\ run'.delete = {}
            /\ run'.replaced \subseteq run.replaced \cup mem.items
  PROVE  Disk'
<1>1. FilesOwn'
  BY DEF Disk, FilesOwn
<1>2. Written'
  BY DEF Disk, Written, At, PathFor
<1>3. Deleted'
  BY DEF Disk, Deleted, At, PathFor
<1> QED
  BY <1>1, <1>2, <1>3, DiskKept DEF Disk, Places

(* A step that writes a list m, or fails to.                               *)
LEMMA DiskWritten ==
  ASSUME TypeOK, Disk, NEW m, Saved(m) \/ NotSaved(m), files' = files,
         Agree(m.items, files, doubt'), \A it \in m.items : Placed(it),
         doubt \subseteq doubt' \/ Saved(m),
         \/ run' = run /\ (At("idle") \/ At("work"))
         \/ /\ run'.phase \in {"idle", "mark", "work"} /\ run'.delete = {}
            /\ run'.replaced \subseteq run.replaced
  PROVE  Disk'
<1>1. FilesOwn'
  BY DEF Disk, FilesOwn
<1>2. Written'
  BY DEF Written, At
<1>3. Deleted'
  BY DEF Disk, Deleted, At
<1>4. Places'
  BY WriteChoices DEF Disk, Places, Placed, Song
<1>5. Agrees'
  <2>1. CASE Saved(m)
    BY <2>1 DEF Saved, Agrees
  <2>2. CASE ~Saved(m)
    <3>1. Agree(mem.items, files, doubt') /\ Agree(durable.items, files, doubt')
      BY <2>2, AgreeMore DEF Disk, Agrees
    <3> QED
      BY <3>1, WriteChoices DEF Agrees
  <2> QED
    BY <2>1, <2>2
<1> QED
  BY <1>1, <1>2, <1>3, <1>4, <1>5 DEF Disk

LEMMA DiskAdds ==
  ASSUME TypeOK, Disk, NEW a \in run.todo.adds, SkipAdd(a) \/ WriteFile(a) \/ WriteFails(a)
  PROVE  Disk'
<1> DEFINE P == PathFor(a)
<1>1. /\ a \in Adds /\ Song(a.id) \in Songs /\ P \in Paths /\ run.profile \in Profiles
      /\ P = PathOf[Song(a.id)][run.profile] /\ run \in Runs /\ Without(a) \in Runs
  BY PathTyped, TodoForms DEF TypeOK, Runs, Deltas, PathFor
<1>2. /\ At("work") /\ run.delete = {} /\ mem' = mem /\ durable' = durable
  BY DEF SkipAdd, WriteFile, WriteFails, Adding, Disk, Deleted, At
<1> HIDE DEF P
<1>3. ASSUME run' = Without(a) \/ run' = [Without(a) EXCEPT !.failed = TRUE]
               \/ run' = [Without(a) EXCEPT !.failed = TRUE, !.cancelled = TRUE]
      PROVE  UNCHANGED <<run.phase, run.replaced, run.profile, run.add, run.delete>>
  <2>1. CASE run' = Without(a)
    BY <2>1, WithoutFields
  <2>2. CASE run' = [Without(a) EXCEPT !.failed = TRUE]
    BY <1>1, <2>2, WithoutFields DEF Runs
  <2>3. CASE run' = [Without(a) EXCEPT !.failed = TRUE, !.cancelled = TRUE]
    BY <1>1, <2>3, WithoutFields DEF Runs
  <2> QED
    BY <1>3, <2>1, <2>2, <2>3
<1>4. CASE SkipAdd(a)
  BY <1>2, <1>3, <1>4, DiskRuns DEF SkipAdd
<1>5. CASE WriteFails(a)
  <2>1. UNCHANGED <<run.phase, run.replaced, run.profile, run.add, run.delete>>
    BY <1>3, <1>5 DEF WriteFails
  <2>2. CASE UNCHANGED <<files, doubt, touched>>
    BY <1>2, <2>1, <2>2, DiskRuns
  <2>3. CASE files' = [files EXCEPT ![P] = Torn] /\ doubt' = doubt \cup {P}
    <3>1. \A p \in Paths : files'[p] = IF p = P THEN Torn ELSE files[p]
      BY <1>1, <2>3 DEF TypeOK
    <3>2. FilesOwn'
      BY <3>1, ConstantsAssumption DEF Disk, FilesOwn, Torn
    <3>3. Written' /\ Deleted'
      BY <1>2, <2>1 DEF Written, Deleted, At
    <3> QED
      BY <1>2, <2>1, <2>3, <3>1, <3>2, <3>3, DiskKept
  <2> QED
    BY <1>5, <2>2, <2>3 DEF WriteFails, P
<1>6. CASE WriteFile(a)
  <2>1. /\ run'.phase = "replace" /\ run'.add = {a} /\ run'.delete = {}
        /\ run'.replaced = run.replaced /\ run'.profile = run.profile
    BY <1>1, <1>2, <1>6, WithoutFields DEF WriteFile, Runs
  <2>2. /\ files' = [files EXCEPT ![P] = File(Song(a.id), run.profile)]
        /\ doubt' = doubt \cup {P}
    BY <1>6 DEF WriteFile, P
  <2>3. \A p \in Paths : files'[p] = IF p = P THEN File(Song(a.id), run.profile) ELSE files[p]
    BY <1>1, <2>2 DEF TypeOK
  <2>4. FilesOwn'
    BY <1>1, <2>3 DEF Disk, FilesOwn, File
  <2>5. PathFor(a)' = P
    BY <2>1 DEF PathFor, P
  <2>6. Written'
    BY <1>1, <2>1, <2>2, <2>3, <2>5 DEF Written, File
  <2>7. Deleted'
    BY <2>1 DEF Deleted
  <2> QED
    BY <1>2, <2>1, <2>2, <2>3, <2>4, <2>6, <2>7, DiskKept
<1> QED
  BY <1>4, <1>5, <1>6

(* Removing files leaves the others.                                       *)
LEMMA RemoveParts ==
  ASSUME TypeOK, NEW ps, Remove(ps)
  PROVE  /\ doubt' = doubt \cup ps
         /\ \A p \in Paths : files'[p] = files[p] \/ (p \in ps /\ files'[p] = Absent)
         /\ FilesOwn => FilesOwn'
<1>1. \A p \in Paths : files'[p] = files[p] \/ (p \in ps /\ files'[p] = Absent)
  BY DEF Remove
<1>2. FilesOwn => FilesOwn'
  BY <1>1 DEF FilesOwn, Absent
<1> QED
  BY <1>1, <1>2 DEF Remove

LEMMA DiskReplaces ==
  ASSUME TypeOK, Lists, Disk, Replace \/ ReplaceFails PROVE Disk'
<1>1. /\ At("replace") /\ run.delete = {} /\ mem' = mem /\ durable' = durable /\ run \in Runs
  BY DEF Replace, ReplaceFails, Disk, Deleted, At, TypeOK
<1>2. PICK a \in Adds : run.add = {a}
  BY <1>1 DEF Lists, Shape
<1>3. /\ run'.phase = "record" /\ run'.add = {a} /\ run'.replaced = run.replaced
      /\ run'.profile = run.profile
  BY <1>1, <1>2 DEF Replace, ReplaceFails, Runs
<1>4. PathFor(a)' = PathFor(a) /\ PathFor(a) \in Paths
  BY <1>3, PathTyped DEF PathFor
<1>5. PathFor(a) \in doubt /\ files[PathFor(a)].song = {Song(a.id)}
  BY <1>1, <1>2 DEF Disk, Written
<1>6. \A it \in Old : it \in run.replaced /\ it.id = a.id /\ it.path # PathFor(a)
  BY <1>2 DEF Old
<1>7. CASE Replace
  <2>1. Remove({it.path : it \in Old}) /\ run'.delete = Old
    BY <1>1, <1>7 DEF Replace, Runs
  <2>2. /\ doubt' = doubt \cup {it.path : it \in Old} /\ FilesOwn'
        /\ \A p \in Paths : files'[p] = files[p] \/ p \in {it.path : it \in Old}
    BY <2>1, RemoveParts DEF Disk
  <2>3. PathFor(a) \notin {it.path : it \in Old}
    BY <1>6
  <2>4. files'[PathFor(a)] = files[PathFor(a)]
    BY <1>4, <2>2, <2>3
  <2>5. Written'
    BY <1>3, <1>4, <1>5, <2>2, <2>4 DEF Written
  <2>6. Deleted'
    BY <1>3, <1>4, <1>6, <2>1, <2>2 DEF Deleted, At
  <2> QED
    BY <1>1, <1>3, <2>2, <2>5, <2>6, DiskKept
<1>8. CASE ReplaceFails
  <2>1. files' = files /\ doubt \subseteq doubt' /\ run'.delete = {}
    BY <1>1, <1>8 DEF ReplaceFails, Runs
  <2>2. FilesOwn' /\ Written' /\ Deleted'
    BY <1>3, <1>4, <1>5, <2>1 DEF Disk, FilesOwn, Written, Deleted, At
  <2> QED
    BY <1>1, <1>3, <2>1, <2>2, DiskKept
<1> QED
  BY <1>7, <1>8

LEMMA DiskDeletes ==
  ASSUME TypeOK, Disk, NEW d \in run.todo.deletes, DeleteFile(d) \/ DeleteFails(d)
  PROVE  Disk'
<1>1. At("work") /\ mem' = mem /\ durable' = durable /\ run \in Runs /\ run.todo \in Deltas
        /\ [run EXCEPT !.todo.deletes = @ \ {d}] \in Runs
  BY TodoForms DEF DeleteFile, DeleteFails, Deleting, TypeOK, Runs
<1>2. CASE DeleteFile(d)
  <2>1. run' = [run EXCEPT !.phase = "forget", !.delete = {d}, !.todo.deletes = @ \ {d}]
    BY <1>2 DEF DeleteFile
  <2>2. run'.phase = "forget" /\ run'.delete = {d} /\ run'.replaced = run.replaced
    BY <1>1, <2>1 DEF Runs
  <2>3. /\ doubt' = doubt \cup {d.path} /\ FilesOwn'
        /\ \A p \in Paths : files'[p] = files[p] \/ p = d.path
    BY <1>2, RemoveParts DEF DeleteFile, Disk
  <2>4. Written' /\ Deleted'
    BY <2>2, <2>3 DEF Written, Deleted, At
  <2> QED
    BY <1>1, <2>2, <2>3, <2>4, DiskKept
<1>3. CASE DeleteFails(d)
  <2>1. UNCHANGED <<run.phase, run.replaced, run.profile, run.add, run.delete>>
    BY <1>1, <1>3 DEF DeleteFails, Runs
  <2> QED
    BY <1>1, <1>3, <2>1, DiskRuns DEF DeleteFails, historyVars
<1> QED
  BY <1>2, <1>3

(* The new item names the file that was written.                           *)
LEMMA DiskRecord ==
  ASSUME TypeOK, Lists, Disk, Record PROVE Disk'
<1>1. At("record") /\ Live /\ files' = files
  BY DEF Record, Live
<1>2. PICK a \in Adds : run.add = {a}
  BY <1>1 DEF Lists, Shape
<1> DEFINE P == PathFor(a)
           it == [id |-> a.id, path |-> P, rate |-> a.rate]
           I == {i \in mem.items : i.id # a.id} \cup {it}
           m == [mem EXCEPT !.items = I]
<1>3. \/ /\ Saved(m) /\ Goto("work")
         /\ doubt' = Left(a) \cup (doubt \ (Settled(m, {P}, {Song(a.id)}) \cup Settled(m, Removed(run.delete), {})))
      \/ NotSaved(m) /\ run' = Stopped /\ doubt' = doubt \cup Left(a)
  BY <1>2 DEF Record
<1>4. m.items = I /\ it.id = a.id /\ it.path = P
  BY DEF TypeOK, Manifests
<1>5. /\ Song(a.id) \in Songs /\ P \in Paths /\ P = PathOf[Song(a.id)][run.profile]
      /\ run.profile \in Profiles /\ mem.items \subseteq Items
  BY PathTyped DEF PathFor, TypeOK, Runs, Manifests
<1>6. Placed(it) /\ it \in Items
  BY <1>4, <1>5 DEF Placed, Items, Adds
<1>7. P \in doubt /\ files[P].song = {Song(a.id)}
  BY <1>1, <1>2 DEF Disk, Written
<1>8. \A d \in run.delete : /\ d.path \in doubt /\ d.path # P /\ d.id = a.id
                            /\ Placed(d) /\ d \in Items
  BY <1>1, <1>2 DEF Disk, Deleted, Places, TypeOK, Runs
<1>9. \A p : p \in Left(a) <=> p # P /\ \E i \in mem.items \ run.delete : i.id = a.id /\ i.path = p
  BY DEF Left
<1>11. \A i \in I : i = it \/ (i \in mem.items /\ i.id # a.id)
  OBVIOUS
<1>12. it \in I /\ \A i \in mem.items : i.id # a.id => i \in I
  OBVIOUS
<1>13. \A i \in I : Placed(i) /\ i \in Items
  BY <1>5, <1>6, <1>11 DEF Disk, Places
<1> HIDE DEF P, it, I, m
<1>14. ASSUME NEW p \in Paths, p # P, p \notin doubt, p \notin Left(a)
       PROVE  Here(mem.items, p) = Here(I, p)
  <2>1. \A i \in mem.items : i.path = p => i.id # a.id
    BY <1>8, <1>9, <1>14
  <2> QED
    BY <1>4, <1>11, <1>12, <1>14, <2>1, HereSame
<1>15. ASSUME P \in Settled(m, {P}, {Song(a.id)}) PROVE Here(I, P) = {Song(a.id)}
  <2>1. \A i \in I : i.path = P => Song(i.id) = Song(a.id)
    BY <1>4, <1>15 DEF Settled
  <2> QED
    BY <1>4, <1>12, <2>1 DEF Here
<1>16. ASSUME NEW p \in Settled(m, Removed(run.delete), {})
       PROVE  Here(I, p) = {} /\ files[p].song = {}
  BY <1>4 DEF Settled, Removed, Here, Absent
<1>17. Agree(m.items, files, doubt')
  <2> SUFFICES ASSUME NEW p \in Paths, p \notin doubt' PROVE files[p].song = Here(I, p)
    BY <1>4 DEF Agree
  <2>1. /\ p \notin Left(a)
        /\ \/ p \notin doubt \/ p \in Settled(m, {P}, {Song(a.id)})
           \/ p \in Settled(m, Removed(run.delete), {})
    BY <1>3
  <2>2. CASE p \in Settled(m, {P}, {Song(a.id)})
    <3>1. p = P
      BY <2>2 DEF Settled
    <3> QED
      BY <1>7, <1>15, <2>2, <3>1
  <2>3. CASE p \in Settled(m, Removed(run.delete), {})
    BY <1>16, <2>3
  <2>4. CASE p \notin doubt
    BY <1>7, <1>14, <2>1, <2>4 DEF Disk, Agrees, Agree
  <2> QED
    BY <2>1, <2>2, <2>3, <2>4
<1>18. /\ run'.phase = "work" /\ run'.delete = {} /\ run'.replaced = run.replaced
  BY <1>3, GotoFields DEF Stopped, TypeOK, Runs
<1> QED
  BY <1>1, <1>3, <1>4, <1>13, <1>17, <1>18, DiskWritten

LEMMA DiskForget ==
  ASSUME TypeOK, Lists, Disk, Forget PROVE Disk'
<1>1. At("forget") /\ Live /\ files' = files
  BY DEF Forget, Live
<1>2. PICK d \in Items : run.delete = {d}
  BY <1>1 DEF Lists, Shape
<1> DEFINE I == {i \in mem.items : i.id # d.id}
           m == [mem EXCEPT !.items = I]
<1>3. \/ Saved(m) /\ Goto("work") /\ doubt' = doubt \ Settled(m, Removed({d}), {})
      \/ NotSaved(m) /\ run' = Stopped /\ doubt' = doubt
  BY <1>2 DEF Forget
<1>4. m.items = I /\ mem.items \subseteq Items
  BY DEF TypeOK, Manifests
<1>5. d \in mem.items /\ d.path \in doubt
  BY <1>1, <1>2 DEF Lists, Fits, DeletesFit, Todelete, Disk, Deleted
<1>6. \A i \in mem.items : i.id = d.id => i = d
  BY <1>5 DEF Lists, Once, Single
<1>7. \A i \in mem.items : Placed(i)
  BY DEF Disk, Places
<1>8. \A i \in mem.items : i # d <=> i \in I
  BY <1>6
<1> HIDE DEF m
<1>9. ASSUME NEW p \in Paths, p \notin doubt PROVE Here(mem.items, p) = Here(I, p)
  <2>1. p # d.path
    BY <1>5, <1>9
  <2> QED
    BY <1>8, <2>1, HereSame
<1>10. ASSUME NEW p \in Settled(m, Removed({d}), {}) PROVE Here(I, p) = {} /\ files[p].song = {}
  BY <1>4 DEF Settled, Removed, Here, Absent
<1>11. ASSUME NEW p \in Paths, p \notin doubt' PROVE files[p].song = Here(I, p)
  <2>1. p \notin doubt \/ p \in Settled(m, Removed({d}), {})
    BY <1>3, <1>11
  <2> QED
    BY <1>9, <1>10, <2>1 DEF Disk, Agrees, Agree
<1>12. Agree(m.items, files, doubt')
  BY <1>4, <1>11 DEF Agree
<1>13. /\ run'.phase = "work" /\ run'.delete = {} /\ run'.replaced = run.replaced
  BY <1>3, GotoFields DEF Stopped, TypeOK, Runs
<1> QED
  BY <1>1, <1>3, <1>4, <1>7, <1>12, <1>13, DiskWritten

LEMMA DiskChange ==
  ASSUME TypeOK, Lists, Disk, NEW c \in run.todo.changes, ChangeId(c)
  PROVE  Disk'
<1>1. /\ At("work") /\ ~run.cancelled /\ files' = files /\ doubt' = doubt /\ run.delete = {}
      /\ run \in Runs /\ [run EXCEPT !.todo.changes = @ \ {c}] \in Runs
  BY TodoForms DEF ChangeId, historyVars, Disk, Deleted, At, TypeOK
<1> DEFINE it == [id |-> c.new, path |-> c.old.path, rate |-> 0]
           I == {i \in mem.items : i.id # c.old.id} \cup {it}
           m == [mem EXCEPT !.items = I]
<1>2. \/ Saved(m) /\ run' = [run EXCEPT !.todo.changes = @ \ {c}]
      \/ NotSaved(m) /\ run' = Stopped
  BY DEF ChangeId
<1>3. m.items = I /\ it.id = c.new /\ it.path = c.old.path
  BY DEF TypeOK, Manifests
<1>4. c.old \in mem.items /\ Song(c.new) = Song(c.old.id)
  BY <1>1 DEF Lists, Fits, ChangesFit, Live, Idle, At, Alike
<1>5. \A i \in mem.items : i.id = c.old.id => i = c.old
  BY <1>4 DEF Lists, Once, Single
<1>6. it \in I /\ (\A i \in mem.items : i.id # c.old.id => i \in I)
        /\ (\A i \in I : i = it \/ (i \in mem.items /\ i.id # c.old.id))
  OBVIOUS
<1> HIDE DEF it, I, m
<1>7. \A i \in I : Placed(i)
  BY <1>3, <1>4, <1>6 DEF Disk, Places, Placed
<1>8. \A p : Here(mem.items, p) = Here(I, p)
  BY <1>3, <1>4, <1>5, <1>6, HereSame
<1>9. Agree(m.items, files, doubt')
  BY <1>1, <1>3, <1>8 DEF Disk, Agrees, Agree
<1>10. /\ run'.phase = "work" /\ run'.delete = {} /\ run'.replaced = run.replaced
  BY <1>1, <1>2 DEF Stopped, Runs, At
<1> QED
  BY <1>1, <1>2, <1>3, <1>7, <1>9, <1>10, DiskWritten

(* A step that writes the same list, or fails to.                          *)
LEMMA DiskSameList ==
  ASSUME TypeOK, Disk, NEW m, Saved(m) \/ NotSaved(m), m.items = mem.items,
         files' = files, doubt' = doubt,
         \/ run' = run /\ (At("idle") \/ At("work"))
         \/ /\ run'.phase \in {"idle", "mark", "work"} /\ run'.delete = {}
            /\ run'.replaced \subseteq run.replaced
  PROVE  Disk'
<1>1. Agree(m.items, files, doubt') /\ \A it \in m.items : Placed(it)
  BY DEF Disk, Agrees, Places
<1> QED
  BY <1>1, DiskWritten

LEMMA DiskEnds ==
  ASSUME TypeOK, Disk, MarkDirty \/ Complete \/ CompleteFails \/ GiveUp PROVE Disk'
<1>1. NoRun.phase = "idle" /\ NoRun.delete = {} /\ NoRun.replaced = {}
  BY DEF NoRun
<1>2. CASE MarkDirty
  <2> DEFINE m == [mem EXCEPT !.dirty = TRUE]
  <2>1. (Saved(m) /\ Goto("work")) \/ (NotSaved(m) /\ run' = NoRun)
    BY <1>2 DEF MarkDirty
  <2>2. m.items = mem.items
    BY DEF TypeOK, Manifests
  <2>3. /\ run'.phase \in {"idle", "work"} /\ run'.delete = {}
        /\ run'.replaced \subseteq run.replaced
    BY <1>1, <2>1, GotoFields
  <2> HIDE DEF m
  <2> QED
    BY <1>2, <2>1, <2>2, <2>3, DiskSameList DEF MarkDirty, historyVars
<1>3. CASE Complete \/ CompleteFails
  <2> DEFINE m == Clean(mem)
  <2>1. (Saved(m) \/ NotSaved(m)) /\ run' = NoRun /\ files' = files /\ doubt' = doubt
    BY <1>3 DEF Complete, CompleteFails
  <2>2. m.items = mem.items
    BY DEF Clean, TypeOK, Manifests
  <2> HIDE DEF m
  <2> QED
    BY <1>1, <2>1, <2>2, DiskSameList
<1>4. CASE GiveUp
  BY <1>1, <1>4, DiskRuns DEF GiveUp, historyVars
<1> QED
  BY <1>2, <1>3, <1>4

LEMMA DiskWorld ==
  ASSUME TypeOK, Fresh, Lists, Disk, Offer \/ Execute \/ AutoSync \/ Cancel \/ Crash \/ Unplug \/ Plug
  PROVE  Disk'
<1>1. CASE Execute \/ AutoSync
  <2>1. PICK kind \in {"auto", "asked"}, d \in Deltas, want \in SUBSET Songs :
          Begin(kind, d, want) /\ DeltaFits(d, mem.items)
    BY <1>1, Started DEF Lists
  <2>2. /\ run'.phase = "mark" /\ run'.delete = {}
        /\ run'.replaced = d.deletes \ Removals(d)
    BY <2>1 DEF Begin, NoRun
  <2> QED
    BY <2>1, <2>2, DiskRuns DEF Begin, DeltaFits, deviceVars
<1>2. CASE Cancel \/ Unplug
  <2>1. run' = run \/ run' = [run EXCEPT !.cancelled = TRUE]
    BY <1>2 DEF Cancel, Unplug
  <2>2. UNCHANGED <<run.phase, run.replaced, run.profile, run.add, run.delete>>
    BY <2>1 DEF TypeOK, Runs
  <2> QED
    BY <1>2, <2>2, DiskRuns DEF Cancel, Unplug, historyVars
<1>3. CASE Crash
  <2>1. run'.phase = "idle" /\ run'.delete = {} /\ run'.replaced = {}
    BY <1>3 DEF Crash, NoRun
  <2> QED
    BY <1>3, <2>1, DiskRuns DEF Crash, deviceVars, historyVars
<1>4. CASE Offer \/ Plug
  BY <1>4, DiskRuns DEF Offer, Plug, deviceVars, historyVars
<1> QED
  BY <1>1, <1>2, <1>3, <1>4

LEMMA DiskUser ==
  ASSUME TypeOK, AnsweredAtOnce, Disk, User PROVE Disk'
<1>1. ASSUME NEW s, Choose(s) \/ Reidentify(s) \/ Upgrade(s) PROVE Disk'
  BY <1>1, DiskRuns DEF Choose, Reidentify, Upgrade, besidesServer, deviceVars, historyVars
<1>2. Quiet => At("idle")
  BY DEF Quiet, AnsweredAtOnce, Idle, At
<1>3. ASSUME NEW p \in Profiles, SetProfile(p) PROVE Disk'
  <2> DEFINE stale == IF mem.lastProfile = Home THEN mem.items # {} ELSE p # mem.lastProfile
             m == [mem EXCEPT !.profile = p, !.profileDirty = stale]
  <2>1. Saved(m) \/ NotSaved(m)
    BY <1>3 DEF SetProfile
  <2>2. m.items = mem.items
    BY DEF TypeOK, Manifests
  <2> HIDE DEF m
  <2> QED
    BY <1>2, <1>3, <2>1, <2>2, DiskSameList DEF SetProfile, deviceVars, historyVars
<1>4. ASSUME NEW it \in mem.items, NEW p \in Paths, Relink(it, p) PROVE Disk'
  <2> DEFINE new == [it EXCEPT !.path = p]
             I == (mem.items \ {it}) \cup {new}
             m == [mem EXCEPT !.items = I]
  <2>1. m.items = I /\ new.id = it.id /\ new.path = p /\ Song(it.id) \in Songs
    BY ItemParts DEF TypeOK, Manifests, Items
  <2>2. /\ (Saved(m) \/ NotSaved(m)) /\ Quiet /\ run' = run /\ files' = files
        /\ doubt' = doubt \cup {it.path, p} /\ files[p].song = {Song(it.id)}
    BY <1>4 DEF Relink, deviceVars
  <2> HIDE DEF new
  <2>3. Placed(new)
    BY <2>1, <2>2 DEF Disk, FilesOwn, Placed
  <2>4. \A i \in I : Placed(i)
    BY <2>3 DEF Disk, Places
  <2>5. ASSUME NEW q \in Paths \ doubt' PROVE Here(mem.items, q) = Here(I, q)
    <3>1. q # it.path /\ q # p
      BY <2>2
    <3> QED
      BY <2>1, <3>1, HereSame
  <2>6. Agree(I, files, doubt')
    BY <2>2, <2>5 DEF Disk, Agrees, Agree
  <2> HIDE DEF m, I
  <2> QED
    BY <1>2, <2>1, <2>2, <2>4, <2>6, DiskWritten
<1>5. CASE Prune
  <2> DEFINE I == mem.items \ Missing
             m == [mem EXCEPT !.items = I]
  <2>1. m.items = I
    BY DEF TypeOK, Manifests
  <2>2. /\ (Saved(m) \/ NotSaved(m)) /\ Quiet /\ run' = run /\ files' = files
        /\ doubt' = doubt \cup {it.path : it \in Missing}
    BY <1>5 DEF Prune, deviceVars
  <2>3. \A i \in I : Placed(i)
    BY DEF Disk, Places
  <2>4. ASSUME NEW q \in Paths \ doubt' PROVE Here(mem.items, q) = Here(I, q)
    <3>1. \A it \in Missing : it.path # q
      BY <2>2
    <3> QED
      BY <3>1, HereSame
  <2>5. Agree(I, files, doubt')
    BY <2>2, <2>4 DEF Disk, Agrees, Agree
  <2> HIDE DEF m, I
  <2> QED
    BY <1>2, <2>1, <2>2, <2>3, <2>5, DiskWritten
<1>6. CASE ClearDirty
  <2> DEFINE m == [mem EXCEPT !.dirty = FALSE]
  <2>1. m.items = mem.items
    BY DEF TypeOK, Manifests
  <2>2. Saved(m) \/ NotSaved(m)
    BY <1>6 DEF ClearDirty
  <2> HIDE DEF m
  <2> QED
    BY <1>2, <1>6, <2>1, <2>2, DiskSameList DEF ClearDirty, deviceVars
<1> QED
  BY <1>1, <1>3, <1>4, <1>5, <1>6 DEF User

LEMMA DiskNext ==
  TypeOK /\ AnsweredAtOnce /\ Fresh /\ Lists /\ Disk /\ [Next]_vars => Disk'
<1> SUFFICES ASSUME TypeOK, AnsweredAtOnce, Fresh, Lists, Disk, [Next]_vars PROVE Disk'
  OBVIOUS
<1>1. CASE UNCHANGED vars
  BY <1>1, DiskRuns DEF vars, deviceVars, historyVars
<1>2. CASE Step
  BY <1>2, DiskAdds, DiskReplaces, DiskRecord, DiskDeletes, DiskForget, DiskChange, DiskEnds
     DEF Step
<1> QED
  BY <1>1, <1>2, DiskWorld, DiskUser DEF Next

LEMMA DiskInit == Init => Disk
<1> SUFFICES ASSUME Init PROVE Disk
  OBVIOUS
<1>1. /\ mem.items = {} /\ durable.items = {} /\ run.replaced = {} /\ run.delete = {}
      /\ run.phase = "idle" /\ \A p \in Paths : files[p].song = {}
  BY DEF Init, NoRun, Absent
<1>2. Places /\ FilesOwn /\ Written /\ Deleted
  BY <1>1 DEF Places, FilesOwn, Written, Deleted, At
<1>3. Agrees
  BY <1>1 DEF Agrees, Agree, Here
<1> QED
  BY <1>2, <1>3 DEF Disk

LEMMA DiskInvariant ==
  ASSUME AnsweredAtOnce PROVE Spec => [](TypeOK /\ Fresh /\ Lists /\ Disk)
  BY DiskInit, DiskNext, ListsInvariant, PTL DEF Spec

(* The manifest that survives and the device part only at a path where a   *)
(* run was interrupted, an item was repaired by hand, or a run wrote or    *)
(* deleted a file that the manifest lists for another item as well         *)
(* (execute_provider_sync), whatever names and ids the tracks have.        *)
THEOREM ManifestIsTrue ==
  ASSUME AnsweredAtOnce PROVE Spec => []Trust
<1>1. Disk => Trust
  BY DEF Disk, Agrees, Agree, Here, Trust
<1> QED
  BY <1>1, DiskInvariant, PTL

-----------------------------------------------------------------------------
(* A server gives new ids and takes none back.                             *)
LEMMA Later ==
  ASSUME TypeOK, [Next]_vars
  PROVE  \A s \in Songs : live[s] \in Nat /\ live'[s] \in Nat /\ live[s] <= live'[s]
<1>1. live \in [Songs -> 1..MaxVersion] /\ live' \in [Songs -> 1..MaxVersion]
  BY TypeNext DEF TypeOK
<1>2. \A s \in Songs : live[s] \in Nat /\ live'[s] \in Nat
  BY <1>1, ConstantsAssumption
<1>3. CASE live' = live
  BY <1>2, <1>3
<1>4. ASSUME NEW s \in Songs, Reidentify(s)
      PROVE  \A t \in Songs : live[t] <= live'[t]
  <2>1. live' = [live EXCEPT ![s] = @ + 1]
    BY <1>4 DEF Reidentify
  <2> QED
    BY <1>1, <1>2, <2>1
<1>5. CASE UNCHANGED vars \/ Offer \/ Execute \/ AutoSync
  BY <1>3, <1>5 DEF vars, serverVars, Offer, Execute, AutoSync, Begin
<1>6. CASE Step
  BY <1>3, <1>6 DEF Step, unchangedByRun, serverVars, MarkDirty, Replace, ReplaceFails, Record,
       Forget, SkipAdd, WriteFile, WriteFails, DeleteFile, DeleteFails, ChangeId, Complete,
       CompleteFails, GiveUp
<1>7. CASE Cancel \/ Crash \/ Unplug \/ Plug
  BY <1>3, <1>7 DEF Cancel, Crash, Unplug, Plug, unchangedByRun, serverVars
<1>8. CASE User
  <2>1. \/ live' = live
        \/ \E s \in Songs : Reidentify(s)
    BY <1>8 DEF User, Choose, Upgrade, SetProfile, Relink, Prune, ClearDirty, serverVars
  <2> QED
    BY <1>2, <1>3, <1>4, <2>1
<1> QED
  BY <1>2, <1>5, <1>6, <1>7, <1>8 DEF Next

(* What a step of the run, or one that ends it, leaves of its plan.        *)
LEMMA PlanLess ==
  ASSUME TypeOK, Step \/ Cancel \/ Crash \/ Unplug
  PROVE  /\ run'.todo.adds \cup run'.add \subseteq run.todo.adds \cup run.add
         /\ run'.todo.changes \subseteq run.todo.changes
<1> DEFINE Less == /\ run'.todo.adds \cup run'.add \subseteq run.todo.adds \cup run.add
                   /\ run'.todo.changes \subseteq run.todo.changes
<1>1. ASSUME run' = NoRun PROVE Less
  BY <1>1 DEF NoRun, Nothing
<1>2. ASSUME run' = run \/ run' = [run EXCEPT !.cancelled = TRUE] PROVE Less
  BY <1>2 DEF TypeOK, Runs
<1>3. ASSUME Goto("work") PROVE Less
  BY <1>3, GotoFields
<1>4. ASSUME run' = Stopped PROVE Less
  BY <1>4 DEF Stopped, TypeOK, Runs
<1>5. CASE MarkDirty \/ Record \/ Forget
  BY <1>1, <1>3, <1>4, <1>5 DEF MarkDirty, Record, Forget
<1>6. CASE Replace \/ ReplaceFails
  BY <1>6 DEF Replace, ReplaceFails, TypeOK, Runs
<1>7. ASSUME NEW a \in run.todo.adds, SkipAdd(a) \/ WriteFile(a) \/ WriteFails(a) PROVE Less
  <2>1. \/ run' = Without(a)
        \/ run' = [Without(a) EXCEPT !.failed = TRUE]
        \/ run' = [Without(a) EXCEPT !.failed = TRUE, !.cancelled = TRUE]
        \/ run' = [Without(a) EXCEPT !.phase = "replace", !.add = {a}]
    BY <1>7 DEF SkipAdd, WriteFile, WriteFails
  <2>2. Without(a) \in Runs
    BY TodoForms
  <2>3. run'.todo = Without(a).todo /\ run'.add \in {Without(a).add, {a}}
    BY <2>1, <2>2 DEF Runs
  <2> QED
    BY <2>3, WithoutFields
<1>8. ASSUME NEW d \in run.todo.deletes, DeleteFile(d) \/ DeleteFails(d) PROVE Less
  <2> DEFINE rest == [run EXCEPT !.todo.deletes = @ \ {d}]
  <2>1. /\ rest \in Runs /\ rest.todo.adds = run.todo.adds /\ rest.todo.changes = run.todo.changes
        /\ rest.add = run.add
    BY TodoForms DEF TypeOK, Runs, Deltas
  <2>2. \/ run' = [rest EXCEPT !.phase = "forget", !.delete = {d}]
        \/ run' = [rest EXCEPT !.failed = TRUE]
    BY <1>8, <2>1 DEF DeleteFile, DeleteFails, TypeOK, Runs, Deltas
  <2> HIDE DEF rest
  <2> QED
    BY <2>1, <2>2 DEF Runs
<1>9. ASSUME NEW c \in run.todo.changes, ChangeId(c) PROVE Less
  <2>1. CASE run' = [run EXCEPT !.todo.changes = @ \ {c}]
    BY <2>1 DEF TypeOK, Runs, Deltas
  <2> QED
    BY <1>4, <1>9, <2>1 DEF ChangeId
<1>10. CASE Complete \/ CompleteFails \/ GiveUp \/ Crash
  BY <1>1, <1>10 DEF Complete, CompleteFails, GiveUp, Crash
<1>11. CASE Cancel \/ Unplug
  BY <1>2, <1>11 DEF Cancel, Unplug
<1> QED
  BY <1>5, <1>6, <1>7, <1>8, <1>9, <1>10, <1>11 DEF Step

(* An id that is written into a list or a plan is in one already, or is    *)
(* the one the server gives the track now.                                 *)
LEMMA IssuedNext ==
  ASSUME TypeOK, Fresh, Lists, Issued, [Next]_vars PROVE Issued'
<1>1. ASSUME NEW i \in Ids, Given(i) PROVE i[2] <= live'[Song(i)]
  <2>1. i[2] \in Nat /\ Song(i) \in Songs
    BY ItemParts, ConstantsAssumption DEF Ids
  <2> QED
    BY <1>1, <2>1, Later DEF Given
<1>2. /\ mem.items \subseteq Items /\ durable.items \subseteq Items
      /\ run.todo.adds \cup run.add \subseteq Adds /\ run.todo.changes \subseteq Changes
  BY DEF TypeOK, Manifests, Runs, Deltas
<1> DEFINE all == mem.items \cup durable.items
           Less == /\ run'.todo.adds \cup run'.add \subseteq run.todo.adds \cup run.add
                   /\ run'.todo.changes \subseteq run.todo.changes
<1>3. ASSUME NEW J \in SUBSET Items, AllGiven(J), Less,
             mem'.items \subseteq all \cup J, durable'.items \subseteq all \cup J
      PROVE  Issued'
  <2>1. \A i \in all \cup J : i.id \in Ids /\ Given(i.id)
    BY <1>2, <1>3 DEF Issued, AllGiven, Items
  <2>2. \A a \in run'.todo.adds \cup run'.add : a.id \in Ids /\ Given(a.id)
    BY <1>2, <1>3 DEF Issued, Adds
  <2>3. \A c \in run'.todo.changes : c.new \in Ids /\ Given(c.new)
    BY <1>2, <1>3 DEF Issued, Changes
  <2> QED
    BY <1>1, <1>3, <2>1, <2>2, <2>3 DEF Issued, AllGiven, Given, Song
<1>4. ASSUME Less, mem'.items \subseteq all, durable'.items \subseteq all PROVE Issued'
  <2>1. AllGiven({})
    BY DEF AllGiven
  <2> QED
    BY <1>3, <1>4, <2>1
<1>5. ASSUME NEW J \in SUBSET Items, AllGiven(J), Less, NEW m, m.items \subseteq all \cup J,
             Saved(m) \/ NotSaved(m)
      PROVE  Issued'
  BY <1>3, <1>5, WriteChoices
<1>6. ASSUME Less, NEW m, m.items \subseteq mem.items, Saved(m) \/ NotSaved(m) PROVE Issued'
  BY <1>4, <1>6, WriteChoices
<1> HIDE DEF Less
<1>7. CASE Step \/ Cancel \/ Crash \/ Unplug
  <2>1. Less
    BY <1>7, PlanLess DEF Less
  <2>2. CASE MarkDirty
    <3> DEFINE m == [mem EXCEPT !.dirty = TRUE]
    <3>1. m.items = mem.items
      BY DEF TypeOK, Manifests
    <3>2. Saved(m) \/ NotSaved(m)
      BY <2>2 DEF MarkDirty
    <3> HIDE DEF m
    <3> QED
      BY <1>6, <2>1, <3>1, <3>2
  <2>3. CASE Complete \/ CompleteFails
    <3> DEFINE m == Clean(mem)
    <3>1. m.items = mem.items
      BY DEF Clean, TypeOK, Manifests
    <3>2. Saved(m) \/ NotSaved(m)
      BY <2>3 DEF Complete, CompleteFails
    <3> HIDE DEF m
    <3> QED
      BY <1>6, <2>1, <3>1, <3>2
  <2>4. CASE Record
    <3>1. PICK a \in run.add :
            LET m == [mem EXCEPT !.items = {i \in @ : i.id # a.id} \cup
                                             {[id |-> a.id, path |-> PathFor(a), rate |-> a.rate]}]
            IN  Saved(m) \/ NotSaved(m)
      BY <2>4 DEF Record
    <3> DEFINE new == [id |-> a.id, path |-> PathFor(a), rate |-> a.rate]
               I == {i \in mem.items : i.id # a.id} \cup {new}
               m == [mem EXCEPT !.items = I]
    <3>2. m.items = I /\ (Saved(m) \/ NotSaved(m))
      BY <3>1 DEF TypeOK, Manifests
    <3>3. new \in Items /\ Given(new.id)
      BY <1>2, <3>1, PathTyped DEF Issued, Adds, Items, TypeOK, Runs
    <3>4. {new} \in SUBSET Items /\ AllGiven({new})
      BY <3>3 DEF AllGiven
    <3> HIDE DEF new, m
    <3>5. m.items \subseteq all \cup {new}
      BY <3>2
    <3> QED
      BY <1>5, <2>1, <3>2, <3>4, <3>5
  <2>5. CASE Forget
    <3>1. PICK d \in run.delete :
            LET m == [mem EXCEPT !.items = {i \in @ : i.id # d.id}] IN Saved(m) \/ NotSaved(m)
      BY <2>5 DEF Forget
    <3> DEFINE I == {i \in mem.items : i.id # d.id}
               m == [mem EXCEPT !.items = I]
    <3>2. m.items = I /\ (Saved(m) \/ NotSaved(m))
      BY <3>1 DEF TypeOK, Manifests
    <3>3. I \subseteq mem.items
      OBVIOUS
    <3> HIDE DEF m, I
    <3> QED
      BY <1>6, <2>1, <3>2, <3>3
  <2>6. ASSUME NEW c \in run.todo.changes, ChangeId(c) PROVE Issued'
    <3> DEFINE new == [id |-> c.new, path |-> c.old.path, rate |-> 0]
               I == {i \in mem.items : i.id # c.old.id} \cup {new}
               m == [mem EXCEPT !.items = I]
    <3>2. m.items = I /\ (Saved(m) \/ NotSaved(m))
      BY <2>6 DEF ChangeId, TypeOK, Manifests
    <3>3. new \in Items /\ Given(new.id)
      BY <1>2, ConstantsAssumption DEF Issued, Changes, Items
    <3>4. {new} \in SUBSET Items /\ AllGiven({new})
      BY <3>3 DEF AllGiven
    <3> HIDE DEF new, m
    <3>5. m.items \subseteq all \cup {new}
      BY <3>2
    <3> QED
      BY <1>5, <2>1, <3>2, <3>4, <3>5
  <2>7. ASSUME mem' \in {mem, durable}, durable' = durable PROVE Issued'
    BY <1>4, <2>1, <2>7
  <2>8. CASE Replace \/ ReplaceFails \/ GiveUp \/ Cancel \/ Crash \/ Unplug
    BY <2>7, <2>8 DEF Replace, ReplaceFails, GiveUp, Cancel, Crash, Unplug
  <2>9. ASSUME NEW a, SkipAdd(a) \/ WriteFile(a) \/ WriteFails(a) PROVE Issued'
    BY <2>7, <2>9 DEF SkipAdd, WriteFile, WriteFails
  <2>10. ASSUME NEW d, DeleteFile(d) \/ DeleteFails(d) PROVE Issued'
    BY <2>7, <2>10 DEF DeleteFile, DeleteFails
  <2> QED
    BY <1>7, <2>2, <2>3, <2>4, <2>5, <2>6, <2>8, <2>9, <2>10 DEF Step
<1>8. CASE Execute \/ AutoSync
  <2>1. PICK kind \in {"auto", "asked"}, d \in Deltas, want \in SUBSET Songs :
          Begin(kind, d, want) /\ Brings(d, mem)
    BY <1>8, Started DEF Lists
  <2>2. /\ run'.todo.adds = d.adds /\ run'.todo.changes = d.changes /\ run'.add = {}
        /\ live' = live /\ mem' = mem /\ durable' = durable
    BY <2>1 DEF Begin, NoRun, Deltas, serverVars
  <2>3. \A i \in Desired(Songs) \cup Listed(mem) : Given(i)
    <3>1. ASSUME NEW s \in Songs PROVE Given(<<s, live[s]>>)
      BY ConstantsAssumption DEF Given, Song, TypeOK
    <3> QED
      BY <3>1 DEF Desired, Listed, Issued, AllGiven
  <2> QED
    BY <2>1, <2>2, <2>3 DEF Brings, Issued, AllGiven, Given, Song
<1>9. ASSUME run' = run PROVE Less
  BY <1>9 DEF Less
<1>10. CASE UNCHANGED vars \/ Offer \/ Plug
  <2>1. run' = run /\ mem' \in {mem, durable} /\ durable' = durable
    BY <1>10 DEF vars, Offer, Plug
  <2> QED
    BY <1>4, <1>9, <2>1
<1>11. CASE User
  <2>1. ASSUME NEW s, Choose(s) \/ Reidentify(s) \/ Upgrade(s) PROVE Issued'
    <3>1. run' = run /\ mem' = mem /\ durable' = durable
      BY <2>1 DEF Choose, Reidentify, Upgrade, besidesServer
    <3> QED
      BY <1>4, <1>9, <3>1
  <2>2. ASSUME NEW p \in Profiles, SetProfile(p) PROVE Issued'
    <3> DEFINE stale == IF mem.lastProfile = Home THEN mem.items # {} ELSE p # mem.lastProfile
               m == [mem EXCEPT !.profile = p, !.profileDirty = stale]
    <3>1. m.items = mem.items
      BY DEF TypeOK, Manifests
    <3>2. (Saved(m) \/ NotSaved(m)) /\ run' = run
      BY <2>2 DEF SetProfile
    <3> HIDE DEF m
    <3> QED
      BY <1>6, <1>9, <3>1, <3>2
  <2>3. ASSUME NEW it \in mem.items, NEW p \in Paths, Relink(it, p) PROVE Issued'
    <3> DEFINE new == [it EXCEPT !.path = p]
               I == (mem.items \ {it}) \cup {new}
               m == [mem EXCEPT !.items = I]
    <3>1. m.items = I /\ (Saved(m) \/ NotSaved(m)) /\ run' = run
      BY <2>3 DEF Relink, TypeOK, Manifests
    <3>2. new \in Items /\ Given(new.id)
      BY <1>2 DEF Issued, AllGiven, Items
    <3>3. {new} \in SUBSET Items /\ AllGiven({new})
      BY <3>2 DEF AllGiven
    <3> HIDE DEF new, m
    <3>4. m.items \subseteq all \cup {new}
      BY <3>1
    <3> QED
      BY <1>5, <1>9, <3>1, <3>3, <3>4
  <2>4. CASE Prune
    <3> DEFINE m == [mem EXCEPT !.items = @ \ Missing]
    <3>1. m.items \subseteq mem.items /\ (Saved(m) \/ NotSaved(m)) /\ run' = run
      BY <2>4 DEF Prune, TypeOK, Manifests
    <3> HIDE DEF m
    <3> QED
      BY <1>6, <1>9, <3>1
  <2>5. CASE ClearDirty
    <3> DEFINE m == [mem EXCEPT !.dirty = FALSE]
    <3>1. m.items = mem.items /\ (Saved(m) \/ NotSaved(m)) /\ run' = run
      BY <2>5 DEF ClearDirty, TypeOK, Manifests
    <3> HIDE DEF m
    <3> QED
      BY <1>6, <1>9, <3>1
  <2> QED
    BY <1>11, <2>1, <2>2, <2>3, <2>4, <2>5 DEF User
<1> QED
  BY <1>7, <1>8, <1>10, <1>11 DEF Next

LEMMA UnwantedNext ==
  TypeOK /\ Fresh /\ Lists /\ Issued /\ Unwanted /\ [Next]_vars => Unwanted'
<1> SUFFICES ASSUME TypeOK, Fresh, Lists, Issued, Unwanted, [Next]_vars PROVE Unwanted'
  OBVIOUS
<1>0. \A d \in run.todo.deletes : Renamed(Song(d.id)) => Renamed(Song(d.id))'
  <2>1. \A d \in run.todo.deletes : Song(d.id) \in Songs /\ Song(d.id)' = Song(d.id)
    BY ItemParts DEF TypeOK, Runs, Deltas, Items, Song
  <2>2. \A s \in Songs : Renamed(s) => s \notin Matched /\ live'[s] > 1
    BY Later DEF Renamed
  <2> QED
    BY <2>1, <2>2 DEF Renamed
<1>1. ASSUME Live' => Live, run'.want = run.want, run'.todo.deletes \subseteq run.todo.deletes
      PROVE  Unwanted'
  BY <1>0, <1>1 DEF Unwanted, Song
<1>2. ASSUME run' = run \/ run' = [run EXCEPT !.cancelled = TRUE] PROVE Unwanted'
  <2>1. /\ run'.phase = run.phase /\ run'.want = run.want /\ run'.todo = run.todo
        /\ run.cancelled => run'.cancelled
    BY <1>2 DEF TypeOK, Runs
  <2> QED
    BY <1>1, <2>1 DEF Live, At, Idle
<1>3. ASSUME run' = NoRun PROVE Unwanted'
  BY <1>3 DEF Unwanted, Live, At, Idle, NoRun
<1>4. CASE Execute \/ AutoSync
  <2>1. PICK kind \in {"auto", "asked"}, d \in Deltas, want \in SUBSET Songs :
          Begin(kind, d, want) /\ Spares(d, want)
    BY <1>4, Started DEF Lists, Issued
  <2>2. run'.todo.deletes = {x \in d.deletes : \A a \in d.adds : a.id # x.id} /\ run'.want = want
    BY <2>1 DEF Begin, NoRun, Deltas, Removals
  <2>3. live' = live
    BY <2>1 DEF Begin, serverVars
  <2> QED
    BY <2>1, <2>2, <2>3 DEF Unwanted, Spares, Song, Renamed
<1>5. ASSUME run' = Stopped PROVE Unwanted'
  <2>1. run'.phase = "work" /\ run'.cancelled = TRUE
    BY <1>5 DEF Stopped, TypeOK, Runs
  <2> QED
    BY <2>1 DEF Unwanted, Live, At, Idle
<1>6. ASSUME run.phase \in {"mark", "record", "forget"}, Goto("work") PROVE Unwanted'
  <2>1. run'.want = run.want /\ run'.todo = run.todo /\ run'.phase = "work"
          /\ run'.cancelled = run.cancelled
    BY <1>6, GotoFields
  <2> QED
    BY <1>1, <1>6, <2>1 DEF Live, At, Idle
<1>7. CASE MarkDirty \/ Record \/ Forget
  BY <1>3, <1>5, <1>6, <1>7 DEF MarkDirty, Record, Forget, At
<1>8. CASE Replace \/ ReplaceFails
  <2>1. run'.want = run.want /\ run'.todo = run.todo /\ Live
    BY <1>8 DEF Replace, ReplaceFails, TypeOK, Runs, Live
  <2> QED
    BY <1>1, <2>1
<1>9. ASSUME NEW a \in run.todo.adds, SkipAdd(a) \/ WriteFile(a) \/ WriteFails(a) PROVE Unwanted'
  <2>1. Live /\ Without(a) \in Runs
    BY <1>9, TodoForms DEF SkipAdd, WriteFile, WriteFails, Adding, Live, At, Idle
  <2>2. \/ run' = Without(a)
        \/ run' = [Without(a) EXCEPT !.failed = TRUE]
        \/ run' = [Without(a) EXCEPT !.failed = TRUE, !.cancelled = TRUE]
        \/ run' = [Without(a) EXCEPT !.phase = "replace", !.add = {a}]
    BY <1>9 DEF SkipAdd, WriteFile, WriteFails
  <2>3. run'.want = Without(a).want /\ run'.todo = Without(a).todo
    BY <2>1, <2>2 DEF Runs
  <2>4. run'.want = run.want /\ run'.todo.deletes = run.todo.deletes
    BY <2>3, WithoutFields
  <2> QED
    BY <1>1, <2>1, <2>4
<1>10. ASSUME NEW d \in run.todo.deletes, DeleteFile(d) \/ DeleteFails(d) PROVE Unwanted'
  <2>1. Live
    BY <1>10 DEF DeleteFile, DeleteFails, Deleting, Live, At, Idle
  <2> DEFINE rest == [run EXCEPT !.todo.deletes = @ \ {d}]
  <2>2. rest \in Runs /\ rest.want = run.want /\ rest.todo.deletes = run.todo.deletes \ {d}
    BY TodoForms DEF TypeOK, Runs, Deltas
  <2>3. \/ run' = [rest EXCEPT !.phase = "forget", !.delete = {d}]
        \/ run' = [rest EXCEPT !.failed = TRUE]
    BY <1>10, <2>2 DEF DeleteFile, DeleteFails, TypeOK, Runs, Deltas
  <2> HIDE DEF rest
  <2>4. run'.want = run.want /\ run'.todo.deletes = run.todo.deletes \ {d}
    BY <2>2, <2>3 DEF Runs
  <2> QED
    BY <1>1, <2>1, <2>4
<1>11. ASSUME NEW c \in run.todo.changes, ChangeId(c) PROVE Unwanted'
  <2>1. Live
    BY <1>11 DEF ChangeId, Live, At, Idle
  <2>2. CASE run' = [run EXCEPT !.todo.changes = @ \ {c}]
    <3>1. run'.want = run.want /\ run'.todo.deletes = run.todo.deletes
      BY <2>2 DEF TypeOK, Runs, Deltas
    <3> QED
      BY <1>1, <2>1, <3>1
  <2> QED
    BY <1>5, <1>11, <2>2 DEF ChangeId
<1>12. CASE Complete \/ CompleteFails \/ GiveUp \/ Crash
  BY <1>3, <1>12 DEF Complete, CompleteFails, GiveUp, Crash
<1>13. CASE UNCHANGED vars \/ Offer \/ Plug \/ User
  <2>1. CASE UNCHANGED vars \/ Offer \/ Plug
    BY <1>2, <2>1 DEF vars, Offer, Plug
  <2>2. ASSUME NEW s, Choose(s) \/ Reidentify(s) \/ Upgrade(s) PROVE run' = run
    BY <2>2 DEF Choose, Reidentify, Upgrade, besidesServer
  <2>3. ASSUME NEW p, SetProfile(p) PROVE run' = run
    BY <2>3 DEF SetProfile
  <2>4. ASSUME NEW it, NEW p, Relink(it, p) PROVE run' = run
    BY <2>4 DEF Relink
  <2>5. CASE Prune \/ ClearDirty
    BY <1>2, <2>5 DEF Prune, ClearDirty
  <2> QED
    BY <1>2, <1>13, <2>1, <2>2, <2>3, <2>4, <2>5 DEF User
<1>14. CASE Cancel \/ Unplug
  <2>1. run' = run \/ run' = [run EXCEPT !.cancelled = TRUE]
    BY <1>14 DEF Cancel, Unplug
  <2> QED
    BY <1>2, <2>1
<1> QED
  BY <1>4, <1>7, <1>8, <1>9, <1>10, <1>11, <1>12, <1>13, <1>14 DEF Next, Step

LEMMA UnwantedInvariant ==
  ASSUME AnsweredAtOnce PROVE Spec => [](TypeOK /\ Lists /\ Disk /\ Unwanted)
<1>1. Init => Issued /\ Unwanted
  BY DEF Init, NoRun, Nothing, Issued, AllGiven, Unwanted, Live, At, Idle
<1>2. TypeOK /\ Fresh /\ Lists /\ Issued /\ [Next]_vars => Issued'
  BY IssuedNext
<1> QED
  BY <1>1, <1>2, UnwantedNext, DiskInvariant, PTL DEF Spec

(* A file with a name of its own is its track's.                           *)
LEMMA Holder ==
  ASSUME FilesOwn, NEW p \in Paths, Own(p), NEW s \in Songs, files[p].song = {s},
         NEW t \in Songs, NEW f \in Profiles, p = PathOf[t][f]
  PROVE  s = t
<1>1. PICK g \in Profiles : p = PathOf[s][g]
  BY DEF FilesOwn
<1> QED
  BY <1>1 DEF Own

(* A run takes nothing away that it is to keep (process_sync_item,         *)
(* cleanup_replaced_file_after_write, execute_delete_items), however often *)
(* it is interrupted, but for a track that shares its file's name with     *)
(* another or was given a new id that is not recognised.                   *)
THEOREM WantedStays ==
  ASSUME AnsweredAtOnce PROVE Spec => WantedIsKept
<1> DEFINE Kept == \A s \in run.want :
                     OnOwnPath(s) /\ ~Renamed(s) => OnDevice(s)' \/ TornAfter
<1>1. ASSUME TypeOK, Lists, Disk, Unwanted, [Next]_vars, ~Idle PROVE Kept
  <2>1. run.want \subseteq Songs /\ run \in Runs /\ mem.items \subseteq Items
    BY <1>1 DEF TypeOK, Runs, Manifests
  <2>2. ASSUME files' = files PROVE Kept
    BY <2>2 DEF OnOwnPath, OnDevice
  <2>3. ASSUME NEW a \in run.todo.adds, WriteFile(a) PROVE Kept
    <3> DEFINE P == PathFor(a)
    <3>1. /\ a \in Adds /\ P \in Paths /\ Song(a.id) \in Songs /\ run.profile \in Profiles
          /\ P = PathOf[Song(a.id)][run.profile]
      BY <1>1, PathTyped DEF TypeOK, Runs, Deltas, PathFor
    <3>2. files' = [files EXCEPT ![P] = File(Song(a.id), run.profile)]
      BY <2>3 DEF WriteFile
    <3> HIDE DEF P
    <3>3. \A p \in Paths : files'[p] = IF p = P THEN File(Song(a.id), run.profile) ELSE files[p]
      BY <1>1, <3>1, <3>2 DEF TypeOK
    <3>4. \A s \in Songs : Own(P) /\ files[P].song = {s} => s = Song(a.id)
      BY <1>1, <3>1, Holder DEF Disk
    <3> QED
      BY <2>1, <3>1, <3>3, <3>4 DEF OnOwnPath, OnDevice, File
  <2>4. ASSUME NEW a \in run.todo.adds, WriteFails(a) PROVE Kept
    <3> DEFINE P == PathFor(a)
    <3>1. P \in Paths
      BY <1>1, PathTyped DEF TypeOK, Runs, Deltas
    <3>2. CASE files' = [files EXCEPT ![P] = Torn]
      <4>1. files'[P] = Torn
        BY <1>1, <3>1, <3>2 DEF TypeOK
      <4> QED
        BY <3>1, <4>1 DEF TornAfter
    <3> QED
      BY <2>2, <2>4, <3>2 DEF WriteFails
  <2>5. CASE Replace
    <3>1. At("replace") /\ Remove({it.path : it \in Old})
      BY <2>5 DEF Replace
    <3>2. PICK a \in Adds : run.add = {a}
      BY <1>1, <3>1 DEF Lists, Shape
    <3>3. PathFor(a) \in Paths /\ Song(a.id) \in Songs /\ files[PathFor(a)].song = {Song(a.id)}
      BY <1>1, <3>1, <3>2, PathTyped DEF Disk, Written
    <3>4. \A it \in Old : it.id = a.id /\ it.path # PathFor(a) /\ Placed(it)
      BY <1>1, <3>2 DEF Old, Disk, Places
    <3>5. \A p \in Paths : files'[p] = files[p] \/ p \in {it.path : it \in Old}
      BY <1>1, <3>1, RemoveParts
    <3>6. \A s \in Songs, it \in Old :
            it.path \in Paths /\ Own(it.path) /\ files[it.path].song = {s} => s = Song(a.id)
      BY <1>1, <3>3, <3>4, Holder DEF Disk, Placed
    <3>7. files'[PathFor(a)] = files[PathFor(a)]
      BY <3>3, <3>4, <3>5
    <3> QED
      BY <2>1, <3>3, <3>5, <3>6, <3>7 DEF OnOwnPath, OnDevice
  <2>6. ASSUME NEW d \in run.todo.deletes, DeleteFile(d) PROVE Kept
    <3>1. Live /\ Remove({d.path}) /\ ~At("forget")
      BY <2>6 DEF DeleteFile, Deleting, Live, At, Idle
    <3>2. d \in mem.items /\ (Song(d.id) \in run.want => Renamed(Song(d.id)))
      BY <1>1, <3>1 DEF Lists, Fits, DeletesFit, Todelete, Unwanted
    <3>3. Song(d.id) \in Songs /\ Placed(d)
      BY <1>1, <2>1, <3>2, ItemParts DEF Disk, Places, Items
    <3>4. \A p \in Paths : files'[p] = files[p] \/ p = d.path
      BY <1>1, <3>1, RemoveParts
    <3>5. \A s \in Songs :
            d.path \in Paths /\ Own(d.path) /\ files[d.path].song = {s} => s = Song(d.id)
      BY <1>1, <3>3, Holder DEF Disk, Placed
    <3> QED
      BY <2>1, <3>2, <3>4, <3>5 DEF OnOwnPath, OnDevice
  <2> HIDE DEF Kept
  <2>7. CASE Step
    <3>1. CASE MarkDirty \/ ReplaceFails \/ Record \/ Forget \/ Complete \/ CompleteFails \/ GiveUp
      BY <2>2, <3>1 DEF MarkDirty, ReplaceFails, Record, Forget, Complete, CompleteFails, GiveUp
    <3>2. ASSUME NEW a, SkipAdd(a) PROVE Kept
      BY <2>2, <3>2 DEF SkipAdd
    <3>3. ASSUME NEW d, DeleteFails(d) PROVE Kept
      BY <2>2, <3>3 DEF DeleteFails
    <3>4. ASSUME NEW c, ChangeId(c) PROVE Kept
      BY <2>2, <3>4 DEF ChangeId
    <3> QED
      BY <2>3, <2>4, <2>5, <2>6, <2>7, <3>1, <3>2, <3>3, <3>4 DEF Step
  <2>8. CASE UNCHANGED vars \/ Offer \/ Execute \/ AutoSync \/ Cancel \/ Crash \/ Unplug \/ Plug
    <3>1. ASSUME NEW kind, NEW d, NEW want, Begin(kind, d, want) PROVE files' = files
      BY <3>1 DEF Begin, deviceVars
    <3>2. CASE Execute \/ AutoSync
      BY <2>2, <3>1, <3>2 DEF Execute, AutoSync
    <3>3. CASE UNCHANGED vars \/ Offer
      BY <2>2, <3>3 DEF vars, deviceVars, Offer
    <3>4. CASE Cancel \/ Crash \/ Unplug \/ Plug
      BY <2>2, <3>4 DEF Cancel, Crash, Unplug, Plug, deviceVars
    <3> QED
      BY <2>8, <3>2, <3>3, <3>4
  <2>9. CASE User
    <3>1. ASSUME NEW s, Choose(s) \/ Reidentify(s) \/ Upgrade(s) PROVE files' = files
      BY <3>1 DEF Choose, Reidentify, Upgrade, besidesServer, deviceVars
    <3>2. ASSUME NEW p, SetProfile(p) PROVE files' = files
      BY <3>2 DEF SetProfile, deviceVars
    <3>3. ASSUME NEW it, NEW p, Relink(it, p) PROVE files' = files
      BY <3>3 DEF Relink, deviceVars
    <3>4. CASE Prune \/ ClearDirty
      BY <2>2, <3>4 DEF Prune, ClearDirty, deviceVars
    <3> QED
      BY <2>2, <2>9, <3>1, <3>2, <3>3, <3>4 DEF User
  <2> QED
    BY <1>1, <2>7, <2>8, <2>9 DEF Next
<1>2. TypeOK /\ Lists /\ Disk /\ Unwanted /\ [Next]_vars => [~Idle => Kept]_vars
  BY <1>1
<1> QED
  BY <1>2, UnwantedInvariant, PTL DEF Spec, WantedIsKept
=============================================================================
