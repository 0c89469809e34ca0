------------------------------ MODULE MCWanted ------------------------------
(***************************************************************************)
(* A synchronisation, and by itself the calculation of what the device     *)
(* should hold, which SyncRun takes as given.  "who" names the one that    *)
(* moves; they share no variable and are not composed.                     *)
(***************************************************************************)
EXTENDS MCSyncRun, Sequences

VARIABLE who
VARIABLES ask, path, items, slots, desired, lists, out, cancelled, broken, slipped, unresolved
askedVars == <<ask, path, items, slots, desired, lists, out, cancelled, broken, slipped, unresolved>>

(* Two servers.  A playlist names a track twice, an artist has two albums, *)
(* one track has no known size, and some are in several containers.        *)
LibraryA ==
  [kind |-> "jellyfin", genres |-> TRUE, song |-> {"t1", "t2", "t3", "t4"},
   album |-> "al" :> <<"t1", "t2">> @@ "am" :> <<"t3">>,
   playlist |-> "pl" :> <<"t2", "t3", "t2">>, artist |-> "ar" :> <<"al", "am">>,
   genre |-> "ge" :> <<"t1", "t4">>,
   starred |-> "fa" :> [albums |-> <<"am">>, songs |-> <<"t1">>],
   favorites |-> <<"t1">>, frequent |-> <<"t4", "t1">>, recent |-> <<"t3">>,
   all |-> <<"t1", "t2", "t3", "t4">>]
LibraryB ==
  [kind |-> "subsonic", genres |-> TRUE, song |-> {"u1", "u2", "u3", "u4"},
   album |-> "bl" :> <<"u1", "u2">> @@ "bm" :> <<"u3">>,
   playlist |-> "bp" :> <<"u3", "u1">>, artist |-> "br" :> <<"bl", "bm">>,
   genre |-> "bg" :> <<"u2", "u4">>,
   starred |-> "fb" :> [albums |-> <<"bl">>, songs |-> <<"u3">>],
   favorites |-> <<"u2">>, frequent |-> <<"u4">>, recent |-> <<"u1", "u2">>,
   all |-> <<"u1", "u2", "u3", "u4">>]
Sizes ==
  [t \in LibraryA.song \cup LibraryB.song |->
    IF t = "t4" THEN 0 ELSE IF t \in {"t2", "u2"} THEN 2 ELSE 1]

Nowhere == "none"
Put(id, at) == [id |-> id, at |-> at]
Slot(at, max, except, enabled) == [at |-> at, max |-> max, except |-> except, enabled |-> enabled]
Unbounded == 999
AskedBaskets == {
  <<>>, <<Put("t4", Nowhere)>>,
  <<Put("al", Nowhere), Put("bp", "b"), Put("pl", "a")>>,
  <<Put("ar", "a"), Put("fa", "a"), Put("ge", Nowhere)>>,
  <<Put("br", "b"), Put("bl", Nowhere), Put("fb", "b")>>,
  <<Put("u3", Nowhere), Put("bg", "b"), Put("bp", "b")>>}
SlotLists == {
  <<>>, <<Slot("a", 0, {}, "yes")>>, <<Slot("b", 6, {}, "yes")>>,
  <<Slot("b", Unbounded, {"u1"}, "absent"), Slot("a", 2, {}, "yes")>>,
  <<Slot(Nowhere, Unbounded, {"pl"}, "yes"), Slot("b", 3, {}, "no")>>,
  <<Slot("b", 3, {}, "yes"), Slot(Nowhere, 2, {"t1"}, "absent")>>}
ArrivalSlots ==
  {<<>>, <<Slot(Nowhere, Unbounded, {}, "yes")>>, <<Slot(Nowhere, 6, {}, "yes")>>}
Asked(slotLists, arrays, selected, configured, arrival) ==
  [items : AskedBaskets, favorites : {{"fa", "fb"}}, slots : slotLists, array : arrays,
   selected : selected, free : {2, Unbounded}, synced : {3}, configured : configured,
   arrival : {arrival}]
AskedRequests ==
  {r \in Asked(SlotLists, BOOLEAN, {"a", "b", Nowhere}, {{}, {"b"}}, FALSE) :
     ~r.array => Len(r.slots) <= 1}
  \cup Asked(ArrivalSlots, {FALSE}, {"a", "b"}, {{}}, TRUE)
Want == INSTANCE DesiredSet
          WITH Library <- "a" :> LibraryA @@ "b" :> LibraryB, Size <- Sizes,
               Requests <- AskedRequests, PageSize <- 2, MaxPages <- 3, MaxFaults <- 2,
               faults <- broken

-----------------------------------------------------------------------------
Only(name) == who = name
AnyRequest == CHOOSE r \in AskedRequests : TRUE
WantedInit ==
  /\ who \in {"run", "desired"}
  /\ Init /\ (~Only("run") => class = "msc")
  /\ Want!Init /\ (~Only("desired") => ask = AnyRequest)
WantedNext ==
  /\ UNCHANGED who
  /\ \/ Only("run") /\ Next /\ UNCHANGED askedVars
     \/ Only("desired") /\ Want!Next /\ UNCHANGED vars
WantedSpec == WantedInit /\ [][WantedNext]_<<who, vars, askedVars>>

-----------------------------------------------------------------------------
(* What was asked for is in the result, at a server that has it, or there  *)
(* is no result: what is left out would be deleted.  Auto-fill stays       *)
(* within its room, takes nothing the user chose for its own, and a        *)
(* playlist names only tracks that are written.                            *)
DesiredSafe ==
  Only("desired") =>
    /\ Want!TypeOK /\ Want!NothingForgotten /\ Want!OwnServer /\ Want!ManualWins
    /\ Want!FillFits /\ Want!ListsPlayable /\ Want!CancelHeard
=============================================================================
