------------------------------ MODULE DesiredSet ------------------------------
(***************************************************************************)
(* One calculation of what a device should hold: the basket and the slots  *)
(* of auto-fill are resolved against the servers, call by call, while      *)
(* calls fail.  Whatever the result leaves out is deleted from the device, *)
(* so nothing that was asked for may be missing from it.  There are four   *)
(* ways: each item at its own server ("many"), all at the selected server  *)
(* ("one"), all at the selected server through the Jellyfin client         *)
(* ("direct"), and the manifest's basket when a device arrives ("auto").   *)
(***************************************************************************)
EXTENDS Naturals, Sequences, FiniteSetsExt, SequencesExt, Functions

CONSTANTS
  Library,    \* each server: its kind, what its containers hold, its lists
  Size,       \* the bytes of each track, 0 when unknown
  Requests,   \* baskets, slots and devices, see Request
  PageSize, MaxPages,   \* of a genre and of the pages of auto-fill
  MaxFaults

VARIABLES
  ask, path,
  items,      \* the items still to be resolved: an id and its server
  slots,      \* the slots still to be expanded
  desired,    \* the tracks so far: an id, a server and whether auto-fill added it
  lists,      \* the playlists that are written with them
  out,        \* "working", then "delta", "error" or "skipped"
  cancelled, faults,
  slipped,    \* history: items resolved to nothing after a call had failed
  unresolved  \* history: items the log alone knows of

vars == <<ask, path, items, slots, desired, lists, out, cancelled, faults, slipped, unresolved>>

None == "none"
NoMax == 999    \* a slot without a maximum
Unknown == 999  \* a device that does not tell what is free
Servers == DOMAIN Library
Jellyfin(s) == Library[s].kind = "jellyfin"
Item(id, at) == [id |-> id, at |-> at]
Track(id, at, auto) == [id |-> id, at |-> at, auto |-> auto]
Ids(tracks) == {tracks[i].id : i \in DOMAIN tracks}
BytesOf(S) == MapThenSumSet(LAMBDA t : Size[t], S)
Over(a, b) == IF a > b THEN a - b ELSE 0
Lesser(a, b) == IF a < b THEN a ELSE b

-----------------------------------------------------------------------------
(***************************************************************************)
(* The request and its way.                                                *)
(***************************************************************************)
At(at, r) == IF at = None THEN r.selected ELSE at

(* In an array a slot is there unless it says "disabled"; alone it has to  *)
(* say "enabled".  A maximum that cannot be read is 0.                     *)
Descriptors(r) ==
  SelectSeq(r.slots, LAMBDA d : IF r.array THEN d.enabled # "no" ELSE d.enabled = "yes")
SlotServers(r) == {At(d.at, r) : d \in ToSet(Descriptors(r))} \ {None}

NeedsConfigurable(r) == \E s \in SlotServers(r) : s \in r.configured
ItemServers(r) == {At(r.items[i].at, r) : i \in DOMAIN r.items} \ {None}
(* Seeded bug: only the items decide the way.                              *)
NeedsRoutingItems(r) == \E s \in ItemServers(r) : s # r.selected
NeedsRouting(r) == \E s \in ItemServers(r) \cup SlotServers(r) : s # r.selected
Route(r) ==
  CASE r.arrival -> "auto"
    [] ~r.arrival /\ (NeedsConfigurable(r) \/ NeedsRouting(r)) -> "many"
    [] OTHER -> IF r.selected # None /\ ~Jellyfin(r.selected) THEN "one" ELSE "direct"

Located(r) == [i \in DOMAIN r.items |-> Item(r.items[i].id, At(r.items[i].at, r))]
IsFavorite(r, id) == id \in r.favorites
(* By server in the order of their first items; favorites come first where *)
(* they are resolved in a pass of their own.                               *)
FirstAt(r, s) == Min({i \in DOMAIN r.items : At(r.items[i].at, r) = s})
Grouped(r) ==
  FlattenSeq([i \in DOMAIN r.items |->
    IF FirstAt(r, At(r.items[i].at, r)) # i THEN <<>>
    ELSE SelectSeq(Located(r), LAMBDA it : it.at = At(r.items[i].at, r))])
FavoritesFirst(r) ==
  SelectSeq(Located(r), LAMBDA it : IsFavorite(r, it.id))
    \o SelectSeq(Located(r), LAMBDA it : ~IsFavorite(r, it.id))
Queue(r) ==
  CASE Route(r) = "many" -> Grouped(r)
    [] Route(r) = "one" -> Located(r)
    [] OTHER -> FavoritesFirst(r)
(* One server has one slot, the first.                                     *)
Slots(r) ==
  IF Route(r) = "many" \/ Descriptors(r) = <<>> THEN Descriptors(r)
  ELSE <<Head(Descriptors(r))>>

(* Without a selected server nothing can be asked of it.                   *)
Homeless(r) ==
  r.selected = None /\ (Route(r) # "many" \/ \E i \in DOMAIN r.items : r.items[i].at = None)

Init ==
  /\ ask \in Requests /\ path = Route(ask)
  /\ items = Queue(ask) /\ slots = Slots(ask)
  /\ desired = <<>> /\ lists = {} /\ cancelled = FALSE /\ faults = 0
  /\ out = IF Homeless(ask) THEN "error" ELSE "working"
  /\ slipped = {} /\ unresolved = {}

-----------------------------------------------------------------------------
(***************************************************************************)
(* Resolving one item.  "broken" are the calls that fail: one per kind of  *)
(* container, and the albums of an artist by their names.                  *)
(***************************************************************************)
Calls == {"provider", "items", "album", "playlist", "artist", "song", "genre", "starred"}
Nested == UNION {DOMAIN Library[s].album : s \in Servers}
Outages == {{}} \cup (SUBSET {"album", "playlist", "artist", "song"}) \cup {{c} : c \in Calls \cup Nested}

Knows(lib, kind, id) == id \in DOMAIN lib[kind]
Answer(tracks, list) == [ok |-> TRUE, tracks |-> tracks, list |-> list, empty |-> FALSE]
Refusal == [ok |-> FALSE, tracks |-> <<>>, list |-> {}, empty |-> FALSE]
Albums(lib, ids) == FlattenSeq([i \in DOMAIN ids |-> lib.album[ids[i]]])
AllOf(lib, ids, broken, more) ==
  IF ToSet(ids) \cap broken # {} THEN Refusal ELSE Answer(Albums(lib, ids) \o more, {})
(* On arrival an album that fails is only logged.                          *)
SomeOf(lib, ids, broken, more) ==
  Answer(Albums(lib, SelectSeq(ids, LAMBDA a : a \notin broken)) \o more, {})
Parts(lib, ids, broken, more) ==
  IF path = "auto" THEN SomeOf(lib, ids, broken, more) ELSE AllOf(lib, ids, broken, more)

(* The favorite tracks of an album, or of an artist with his favorite      *)
(* albums.                                                                 *)
FavoriteItem(lib, id, broken) ==
  IF "starred" \in broken THEN Refusal
  ELSE IF ~Knows(lib, "starred", id) THEN Answer(<<>>, {})
  ELSE Parts(lib, lib.starred[id].albums, broken, lib.starred[id].songs)

(* A genre comes in pages.  A server that does not know the name answers   *)
(* with an empty page, unless it has no genres at all.                     *)
GenreItem(lib, id, broken) ==
  CASE ~lib.genres \/ "genre" \in broken -> Refusal
    [] lib.genres /\ "genre" \notin broken /\ ~Knows(lib, "genre", id) ->
         [Answer(<<>>, {}) EXCEPT !.empty = TRUE]
    [] OTHER ->
         IF Len(lib.genre[id]) >= PageSize * MaxPages THEN Refusal
         ELSE Answer(lib.genre[id], {})

(* On arrival genres are not looked for.                                   *)
Otherwise(lib, id, broken) ==
  IF path = "auto" THEN Refusal ELSE GenreItem(lib, id, broken)

(* Whatever it may be, in this order; a container call that fails counts   *)
(* as "not of this kind", only the song call tells the two apart.          *)
(* Seeded bug: the song call does not either.                              *)
ProviderItemLax(lib, id, broken) ==
  CASE Knows(lib, "album", id) /\ "album" \notin broken -> Answer(lib.album[id], {})
    [] Knows(lib, "playlist", id) /\ "playlist" \notin broken ->
         Answer(lib.playlist[id], {lib.playlist[id]})
    [] Knows(lib, "artist", id) /\ "artist" \notin broken ->
         Parts(lib, lib.artist[id], broken, <<>>)
    [] id \in lib.song /\ "song" \notin broken -> Answer(<<id>>, {})
    [] OTHER -> GenreItem(lib, id, broken)
ProviderItem(lib, id, broken) ==
  CASE Knows(lib, "album", id) /\ "album" \notin broken -> Answer(lib.album[id], {})
    [] Knows(lib, "playlist", id) /\ "playlist" \notin broken ->
         Answer(lib.playlist[id], {lib.playlist[id]})
    [] Knows(lib, "artist", id) /\ "artist" \notin broken ->
         Parts(lib, lib.artist[id], broken, <<>>)
    [] "song" \in broken -> Refusal
    [] id \in lib.song /\ "song" \notin broken -> Answer(<<id>>, {})
    [] OTHER -> Otherwise(lib, id, broken)

(* The Jellyfin client asks for the item first and knows its type; what    *)
(* fails or is not found is an error.  "album" is the call for what is in  *)
(* it.                                                                     *)
DirectItem(lib, id, broken) ==
  LET called == {"items"} \cup (IF id \in lib.song THEN {} ELSE {"album"})
  IN CASE called \cap broken # {} -> Refusal
       [] id \in lib.song -> Answer(<<id>>, {})
       [] Knows(lib, "album", id) -> Answer(lib.album[id], {})
       [] Knows(lib, "playlist", id) -> Answer(lib.playlist[id], {lib.playlist[id]})
       [] Knows(lib, "artist", id) -> Answer(Albums(lib, lib.artist[id]), {})
       [] Knows(lib, "genre", id) ->
            IF Len(lib.genre[id]) > PageSize * MaxPages THEN Refusal
            ELSE Answer(lib.genre[id], {})
       [] OTHER -> Refusal

(* A selected server of another kind that cannot be had is asked through   *)
(* the Jellyfin client, in vain.                                           *)
Resolved(it, broken) ==
  LET lib == Library[it.at]
  IN IF path \in {"many", "one"} /\ "provider" \in broken THEN Refusal
     ELSE IF IsFavorite(ask, it.id) THEN FavoriteItem(lib, it.id, broken)
     ELSE IF path = "direct" THEN DirectItem(lib, it.id, broken)
     ELSE ProviderItem(lib, it.id, broken)

(* The first to name a track has it.                                       *)
Add(all, tracks, at, auto) ==
  FoldLeft(LAMBDA acc, t : IF t \in Ids(acc) THEN acc ELSE Append(acc, Track(t, at, auto)),
           all, tracks)
TagOf(at) == IF path \in {"one", "direct"} THEN ask.selected ELSE IF path = "auto" THEN None ELSE at

CanFault(broken) ==
  /\ broken # {} => faults < MaxFaults
  /\ faults' = faults + (IF broken = {} THEN 0 ELSE 1)
(* The provider ways look for a cancellation at the end only.              *)
Stopped == path = "direct" /\ cancelled
Halt(how) ==
  out' = how /\ UNCHANGED <<items, slots, desired, lists, slipped, unresolved>>

(* On arrival the selected server is asked for everything.                 *)
Asked == [Head(items) EXCEPT !.at = IF path = "many" THEN @ ELSE ask.selected]
Holds(lib, id) == \E k \in {"album", "playlist", "artist"} : Knows(lib, k, id)

Incomplete(found) == ~found.ok \/ found # Resolved(Asked, {})

Resolve(broken) ==
  /\ out = "working" /\ items # <<>> /\ CanFault(broken)
  /\ IF Stopped THEN Halt("error")
     ELSE LET found == Resolved(Asked, broken)
          IN IF ~found.ok /\ path # "auto" THEN Halt("error")
             ELSE /\ desired' = Add(desired, found.tracks, TagOf(Asked.at), FALSE)
                  /\ lists' = lists \cup found.list
                  /\ items' = Tail(items)
                  /\ slipped' = slipped \cup
                       {it \in {Asked} : found.empty /\ Holds(Library[it.at], it.id)}
                  /\ unresolved' = unresolved \cup
                       {it \in {Head(items)} : Incomplete(found) \/ it.at # Asked.at}
                  /\ UNCHANGED <<slots, out>>
  /\ UNCHANGED <<ask, path, cancelled>>

-----------------------------------------------------------------------------
(***************************************************************************)
(* Expanding one slot.                                                     *)
(***************************************************************************)
Capacity == ask.free + ask.synced
Room == Over(Capacity, BytesOf(Ids(desired)))
Unlimited(d) == d.max = NoMax /\ ask.free = Unknown
(* What several slots share shrinks as they are filled.  One slot is filled *)
(* to the maximum of the window as it is, or to what is left; the Jellyfin *)
(* way fills what is free; on arrival a maximum includes the basket.       *)
SharedBudget(d) ==
  IF ask.free = Unknown THEN d.max ELSE IF d.max = NoMax THEN Room ELSE Lesser(d.max, Room)
OneBudget(d) == IF d.max = NoMax THEN Room ELSE d.max
ClientBudget(d) == IF d.max = NoMax THEN ask.free ELSE d.max
ArrivalBudget(d) == IF d.max = NoMax THEN Room ELSE Over(d.max, BytesOf(Ids(desired)))
Budget(d) ==
  CASE path = "many" -> SharedBudget(d)
    [] path = "one" -> OneBudget(d)
    [] path = "direct" -> ClientBudget(d)
    [] path = "auto" -> ArrivalBudget(d)

Nothing == [took |-> <<>>, seen |-> {}, bytes |-> 0, full |-> FALSE]
TryAdd(acc, t, excluded, budget) ==
  CASE acc.full \/ t \in excluded \cup acc.seen -> acc
    [] ~(acc.full \/ t \in excluded \cup acc.seen) /\ Size[t] = 0 ->
         [acc EXCEPT !.seen = @ \cup {t}]
    [] OTHER ->
         IF acc.bytes + Size[t] > budget THEN [acc EXCEPT !.seen = @ \cup {t}, !.full = TRUE]
         ELSE [acc EXCEPT !.took = Append(@, t), !.seen = @ \cup {t}, !.bytes = @ + Size[t]]
Filled(acc, tracks, excluded, budget) ==
  FoldLeft(LAMBDA a, t : TryAdd(a, t, excluded, budget), acc, tracks)
Pages(all, n) == SubSeq(all, 1, Lesser(Len(all), PageSize * n))

(* The short lists until one track does not fit, then the library, until   *)
(* one does not fit, a page fails or there are too many.                   *)
FillCalls == {"favorites", "frequent", "recent", "page", "provider"}
ProviderFill(lib, excluded, budget, broken) ==
  LET Listed(call) == IF call \in broken THEN <<>> ELSE lib[call]
      short == Filled(Nothing, lib.favorites \o Listed("frequent") \o Listed("recent"),
                      excluded, budget)
      pages == Pages(lib.all, IF "page" \in broken THEN 1 ELSE MaxPages)
  IN Filled([short EXCEPT !.full = FALSE], pages, excluded, budget).took
ClientFill(lib, excluded, budget) ==
  Filled(Nothing, Pages(lib.all, MaxPages), excluded, budget).took
(* A configured pipeline takes what it likes within its budget.            *)
Configured(s) == path \in {"many", "one"} /\ s \in ask.configured
Selections(lib, excluded, budget) ==
  {SetToSeq(S) : S \in {S \in SUBSET (ToSet(lib.all) \ excluded) : BytesOf(S) <= budget}}

(* Excluded containers stand for their tracks; what fails is not excluded. *)
Inside(lib, id) ==
  CASE id \in lib.song -> {id}
    [] Knows(lib, "album", id) -> ToSet(lib.album[id])
    [] Knows(lib, "playlist", id) -> ToSet(lib.playlist[id])
    [] Knows(lib, "artist", id) -> ToSet(Albums(lib, lib.artist[id]))
    [] OTHER -> {}
Excluded(d, lib, broken) ==
  CASE path = "many" -> Ids(desired) \cup d.except
    [] path = "direct" -> IF "provider" \in broken THEN {} ELSE UNION {Inside(lib, i) : i \in d.except}
    [] OTHER -> Ids(desired)

Fills(s, d, broken) ==
  LET lib == Library[s]
      but == Excluded(d, lib, broken)
  IN CASE Configured(s) -> Selections(lib, but, Budget(d))
       [] ~Configured(s) /\ path = "direct" -> {ClientFill(lib, but, Budget(d))}
       [] OTHER -> {ProviderFill(lib, but, Budget(d), broken)}
(* What ends an expansion: the list of favorites, for a client any page.   *)
FillFails(broken) ==
  CASE path = "direct" -> "page" \in broken
    [] path \in {"many", "one"} -> broken \cap {"favorites", "provider"} # {}
    [] OTHER -> "favorites" \in broken

Skip == slots' = Tail(slots) /\ UNCHANGED <<items, desired, lists, out, slipped, unresolved>>
Expand(broken) ==
  /\ out = "working" /\ items = <<>> /\ slots # <<>> /\ CanFault(broken)
  /\ LET d == Head(slots)
         s == IF path = "many" THEN At(d.at, ask) ELSE ask.selected
     IN IF s = None THEN Skip
        ELSE IF Unlimited(d) THEN Halt(IF path = "auto" THEN "skipped" ELSE "error")
        ELSE IF path # "direct" /\ Budget(d) = 0 THEN Skip
        ELSE IF FillFails(broken) THEN IF path = "many" THEN Skip ELSE Halt("error")
        ELSE \E took \in Fills(s, d, broken) :
               IF path = "auto" /\ took = <<>> /\ desired = <<>> THEN Halt("skipped")
               ELSE /\ desired' = Add(desired, took, TagOf(s), TRUE)
                    /\ slots' = Tail(slots)
                    /\ UNCHANGED <<items, lists, out, slipped, unresolved>>
  /\ UNCHANGED <<ask, path, cancelled>>

-----------------------------------------------------------------------------
(* The playlist of auto-fill names what auto-fill added.                   *)
Automatic == SelectSeq(desired, LAMBDA t : t.auto)
FillList == [i \in DOMAIN Automatic |-> Automatic[i].id]
NothingResolved == path = "auto" /\ desired = <<>> /\ ask.items # <<>>
Finish ==
  /\ out = "working" /\ items = <<>> /\ slots = <<>>
  /\ out' = IF NothingResolved THEN "skipped"
            ELSE IF cancelled THEN "error" ELSE "delta"
  /\ lists' = lists \cup (IF FillList = <<>> THEN {} ELSE {FillList})
  /\ UNCHANGED <<ask, path, items, slots, desired, cancelled, faults, slipped, unresolved>>
Cancel ==
  /\ out = "working" /\ ~cancelled /\ cancelled' = TRUE
  /\ UNCHANGED <<ask, path, items, slots, desired, lists, out, faults, slipped, unresolved>>

Next ==
  \/ \E broken \in Outages : Resolve(broken)
  \/ \E broken \in SUBSET FillCalls : Expand(broken)
  \/ Finish \/ Cancel
Spec == Init /\ [][Next]_vars

-----------------------------------------------------------------------------
TypeOK ==
  /\ ask \in Requests /\ path \in {"many", "one", "direct", "auto"}
  /\ out \in {"working", "delta", "error", "skipped"} /\ cancelled \in BOOLEAN
  /\ \A i \in DOMAIN desired :
       desired[i].id \in DOMAIN Size /\ desired[i].at \in Servers \cup {None}

(* What the server of an item holds under its name, whatever it is.        *)
Held(it) ==
  LET lib == Library[it.at]
  IN IF ~IsFavorite(ask, it.id)
     THEN Inside(lib, it.id)
            \cup (IF Knows(lib, "genre", it.id) THEN ToSet(lib.genre[it.id]) ELSE {})
     ELSE IF ~Knows(lib, "starred", it.id) THEN {}
     ELSE ToSet(lib.starred[it.id].songs) \cup ToSet(Albums(lib, lib.starred[it.id].albums))
Wanted == ToSet(Located(ask))

(* A calculation that succeeds has every track of every item, or what is   *)
(* left out would be deleted.  Two ways are known by which it does not: a  *)
(* container whose calls failed passes for an empty genre; and on arrival  *)
(* items that fail, that are at another server, or genres are skipped.     *)
Excused == slipped \cup (IF path = "auto" THEN unresolved ELSE {})
NothingForgotten ==
  out = "delta" => \A it \in Wanted \ Excused : Held(it) \subseteq Ids(desired)

(* Every track is downloaded from a server that has it, and no server is   *)
(* drawn on by auto-fill that has no slot.                                 *)
OwnServer ==
  out = "delta" => \A i \in DOMAIN desired :
    LET s == IF desired[i].at = None THEN ask.selected ELSE desired[i].at
    IN /\ desired[i].id \in Library[s].song
       /\ desired[i].auto /\ path # "auto" => s \in SlotServers(ask)

(* A track is there once; the user's choice is never taken for auto-fill's,*)
(* which a smaller slot would delete.                                      *)
ManualWins ==
  /\ Cardinality(Ids(desired)) = Len(desired)
  /\ out = "delta" => \A i \in DOMAIN desired :
       desired[i].auto => \A it \in Wanted \ Excused : desired[i].id \notin Held(it)

(* All slots together stay within the device, or what the window allowed;  *)
(* only the Jellyfin way counts no more than its own maximum.              *)
FillBytes == BytesOf({FillList[i] : i \in DOMAIN FillList})
ManualBytes == BytesOf(Ids(desired)) - FillBytes
FillFits ==
  FillBytes > 0 =>
    /\ path = "many" /\ ask.free # Unknown => ManualBytes + FillBytes <= Capacity
    /\ path = "auto" => ManualBytes + FillBytes <=
         (IF ask.slots[1].max = NoMax THEN Capacity ELSE ask.slots[1].max)
    /\ path \in {"one", "direct"} => FillBytes <=
         (IF Slots(ask)[1].max = NoMax THEN Capacity ELSE Slots(ask)[1].max)

(* A playlist names only tracks that are written.                          *)
ListsPlayable == out = "delta" => \A l \in lists : ToSet(l) \subseteq Ids(desired)

(* A calculation that was cancelled before its last call gives nothing.    *)
CancelHeard == cancelled => out # "delta"
=============================================================================
