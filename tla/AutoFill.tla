------------------------------ MODULE AutoFill ------------------------------
(***************************************************************************)
(* What the user did not choose is chosen for him: before each             *)
(* synchronisation of a device the slot of a server is expanded by a       *)
(* pipeline of reserves and shares over the candidates of the server, and  *)
(* after it the history that the next expansion reads is written to the    *)
(* database.  The pipeline is a pure function; the hazards are in its      *)
(* budgets and in the loop through history, device and database.           *)
(*                                                                         *)
(* A song is a number, its rank in the order of the pipeline.  Context     *)
(* rules and the collapse of versions, which only take candidates away,    *)
(* and what is in a song's tags are in the pools and the filter.           *)
(***************************************************************************)
EXTENDS Integers, Sequences, FiniteSetsExt, SequencesExt

CONSTANTS
  Song,       \* the songs, in rank order: size, plays, favorite, album and
              \* artist (0 for none)
  Pools,      \* what each source of the server lists
  Pipelines,  \* the configurations, see Pipeline
  Baskets,    \* what the user may have chosen
  Pauses,     \* the time between two synchronisations
  Retention,  \* the age at which a row of the history is dropped
  MaxSyncs, MaxSetbacks

VARIABLES
  pipeline,   \* the configured pipeline of the slot
  rows,       \* autofill_history: the last synchronisation of each track
  cursor, streak,  \* autofill_rotation and autofill_pity
  device,     \* the items of the manifest
  heard,      \* what the server knows to have been played
  now, basket,
  run,        \* "idle", then "asked" and "filled" with its picks
  picks,      \* what the pipeline selected: song, pass and source
  fired,      \* pity_fired_servers names the server
  syncs, setbacks,
  held,       \* history: when a completed run last left each song there
  strays,     \* history: on the device without the database being told
  led,        \* history: the completed runs that each tier led
  dry         \* history: completed runs since a reserve was really kept

vars == <<pipeline, rows, cursor, streak, device, heard, now, basket, run, picks, fired, syncs,
          setbacks, held, strays, led, dry>>

Fault == setbacks < MaxSetbacks /\ setbacks' = setbacks + 1
Songs == DOMAIN Song
Bytes(S) == MapThenSumSet(LAMBDA s : Song[s].size, S)
Least(a, b) == IF a < b THEN a ELSE b

(* Shares are twelfths of a whole; a source may have none.                 *)
Whole == 12
Unshared == Whole + 1
Rounded(part, total) == (2 * part * total + Whole) \div (2 * Whole)
Source(pool, share) == [pool |-> pool, share |-> share]

Init ==
  /\ pipeline \in Pipelines /\ rows = <<>> /\ cursor = 0 /\ streak = 0 /\ device = {}
  /\ heard = {} /\ now = 0 /\ basket = {} /\ run = "idle" /\ picks = {} /\ fired = FALSE
  /\ syncs = 0 /\ setbacks = 0 /\ held = [s \in Songs |-> -1] /\ strays = {}
  /\ led = [i \in DOMAIN pipeline.tiers |-> 0] /\ dry = 0

-----------------------------------------------------------------------------
(***************************************************************************)
(* What is fetched for the pipeline: its budget and its sources.           *)
(***************************************************************************)
(* What the manual items leave of the device is the budget of the slot;    *)
(* the headroom is of the device, the configured maximum a cap on top.     *)
Budget == IF pipeline.capacity > Bytes(basket) THEN pipeline.capacity - Bytes(basket) ELSE 0
Ceiling ==
  Least(pipeline.max, IF Budget > pipeline.headroom THEN Budget - pipeline.headroom ELSE 0)

(* The tiers take turns: the leading one has half, the rest share half.    *)
Tiers == Len(pipeline.tiers)
Turn(i) == ((cursor + i - 1) % Tiers) + 1
Lead == Turn(1)
TierShare(i) ==
  IF Tiers = 1 THEN Unshared ELSE IF i = 1 THEN Whole \div 2 ELSE Whole \div (2 * (Tiers - 1))
Rotated(shares) == [i \in 1 .. Tiers |-> Source(pipeline.tiers[Turn(i)], shares[i])]
Sources ==
  CASE Tiers > 0 -> Rotated([i \in 1 .. Tiers |-> TierShare(i)])
    [] Tiers = 0 /\ pipeline.sources = <<>> -> <<Source("library", Unshared)>>
    [] OTHER -> pipeline.sources
Fallback ==
  IF Tiers > 0 THEN Rotated([i \in 1 .. Tiers |-> Unshared]) ELSE pipeline.fallback

-----------------------------------------------------------------------------
(***************************************************************************)
(* The engine.  A selection is what was taken with its bytes and the limit *)
(* of the pass; "mine" and "shut" are of the source that is being drawn.   *)
(***************************************************************************)
Cands(pool) == Pools[pool] \cap pipeline.filter
Empty == [took |-> {}, bytes |-> 0, limit |-> Ceiling, mine |-> 0, shut |-> FALSE]
Pick(s, pass, source) == [song |-> s, pass |-> pass, source |-> source]
SongsOf(took) == {p.song : p \in took}

(* Units of one song, or of all that share an album or an artist, by their *)
(* best song; an album with enough favorites is a unit among single songs. *)
Promoted(pool, album) ==
  /\ pipeline.promote > 0
  /\ Cardinality({s \in Cands(pool) : Song[s].favorite /\ Song[s].album = album})
       >= pipeline.promote
GroupKey(pool, unit, s) ==
  CASE unit = "album" -> Song[s].album
    [] unit = "artist" -> Song[s].artist
    [] unit = "promoted" /\ Promoted(pool, Song[s].album) -> Song[s].album
    [] OTHER -> 0
UnitOf(pool, unit, s) ==
  LET key == GroupKey(pool, unit, s)
  IN IF key = 0 THEN {s} ELSE {t \in Cands(pool) : GroupKey(pool, unit, t) = key}
Units(pool, unit) ==
  SetToSortSeq({UnitOf(pool, unit, s) : s \in Cands(pool)}, LAMBDA g, h : Min(g) < Min(h))

(* A row of the history stands for "on the device"; what the server counts *)
(* as played once is played.                                               *)
Tracked(s) == s \in DOMAIN rows
PlayCount(s) == Song[s].plays + (IF s \in heard THEN 1 ELSE 0)
Allowed(s, core) ==
  /\ pipeline.exclusion => PlayCount(s) = 0
  /\ Tracked(s) /\ ~core => now - rows[s] >= pipeline.cooldown
Eligible(took, pass, s) ==
  /\ pass = "core" => Tracked(s)
  /\ pass = "discovery" => ~Tracked(s) /\ PlayCount(s) <= pipeline.maxPlays
  /\ s \notin basket /\ s \notin SongsOf(took) /\ Allowed(s, pass = "core") /\ Song[s].size > 0

Overdue(sel) == pipeline.duration > 0 /\ Cardinality(sel.took) >= pipeline.duration
TooMuch(sel, staged, cap) ==
  \/ sel.bytes + Bytes(staged) > sel.limit
  \/ sel.mine + Bytes(staged) > cap
  \/ pipeline.duration > 0 /\ Cardinality(sel.took) + Cardinality(staged) > pipeline.duration
(* A unit that does not fit ends the source.                               *)
Draw(sel, unit, cap, pass, source) ==
  LET staged == {s \in unit : Eligible(sel.took, pass, s)}
  IN IF sel.shut \/ staged = {} THEN sel
     ELSE IF Overdue(sel) \/ TooMuch(sel, staged, cap) THEN [sel EXCEPT !.shut = TRUE]
     ELSE [sel EXCEPT !.bytes = @ + Bytes(staged), !.mine = @ + Bytes(staged),
                      !.took = @ \cup {Pick(s, pass, source) : s \in staged}]
Fill(sel, units, cap, pass, source) ==
  FoldLeft(LAMBDA acc, unit : Draw(acc, unit, cap, pass, source),
           [sel EXCEPT !.mine = 0, !.shut = FALSE], units)

(* The caps of the sources: as their shares say, the rest in equal parts.  *)
Caps(sources, total) ==
  LET given == {i \in DOMAIN sources : sources[i].share # Unshared}
      bare == Cardinality(DOMAIN sources \ given)
      shared == MapThenSumSet(LAMBDA i : sources[i].share, given)
      rest == IF shared < Whole THEN Whole - shared ELSE 0
  IN [i \in DOMAIN sources |->
        CASE given = {} -> total \div bare
          [] i \in given -> (sources[i].share * total) \div Whole
          [] OTHER -> (rest * total) \div (Whole * bare)]

(* The artist of the best song that has one; the spotlight is on his songs.*)
Featured ==
  LET named == {s \in UNION {Cands(Sources[i].pool) : i \in DOMAIN Sources} : Song[s].artist # 0}
  IN IF named = {} THEN 0 ELSE Song[Min(named)].artist
InPass(pass, unit) == pass = "spotlight" => \E s \in unit : Song[s].artist = Featured

Pass(sel, sources, caps, pass, unit) ==
  LET Mine(i) == SelectSeq(Units(sources[i].pool, unit), LAMBDA group : InPass(pass, group))
  IN FoldLeft(LAMBDA acc, i : Fill(acc, Mine(i), caps[i], pass, i),
              sel, [i \in DOMAIN sources |-> i])
Reserve(sel, size, pass, unit) ==
  IF size = 0 THEN sel
  ELSE [Pass([sel EXCEPT !.limit = Least(sel.bytes + size, Ceiling)], Sources,
             Caps(Sources, size), pass, unit) EXCEPT !.limit = Ceiling]
Spotlight(sel) ==
  IF Featured = 0 THEN sel
  ELSE Reserve(sel, Rounded(pipeline.spotlight, Ceiling), "spotlight", "track")

PityBytes(total) ==
  IF pipeline.pity /\ streak >= pipeline.threshold THEN Rounded(pipeline.ratio, total) ELSE 0

(* Seeded bug: the shares are of the ceiling, whatever the reserves took.  *)
RemainingAll(sel) == Ceiling
Remaining(sel) == Ceiling - sel.bytes

(* The reserves one after the other, what they leave by shares, and what   *)
(* the shares leave from the fallback sources.                             *)
RunPipeline ==
  LET unit == pipeline.unit
      core == Reserve(Empty, Rounded(pipeline.core, Ceiling), "core", unit)
      albums ==
        Reserve(Spotlight(core), Rounded(pipeline.albums, Ceiling), "albums", "album")
      pity == Reserve(albums, PityBytes(Ceiling), "discovery", unit)
      primary == Pass(pity, Sources, Caps(Sources, Remaining(pity)), "primary", unit)
      caps == [i \in DOMAIN Fallback |-> Ceiling]
  IN Pass(primary, Fallback, caps, "fallback", unit).took

-----------------------------------------------------------------------------
(***************************************************************************)
(* A synchronisation: the delta, the run and the record.                   *)
(***************************************************************************)
Hear(s) ==
  /\ run = "idle" /\ pipeline.exclusion /\ heard = {} /\ heard' = {s}
  /\ UNCHANGED <<pipeline, rows, cursor, streak, device, now, basket, run, picks, fired, syncs,
                 setbacks, held, strays, led, dry>>

Ask(manual, pause) ==
  /\ run = "idle" /\ syncs < MaxSyncs /\ syncs' = syncs + 1
  /\ run' = "asked" /\ basket' = manual /\ now' = now + pause
  /\ UNCHANGED <<pipeline, rows, cursor, streak, device, heard, picks, fired, setbacks, held,
                 strays, led, dry>>

Expand ==
  /\ run = "asked" /\ run' = "filled"
  /\ picks' = IF Budget > 0 THEN RunPipeline ELSE {}
  /\ fired' = (PityBytes(Budget) > 0)
  /\ UNCHANGED <<pipeline, rows, cursor, streak, device, heard, now, basket, syncs, setbacks, held,
                 strays, led, dry>>

Desired == basket \cup SongsOf(picks)
Adds == Desired \ device
Deletes == device \ Desired

(***************************************************************************)
(* The record of a run that wrote everything: what was added is of now, so *)
(* is what stays and has a row, rows that are too old go; then the turn of *)
(* the tiers and the streak.  A write of a row may fail, and is lost.      *)
(***************************************************************************)
(* Seeded bug: what stays on the device keeps its old date.                *)
RefreshedNone == {}
Refreshed == (device \cap DOMAIN rows) \ Deletes
Recorded(lost) ==
  LET told == (Adds \cup Refreshed) \ lost
      all == [s \in told \cup DOMAIN rows |-> IF s \in told THEN now ELSE rows[s]]
  IN [s \in {t \in DOMAIN all : all[t] >= now - Retention} |-> all[s]]
Complete(lost) ==
  /\ run = "filled" /\ run' = "idle" /\ device' = Desired /\ picks' = {}
  /\ IF Adds \cup device = {} THEN UNCHANGED rows ELSE rows' = Recorded(lost)
  /\ cursor' = IF Tiers > 0 /\ Adds # {} THEN cursor + 1 ELSE cursor
  /\ streak' = IF ~(pipeline.pity /\ Adds # {}) THEN streak ELSE IF fired THEN 0 ELSE streak + 1
  /\ held' = [s \in Songs |-> IF s \in Desired THEN now ELSE held[s]]
  /\ strays' = (strays \cap Desired) \cup lost
  /\ led' = IF Tiers > 0 /\ Adds # {} THEN [led EXCEPT ![Lead] = @ + 1] ELSE led
  /\ dry' = IF Adds = {} THEN dry ELSE IF PityBytes(Ceiling) > 0 THEN 0 ELSE dry + 1
  /\ UNCHANGED <<pipeline, heard, now, basket, fired, syncs>>
Completed ==
  \/ Complete({}) /\ UNCHANGED setbacks
  \/ \E s \in Adds \cup Refreshed : Complete({s}) /\ Fault

(* A run that is cancelled, crashes, or fails with a single file records   *)
(* nothing, whatever it wrote and removed.                                 *)
Fail(written, deleted) ==
  /\ run = "filled" /\ run' = "idle" /\ picks' = {} /\ Fault
  /\ device' = (device \ deleted) \cup written
  /\ strays' = (strays \ deleted) \cup written
  /\ UNCHANGED <<pipeline, rows, cursor, streak, heard, now, basket, fired, syncs, held, led, dry>>

Next ==
  \/ \E s \in Songs : Hear(s)
  \/ \E m \in Baskets, p \in Pauses : Ask(m, p)
  \/ Expand \/ Completed
  \/ \E w \in SUBSET Adds, d \in SUBSET Deletes : Fail(w, d)
Spec == Init /\ [][Next]_vars

-----------------------------------------------------------------------------
TypeOK ==
  /\ pipeline \in Pipelines /\ DOMAIN rows \subseteq Songs /\ device \subseteq Songs
  /\ cursor \in 0 .. MaxSyncs /\ streak \in 0 .. MaxSyncs /\ run \in {"idle", "asked", "filled"}
  /\ \A p \in picks : p.song \in Songs /\ p.source \in Nat

Picked(pass) == SongsOf({p \in picks : p.pass = pass})
Reserved == SongsOf({p \in picks : p.pass \notin {"primary", "fallback"}})

(* However the passes share out the budget: it is never exceeded, by a     *)
(* reserve neither, no song is taken twice or is one that the user chose,  *)
(* and only the stable core may bring back a song that is cooling down.    *)
SelectionFits ==
  /\ Bytes(SongsOf(picks)) <= Ceiling
  /\ Bytes(Picked("core")) <= Rounded(pipeline.core, Ceiling)
  /\ Bytes(Picked("discovery")) <= PityBytes(Ceiling)
  /\ Cardinality(SongsOf(picks)) = Cardinality(picks)
  /\ \A p \in picks :
       p.song \in pipeline.filter \ basket /\ Allowed(p.song, p.pass = "core")

Wishes(i) ==
  {s \in Cands(Sources[i].pool) \ Reserved : s \notin basket /\ Allowed(s, FALSE)}
(* A source whose candidates fit its share of what the reserves left gets  *)
(* them all, wherever it stands in the list.                               *)
FairShare ==
  run = "filled" /\ pipeline.duration = 0 =>
    \A i \in DOMAIN Sources :
      Bytes(Wishes(i)) <= Caps(Sources, Ceiling - Bytes(Reserved))[i] =>
        Wishes(i) \subseteq SongsOf(picks)

(* A source never passes over a better unit for a worse one that fits.     *)
NoJump ==
  \A p \in picks : p.pass = "primary" =>
    \A s \in Wishes(p.source) :
      LET Rank(t) == Min(UnitOf(Sources[p.source].pool, pipeline.unit, t))
      IN Rank(s) < Rank(p.song) => s \in SongsOf(picks)

(* A row names a run that left the song on the device.                     *)
RowsAreTrue == \A s \in DOMAIN rows : rows[s] <= held[s]

(* What is on the device keeps its row, however long ago it was written,   *)
(* unless the run that wrote it did not get to its record.                 *)
ResidentsTracked == run = "idle" => device \subseteq DOMAIN rows \cup strays

(* Every tier leads as many completed runs as every other, but for one.    *)
TiersTakeTurns == \A i, j \in DOMAIN led : led[i] <= led[j] + 1

(* No more than "threshold" runs that wrote something pass between two     *)
(* discovery reserves, when the ceiling is the budget and has room for one.*)
Roomy ==
  /\ pipeline.headroom = 0 /\ pipeline.max >= pipeline.capacity
  /\ \A m \in Baskets : Rounded(pipeline.ratio, pipeline.capacity - Bytes(m)) > 0
GuaranteeHolds == pipeline.pity /\ Roomy => dry <= pipeline.threshold
=============================================================================
