----------------------------- MODULE MCServices -----------------------------
(***************************************************************************)
(* The smaller components of the daemon, each checked by itself in one     *)
(* run: "who" names the one that moves, the others stay in an initial      *)
(* state.  Nothing is composed here; the components share no variable.     *)
(* All but AutoFill are extended, so that the run checks what is proved of *)
(* them; destinations are one mass storage and one phone.                  *)
(***************************************************************************)
EXTENDS Lifecycle, Destinations, Scrobbler, Servers, Staging, TLC

VARIABLE who
VARIABLES pipeline, rows, cursor, streak, device, heard, now, basket, run, picks, fired, syncs,
  setbacks, held, strays, led, dry

(***************************************************************************)
(* Two servers, a queue and a budget of two: what auto-fill adds comes     *)
(* first, last, or too large, and what is announced may be too small.      *)
(***************************************************************************)
Adds(n, auto, size, real) == [name |-> n, auto |-> auto, size |-> size, real |-> real]
StagingPlans == {
  "a" :> <<Adds("a1", TRUE, 1, 1), Adds("a2", FALSE, 2, 1)>>
    @@ "b" :> <<Adds("b1", FALSE, 1, 1), Adds("b2", TRUE, 2, 1)>>,
  "a" :> <<Adds("a1", FALSE, 0, 2), Adds("a2", TRUE, 1, 1)>>
    @@ "b" :> <<Adds("b1", FALSE, 0, 2)>>,
  "a" :> <<Adds("a1", FALSE, 3, 1), Adds("a2", FALSE, 1, 1)>>
    @@ "b" :> <<Adds("b1", TRUE, 1, 3)>>,
  "a" :> <<Adds("a1", FALSE, 1, 1), Adds("a2", FALSE, 1, 0), Adds("a3", FALSE, 2, 2)>>
    @@ "b" :> <<Adds("b1", FALSE, 1, 1), Adds("b2", FALSE, 2, 2)>>}

(* Two detections of a device with four plays: one that the manifest       *)
(* lists, one too short, one that nobody knows, and one made in the same   *)
(* second as the first.                                                    *)
Made(k, liked, listed, known) == [key |-> k, liked |-> liked, listed |-> listed, known |-> known]
MCPlays == <<Made("a", TRUE, TRUE, FALSE), Made("b", FALSE, TRUE, TRUE),
             Made("c", TRUE, FALSE, FALSE), Made("a", TRUE, FALSE, TRUE)>>

(* Six songs in two albums, and five pipelines: a stable core over two     *)
(* sources with a long cooldown; shares with a spotlight, a discovery      *)
(* reserve and a fallback; three tiers in turn; whole albums that were not *)
(* played; one artist at a time.  The pauses are shorter and longer than   *)
(* the cooldowns and the retention.                                        *)
Disc(size, plays, favorite, album, artist) ==
  [size |-> size, plays |-> plays, favorite |-> favorite, album |-> album, artist |-> artist]
Collection == <<Disc(2, 3, TRUE, 1, 1), Disc(2, 0, FALSE, 0, 2), Disc(3, 1, TRUE, 1, 1),
                Disc(1, 0, FALSE, 2, 2), Disc(2, 2, TRUE, 2, 0), Disc(2, 0, FALSE, 0, 0)>>
Lists == [library |-> 1 .. 6, one |-> {1, 2, 5}, two |-> {2, 3, 4, 6}, three |-> {4, 5}]
Plainest ==
  [sources |-> <<>>, fallback |-> <<>>, filter |-> 1 .. 6, unit |-> "track", promote |-> 0,
   core |-> 0, spotlight |-> 0, albums |-> 0, pity |-> FALSE, ratio |-> 0, threshold |-> 1,
   maxPlays |-> 0, cooldown |-> 0, exclusion |-> FALSE, duration |-> 0, tiers |-> <<>>,
   capacity |-> 8, headroom |-> 0, max |-> 99]
From(list, share) == [pool |-> list, share |-> share]
NoShare == 13
Configured == {
  [Plainest EXCEPT !.sources = <<From("one", NoShare), From("two", NoShare)>>, !.core = 6,
     !.cooldown = 4, !.unit = "promoted", !.promote = 2],
  [Plainest EXCEPT !.sources = <<From("one", 8), From("two", NoShare), From("three", NoShare)>>,
     !.fallback = <<From("library", NoShare)>>, !.pity = TRUE, !.ratio = 6, !.spotlight = 8],
  [Plainest EXCEPT !.tiers = <<"one", "two", "three">>, !.cooldown = 2, !.filter = 1 .. 5,
     !.headroom = 1, !.albums = 4],
  [Plainest EXCEPT !.unit = "album", !.exclusion = TRUE, !.duration = 3, !.max = 6],
  [Plainest EXCEPT !.unit = "artist", !.tiers = <<"two">>, !.capacity = 9, !.core = 4,
     !.albums = 10]}
Auto == INSTANCE AutoFill
          WITH Song <- Collection, Pools <- Lists, Pipelines <- Configured,
               Baskets <- {{}, {1}}, Pauses <- {1, 5}, Retention <- 4,
               MaxSyncs <- 3, MaxSetbacks <- 1

-----------------------------------------------------------------------------
Only(name) == who = name
StageIdle == StagInit /\ plan = CHOOSE p \in StagingPlans : TRUE
DestIdle == DestInit /\ present = {} /\ managed = {}
LifeIdle == Init /\ budget \in Budgets \ {0}
ServIdle == ServInit /\ taken = {}
AutoIdle == Auto!Init /\ pipeline = CHOOSE p \in Configured : p.unit = "album"

autoVars == <<pipeline, rows, cursor, streak, device, heard, now, basket, run, picks, fired, syncs,
  setbacks, held, strays, led, dry>>

(* The parts other than the one that moves.                                *)
Idle ==
  /\ ~Only("staging") => StageIdle
  /\ ~Only("destinations") => DestIdle
  /\ ~Only("lifecycle") => LifeIdle
  /\ ~Only("servers") => ServIdle
  /\ ~Only("scrobbler") => ScrobInit
  /\ ~Only("autofill") => AutoIdle
ServicesInit ==
  /\ \/ Only("staging") /\ StagInit
     \/ Only("destinations") /\ DestInit
     \/ Only("lifecycle") /\ Init
     \/ Only("servers") /\ ServInit
     \/ Only("scrobbler") /\ ScrobInit
     \/ Only("autofill") /\ Auto!Init
  /\ Idle

Still(name, v) == ~Only(name) => UNCHANGED v
Others ==
  /\ Still("staging", stagVars) /\ Still("destinations", destVars)
  /\ Still("lifecycle", vars) /\ Still("servers", servVars)
  /\ Still("scrobbler", scrobVars) /\ Still("autofill", autoVars)
ServicesNext ==
  /\ UNCHANGED who
  /\ \/ Only("staging") /\ StagNext
     \/ Only("destinations") /\ DestNext
     \/ Only("lifecycle") /\ Next
     \/ Only("servers") /\ ServNext
     \/ Only("scrobbler") /\ ScrobNext
     \/ Only("autofill") /\ Auto!Next
  /\ Others

serviceVars == <<who, stagVars, destVars, vars, servVars, scrobVars, autoVars>>
(* The fairness of each component, asked of the one that moves.            *)
Fairness ==
  /\ \A p \in Producers : WF_stagVars(Only("staging") /\ Local(p))
  /\ WF_stagVars(Only("staging") /\ WriterStep)
  /\ \A d \in Devices : WF_destVars(Only("destinations") /\ Observe(d))
  /\ WF_destVars(Only("destinations") /\ Loop)
  /\ \A w \in Windows : WF_vars(Only("lifecycle") /\ WindowStep(w))
  /\ \A d \in Launches : WF_vars(Only("lifecycle") /\ DaemonStep(d))
ServicesSpec == ServicesInit /\ [][ServicesNext]_serviceVars /\ Fairness

-----------------------------------------------------------------------------
(* The properties are stated, part by part, in the module of each          *)
(* component; those of the extended ones hold whoever moves.               *)

(* Auto-fill: no pass exceeds the budget, the shares are of what is left,  *)
(* and history, device and turns stay in step through runs that fail.      *)
AutoFillSafe == Only("autofill") =>
  /\ Auto!TypeOK /\ Auto!SelectionFits /\ Auto!FairShare /\ Auto!NoJump
  /\ Auto!RowsAreTrue /\ Auto!ResidentsTracked /\ Auto!TiersTakeTurns /\ Auto!GuaranteeHolds

(* Staging: a cancelled run ends whatever the servers do; with servers     *)
(* that answer and sizes as announced every run ends by itself.  Left      *)
(* alone, the manager comes to show what is plugged in; when nothing goes  *)
(* wrong every window gets its daemon.                                     *)
ServersFair == \A p \in Producers : WF_stagVars(Only("staging") /\ Served(p))
EveryoneServed ==
  /\ CancelEnds
  /\ ServersFair => (Only("staging") /\ AsAnnounced ~> writer.at = "ended")
  /\ PresenceReflected /\ WindowsServed
=============================================================================
