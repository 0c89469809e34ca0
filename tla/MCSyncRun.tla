----------------------------- MODULE MCSyncRun -----------------------------
EXTENDS SyncRun, TLC

(* Every track has a path of its own in each profile.                      *)
MCPathOf == [s \in Songs |-> [p \in Profiles |-> <<s, p>>]]
MCPaths == Songs \X Profiles

(* Two tracks of one album with the same number and title, from files of   *)
(* different types: transcoded, both get the same name.                    *)
MCSharedPathOf ==
  [s \in Songs |-> [p \in Profiles |-> IF p = Home THEN <<s, p>> ELSE <<"both", p>>]]
MCSharedPaths == {MCSharedPathOf[s][p] : s \in Songs, p \in Profiles}

(* No liveness is checked here, so tracks may be exchanged.                *)
MCSymmetry == Permutations(Songs)
=============================================================================
