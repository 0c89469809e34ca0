------------------------------- MODULE Servers -------------------------------
(***************************************************************************)
(* The configured servers are kept three times: as rows of the database,   *)
(* as secrets in the encrypted vault, and in the server manager, which     *)
(* also caches one provider per server.  Every request of the window runs  *)
(* on a thread of its own.  The database locks each of its calls, the      *)
(* manager has a lock that some requests hold over several steps, and the  *)
(* vault has none: each change reads the whole file and writes it anew.    *)
(*                                                                         *)
(* A plain server stands for Jellyfin; Subsonic takes the same steps but   *)
(* for the secret that a selection writes again.  A scoped one is a        *)
(* library of Audiobookshelf.  config.json, names and icons are left out.  *)
(***************************************************************************)
EXTENDS Naturals, FiniteSets

CONSTANTS
  Plain, Scoped,   \* what servers there are
  Calls,           \* the requests; the secret a request brings has its name
  MaxRows,         \* how many local ids a server may go through
  MaxMishaps       \* storage failures and crashes

VARIABLES
  db,       \* rows of server_config by local id, and those marked as selected
  vault,    \* secrets.enc: the secret of each local id
  mgr,      \* ServerManager: servers, selected_server_id, and the cached
            \* providers, each by the secret it was built from
  keeper,   \* who holds the manager for writing
  call,     \* the requests
  offers,   \* pending_audiobookshelf_setups
  mishaps, taken,
  removed,  \* history: ids whose row has been deleted
  lost,     \* history: ids whose secret another's write of the vault touched,
            \* or that a provider with an old secret may still be cached for
  stale     \* history: the manager missed the last change of the rows

Servers == Plain \cup Scoped
Ids == Servers \X (1 .. MaxRows)
NoSecret == "none"
Old == "old"
NoKeeper == "nobody"
NoId == <<>>
EmptyVault == [i \in Ids |-> NoSecret]
NoCall == [at |-> "idle", kind |-> "none", id |-> NoId, secret |-> NoSecret, base |-> EmptyVault,
         prior |-> NoSecret, then |-> "done", was |-> FALSE]
servVars == <<db, vault, mgr, keeper, call, offers, mishaps, taken, removed, lost, stale>>
pastVars == <<taken, removed, lost>>

(* No library is also a plain server; the secrets that requests bring have *)
(* names of their own.                                                     *)
ASSUME ServersAssumption ==
  /\ Plain \cap Scoped = {} /\ Calls \cap {NoKeeper, NoSecret, Old} = {}
  /\ MaxRows \in Nat \ {0} /\ MaxMishaps \in Nat

(* What was configured before, loaded at startup; no provider is cached.   *)
ConfiguredServers(rows, chosen) ==
  /\ db = [rows |-> rows, chosen |-> chosen]
  /\ vault = [i \in Ids |-> IF i \in rows THEN Old ELSE NoSecret]
  /\ mgr = [rows |-> rows, chosen |-> chosen, providers |-> EmptyVault]
  /\ taken = rows
ServInit ==
  /\ \/ ConfiguredServers({}, {})
     \/ \E s \in Servers : ConfiguredServers(Servers \X {1}, {<<s, 1>>})
  /\ keeper = NoKeeper /\ call = [r \in Calls |-> NoCall]
  /\ offers = {"one", "two"} /\ mishaps = 0
  /\ removed = {} /\ lost = {} /\ stale = FALSE

(***************************************************************************)
(* Steps of a request.                                                     *)
(***************************************************************************)
CallAt(r, label) == call[r].at = label
Id(r) == call[r].id
CallTo(r, label) == call' = [call EXCEPT ![r].at = label]
Finish(r) == call' = [call EXCEPT ![r] = [NoCall EXCEPT !.at = "done"]]
Accept(r, kind, id, label) ==
  CallAt(r, "idle") /\ call' = [call EXCEPT ![r].kind = kind, ![r].id = id, ![r].at = label]
Mishap == mishaps < MaxMishaps /\ mishaps' = mishaps + 1
Unkept(r) == keeper \in {NoKeeper, r}
(* Whoever holds the manager lets it go at the end.                        *)
LetGo(r) == keeper' = IF keeper = r THEN NoKeeper ELSE keeper
Fail(r) == Finish(r) /\ LetGo(r)

(* save_server_credential and remove_server_credential: the write puts     *)
(* back all that was read.                                                 *)
Write(r, secret, then) ==
  call' = [call EXCEPT ![r].at = "load", ![r].secret = secret, ![r].then = then]
LoadVault(r) ==
  /\ CallAt(r, "load") /\ call' = [call EXCEPT ![r].at = "save", ![r].base = vault]
  /\ UNCHANGED <<db, vault, mgr, keeper, offers, mishaps, pastVars, stale>>
Written(r) == [call[r].base EXCEPT ![Id(r)] = call[r].secret]
(* A secret is written again that has changed, or for a server just gone,  *)
(* or it is taken back while a provider is built from it.                  *)
Outdated(r) ==
  \/ call[r].secret # NoSecret /\ Id(r) \in removed
  \/ /\ call[r].secret # NoSecret /\ vault[Id(r)] # call[r].secret
     /\ call[r].kind \in {"select", "remove"}
  \/ /\ call[r].then = "failed"
     /\ \E q \in Calls : CallAt(q, "enter") /\ Id(q) = Id(r) /\ call[q].secret # call[r].secret
SaveVault(r) ==
  /\ CallAt(r, "save") /\ vault' = Written(r)
  /\ lost' = lost \cup {i \in Ids \ {Id(r)} : vault[i] # Written(r)[i]}
                  \cup {i \in {Id(r)} : Outdated(r)}
  /\ call' = [call EXCEPT ![r].at = call[r].then, ![r].base = EmptyVault]
  /\ UNCHANGED <<db, mgr, keeper, offers, mishaps, taken, removed, stale>>
(* An eviction that fails is ignored, any other failure ends the request.  *)
(* Where it was to take back a secret, the new one stays.                  *)
SaveFails(r) ==
  /\ CallAt(r, "save") /\ Mishap
  /\ IF call[r].then = "evict"
     THEN /\ call' = [call EXCEPT ![r].at = "evict", ![r].base = EmptyVault]
          /\ UNCHANGED <<keeper, stale>>
     ELSE Fail(r) /\ stale' = (stale \/ call[r].kind \in {"connect", "select", "remove"})
  /\ lost' = IF call[r].then = "failed" THEN lost \cup {Id(r)} ELSE lost
  /\ UNCHANGED <<db, vault, mgr, offers, taken, removed>>

(***************************************************************************)
(* The database.                                                           *)
(***************************************************************************)
RowsOf(s) == {i \in db.rows : i[1] = s}
FreshId(s) == <<s, CHOOSE n \in 1 .. MaxRows : <<s, n>> \notin taken>>
HasFreshId(s) == \E n \in 1 .. MaxRows : <<s, n>> \notin taken
(* The first row ever, or the first after none was selected, is selected.  *)
Insert(i) ==
  [rows |-> db.rows \cup {i}, chosen |-> IF db.chosen = {} THEN {i} ELSE db.chosen]
(* Two statements: an unknown id leaves nothing selected.                  *)
SetSelected(i) == [db EXCEPT !.chosen = {i} \cap db.rows]

(* load_from_db, and what is cached besides.                               *)
Loaded(providers) == [rows |-> db.rows, chosen |-> db.chosen, providers |-> providers]

(***************************************************************************)
(* server.connect of a plain server: the row comes first, then the secret, *)
(* then the provider the request has logged in with.                       *)
(***************************************************************************)
ConnectServer(r, s) ==
  /\ CallAt(r, "idle")
  /\ LET known == RowsOf(s) # {}
         i == IF known THEN CHOOSE k \in RowsOf(s) : TRUE ELSE FreshId(s) IN
       /\ known \/ HasFreshId(s)
       /\ db' = IF known THEN db ELSE Insert(i)
       /\ taken' = taken \cup {i}
       /\ Accept(r, "connect", i, "portable")
  /\ UNCHANGED <<vault, mgr, keeper, offers, mishaps, removed, lost, stale>>
Portable(r) ==
  /\ CallAt(r, "portable")
  /\ IF Id(r) \in db.rows THEN Write(r, r, "publish") /\ UNCHANGED <<stale>>
     ELSE Finish(r) /\ stale' = TRUE
  /\ UNCHANGED <<db, vault, mgr, keeper, offers, mishaps, pastVars>>

(***************************************************************************)
(* server.audiobookshelf.commit: consumes the setup, holds the manager     *)
(* from the lookup to the publication, saves the secret before the row,    *)
(* and takes it back when the row cannot be written.                       *)
(***************************************************************************)
Commit(r, o, s) ==
  /\ o \in offers /\ offers' = offers \ {o} /\ Accept(r, "commit", <<s>>, "find")
  /\ UNCHANGED <<db, vault, mgr, keeper, mishaps, pastVars, stale>>
Cancel(o) ==
  /\ o \in offers /\ offers' = offers \ {o}
  /\ UNCHANGED <<db, vault, mgr, keeper, call, mishaps, pastVars, stale>>
Find(r) ==
  LET s == Id(r)[1] IN
  /\ CallAt(r, "find") /\ keeper = NoKeeper /\ keeper' = r
  /\ RowsOf(s) # {} \/ HasFreshId(s)
  /\ LET i == IF RowsOf(s) # {} THEN CHOOSE k \in RowsOf(s) : TRUE ELSE FreshId(s) IN
       taken' = taken \cup {i} /\ call' = [call EXCEPT ![r].at = "prior", ![r].id = i]
  /\ UNCHANGED <<db, vault, mgr, offers, mishaps, removed, lost, stale>>
Prior(r) ==
  /\ CallAt(r, "prior")
  /\ call' = [call EXCEPT ![r].prior = vault[Id(r)], ![r].at = "load", ![r].secret = r,
                          ![r].then = "upsert"]
  /\ UNCHANGED <<db, vault, mgr, keeper, offers, mishaps, pastVars, stale>>
Upsert(r) ==
  /\ CallAt(r, "upsert")
  /\ db' = IF RowsOf(Id(r)[1]) # {} THEN db ELSE Insert(Id(r))
  /\ CallTo(r, "publish")
  /\ UNCHANGED <<vault, mgr, keeper, offers, mishaps, pastVars, stale>>
(* Seeded bug: a commit that fails keeps the secret it has saved.          *)
CompensateNot(r) == CallTo(r, "failed")
Compensate(r) == Write(r, call[r].prior, "failed")
UpsertFails(r) ==
  /\ CallAt(r, "upsert") /\ Mishap /\ Compensate(r)
  /\ UNCHANGED <<db, vault, mgr, keeper, offers, pastVars, stale>>
Failed(r) ==
  /\ CallAt(r, "failed") /\ Fail(r)
  /\ UNCHANGED <<db, vault, mgr, offers, mishaps, pastVars, stale>>

(***************************************************************************)
(* server.reauthenticate: the library is asked with the new password, and  *)
(* the manager is held from before the save to the publication.            *)
(***************************************************************************)
Reauthenticate(r, i) ==
  /\ i \in db.rows /\ i[1] \in Scoped /\ Accept(r, "reauth", i, "lock")
  /\ UNCHANGED <<db, vault, mgr, keeper, offers, mishaps, pastVars, stale>>
Lock(r) ==
  /\ CallAt(r, "lock") /\ keeper = NoKeeper /\ keeper' = r /\ Write(r, r, "publish")
  /\ UNCHANGED <<db, vault, mgr, offers, mishaps, pastVars, stale>>

(* The provider is published; all but a new password load the rows again.  *)
PublishProvider(r) ==
  /\ CallAt(r, "publish") /\ Unkept(r)
  /\ LET providers == [mgr.providers EXCEPT ![Id(r)] = r] IN
       IF call[r].kind = "reauth"
       THEN mgr' = [mgr EXCEPT !.providers = providers] /\ UNCHANGED stale
       ELSE mgr' = Loaded(providers) /\ stale' = FALSE
  /\ Finish(r) /\ LetGo(r)
  /\ UNCHANGED <<db, vault, offers, mishaps, pastVars>>

(***************************************************************************)
(* get_provider: a cached provider, or one built outside the lock and      *)
(* entered unless another has come first.                                  *)
(***************************************************************************)
Use(r, i) ==
  /\ i \in db.rows /\ Accept(r, "use", i, "look")
  /\ UNCHANGED <<db, vault, mgr, keeper, offers, mishaps, pastVars, stale>>
LookUp(r) ==
  /\ CallAt(r, "look") /\ Unkept(r)
  /\ IF mgr.providers[Id(r)] # NoSecret \/ Id(r) \notin mgr.rows \cup db.rows
     THEN Finish(r) ELSE CallTo(r, "build")
  /\ UNCHANGED <<db, vault, mgr, keeper, offers, mishaps, pastVars, stale>>
Build(r) ==
  /\ CallAt(r, "build")
  /\ IF vault[Id(r)] = NoSecret THEN Finish(r)
     ELSE call' = [call EXCEPT ![r].at = "enter", ![r].secret = vault[Id(r)]]
  /\ UNCHANGED <<db, vault, mgr, keeper, offers, mishaps, pastVars, stale>>
(* The server may refuse or not answer.                                    *)
BuildFails(r) ==
  /\ CallAt(r, "enter") /\ Finish(r)
  /\ UNCHANGED <<db, vault, mgr, keeper, offers, mishaps, pastVars, stale>>
Entered(providers, i, secret) ==
  IF providers[i] # NoSecret THEN providers ELSE [providers EXCEPT ![i] = secret]
Enter(r) ==
  /\ CallAt(r, "enter") /\ Unkept(r) /\ Finish(r)
  /\ mgr' = [mgr EXCEPT !.providers = Entered(@, Id(r), call[r].secret)]
  /\ UNCHANGED <<db, vault, keeper, offers, mishaps, pastVars, stale>>

(***************************************************************************)
(* server.select, and server.remove, which selects another when what it    *)
(* removed was selected.  Both write the secret of a plain server again.   *)
(***************************************************************************)
SelectServer(r, i) ==
  /\ i \in mgr.rows /\ CallAt(r, "idle") /\ db' = SetSelected(i)
  /\ IF i \in db.rows THEN Accept(r, "select", i, "sync") /\ UNCHANGED stale
     ELSE Finish(r) /\ stale' = TRUE
  /\ UNCHANGED <<vault, mgr, keeper, offers, mishaps, pastVars>>
Sync(r) ==
  /\ CallAt(r, "sync")
  /\ IF Id(r) \in db.rows /\ Id(r)[1] \in Plain /\ vault[Id(r)] # NoSecret
     THEN Write(r, vault[Id(r)], "reload") ELSE CallTo(r, "reload")
  /\ UNCHANGED <<db, vault, mgr, keeper, offers, mishaps, pastVars, stale>>
Reload(r) ==
  /\ CallAt(r, "reload") /\ Unkept(r) /\ mgr' = Loaded(mgr.providers) /\ stale' = FALSE
  /\ IF call[r].kind = "select" THEN CallTo(r, "look") ELSE Finish(r)
  /\ UNCHANGED <<db, vault, keeper, offers, mishaps, pastVars>>

Remove(r, i) ==
  /\ i \in db.rows
  /\ CallAt(r, "idle")
  /\ call' = [call EXCEPT ![r].kind = "remove", ![r].id = i, ![r].at = "delete",
                          ![r].was = i \in db.chosen]
  /\ UNCHANGED <<db, vault, mgr, keeper, offers, mishaps, pastVars, stale>>
Delete(r) ==
  /\ CallAt(r, "delete")
  /\ IF Id(r) \in db.rows
     THEN /\ db' = [rows |-> db.rows \ {Id(r)}, chosen |-> db.chosen \ {Id(r)}]
          /\ removed' = removed \cup {Id(r)} /\ Write(r, NoSecret, "evict")
     ELSE Finish(r) /\ UNCHANGED <<db, removed>>
  /\ UNCHANGED <<vault, mgr, keeper, offers, mishaps, taken, lost, stale>>
Evict(r) ==
  /\ CallAt(r, "evict") /\ Unkept(r) /\ mgr' = [mgr EXCEPT !.providers[Id(r)] = NoSecret]
  /\ CallTo(r, IF call[r].was THEN "next" ELSE "reload")
  /\ UNCHANGED <<db, vault, keeper, offers, mishaps, pastVars, stale>>
(* The oldest of what remains; an id that is gone by then is an error.     *)
NextInLine(r) ==
  /\ CallAt(r, "next")
  /\ IF db.rows = {} THEN CallTo(r, "reload")
     ELSE \E i \in db.rows : call' = [call EXCEPT ![r].id = i, ![r].at = "reselect"]
  /\ UNCHANGED <<db, vault, mgr, keeper, offers, mishaps, pastVars, stale>>
Reselect(r) ==
  /\ CallAt(r, "reselect") /\ db' = SetSelected(Id(r))
  /\ IF Id(r) \in db.rows THEN CallTo(r, "sync") /\ UNCHANGED stale ELSE Finish(r) /\ stale' = TRUE
  /\ UNCHANGED <<vault, mgr, keeper, offers, mishaps, pastVars>>

(* server.update: the row is there, its name changes, the rows are loaded. *)
Update(r, i) ==
  /\ i \in db.rows /\ Accept(r, "update", i, "reload")
  /\ UNCHANGED <<db, vault, mgr, keeper, offers, mishaps, pastVars, stale>>

(***************************************************************************)
(* server.logout: the manager is reset before the rows are deleted, so     *)
(* that a provider built before the last change of its secret, which       *)
(* another one had kept out, can be entered again.                         *)
(***************************************************************************)
Logout(r) ==
  /\ Unkept(r) /\ Accept(r, "logout", NoId, "clear") /\ offers' = {}
  /\ mgr' = [rows |-> {}, chosen |-> {}, providers |-> EmptyVault]
  /\ lost' = lost \cup {Id(q) : q \in {p \in Calls : CallAt(p, "enter")
                                                  /\ call[p].secret # vault[Id(p)]}}
  /\ UNCHANGED <<db, vault, keeper, mishaps, taken, removed, stale>>
ClearRows(r) ==
  /\ CallAt(r, "clear") /\ db' = [rows |-> {}, chosen |-> {}] /\ removed' = removed \cup db.rows
  /\ stale' = (mgr.rows # {}) /\ CallTo(r, "wipe")
  /\ UNCHANGED <<vault, mgr, keeper, offers, mishaps, taken, lost>>
ClearVault(r) ==
  /\ CallAt(r, "wipe") /\ vault' = EmptyVault /\ Finish(r)
  /\ lost' = lost \cup {i \in Ids \ removed : vault[i] # NoSecret}
  /\ UNCHANGED <<db, mgr, keeper, offers, mishaps, taken, removed, stale>>
(* The rows or the vault cannot be deleted.                                *)
ClearFails(r) ==
  /\ call[r].at \in {"clear", "wipe"} /\ Mishap /\ Finish(r)
  /\ stale' = (stale \/ CallAt(r, "clear"))
  /\ UNCHANGED <<db, vault, mgr, keeper, offers, pastVars>>

(* The daemon dies and starts again: what is stored is loaded.             *)
Restart ==
  /\ Mishap /\ keeper' = NoKeeper /\ offers' = {} /\ mgr' = Loaded(EmptyVault) /\ stale' = FALSE
  /\ call' = [r \in Calls |-> IF CallAt(r, "idle") THEN NoCall ELSE [NoCall EXCEPT !.at = "done"]]
  /\ UNCHANGED <<db, vault, pastVars>>

Start(r) ==
  \/ \E s \in Plain : ConnectServer(r, s)
  \/ \E o \in offers, s \in Scoped : Commit(r, o, s)
  \/ \E i \in Ids :
       Reauthenticate(r, i) \/ Use(r, i) \/ SelectServer(r, i) \/ Remove(r, i) \/ Update(r, i)
  \/ Logout(r)
Step(r) ==
  \/ LoadVault(r) \/ SaveVault(r) \/ SaveFails(r) \/ Portable(r)
  \/ Find(r) \/ Prior(r) \/ Upsert(r) \/ UpsertFails(r) \/ Failed(r) \/ Lock(r)
  \/ PublishProvider(r)
  \/ LookUp(r) \/ Build(r) \/ BuildFails(r) \/ Enter(r)
  \/ Sync(r) \/ Reload(r) \/ Delete(r) \/ Evict(r) \/ NextInLine(r) \/ Reselect(r)
  \/ ClearRows(r) \/ ClearVault(r) \/ ClearFails(r)
ServNext == (\E r \in Calls : Start(r) \/ Step(r)) \/ (\E o \in offers : Cancel(o)) \/ Restart
ServSpec == ServInit /\ [][ServNext]_servVars

-----------------------------------------------------------------------------
Secrets == Calls \cup {NoSecret, Old}
ServTypeOK ==
  /\ db \in [rows : SUBSET Ids, chosen : SUBSET Ids]
  /\ vault \in [Ids -> Secrets]
  /\ mgr \in [rows : SUBSET Ids, chosen : SUBSET Ids, providers : [Ids -> Secrets]]
  /\ keeper \in Calls \cup {NoKeeper}
  /\ removed \in SUBSET taken /\ taken \in SUBSET Ids /\ lost \in SUBSET Ids
  /\ stale \in BOOLEAN /\ mishaps \in 0 .. MaxMishaps

(* A library has one row, at most one row is selected, and it exists       *)
(* (upsert_server, set_selected).                                          *)
RowsStand ==
  /\ \A s \in Servers : Cardinality(RowsOf(s)) <= 1
  /\ db.chosen \subseteq db.rows /\ Cardinality(db.chosen) <= 1

Standing == {i \in db.rows \ (removed \cup lost) : i[1] \in Scoped}
(* While nobody holds the manager, the cached provider of a library was    *)
(* built from the secret that is stored, whoever built it and when, and    *)
(* whatever failed in between, but for the known windows (lost).           *)
CachedIsStored ==
  keeper = NoKeeper => \A i \in Standing : mgr.providers[i] \in {NoSecret, vault[i]}

(* A library that is configured has its secret, at every moment at which   *)
(* the daemon may die.                                                     *)
RowsHaveSecrets == \A i \in Standing : vault[i] # NoSecret

Quiet == \A r \in Calls : call[r].at \in {"idle", "done"}
(* Between requests the manager shows the rows and the selection of the    *)
(* database, unless the last change ended in an error or a logout was      *)
(* overtaken.                                                              *)
ManagerAgrees ==
  Quiet /\ ~stale => mgr.rows = db.rows /\ mgr.chosen = db.chosen

(* What was removed leaves no secret behind, unless the eviction failed or *)
(* another write of the vault was under way.                               *)
NothingLeftBehind ==
  Quiet /\ mishaps = 0 => \A i \in removed \ lost : vault[i] = NoSecret

(* All of this together.                                                   *)
ServersSafe ==
  /\ ServTypeOK /\ RowsStand /\ CachedIsStored /\ RowsHaveSecrets /\ ManagerAgrees
  /\ NothingLeftBehind
=============================================================================
