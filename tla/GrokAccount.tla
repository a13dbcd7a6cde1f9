---------------------------- MODULE GrokAccount ----------------------------
(***************************************************************************)
(* The OAuth session of one Grok account: internal/upstream/grok.go,       *)
(* GrokAccount and the parts of GrokAccountManager that add, remove, pick, *)
(* refresh and re-enable it, with its hash in Redis (internal/db).         *)
(*                                                                         *)
(* A refresh spends the refresh token and may bring a new one, so two      *)
(* refreshes must not use the same.  Refresh collapses concurrent calls by *)
(* email (refreshSF, singleflight): the first caller leads, the others     *)
(* wait and share its result.  The lock of the account is not held during  *)
(* the call.  As in CodeBuddyKey, a change, its snapshot (toDTO) and its   *)
(* write to Redis are three steps, and goroutines keep the object they     *)
(* picked when the account is deleted and imported again.  A command to    *)
(* Redis that fails or times out is logged and the call goes on: it was    *)
(* done or not, and nobody asks.                                           *)
(*                                                                         *)
(* Refresh tokens are numbered in the order the server (external) issued   *)
(* them; live are those it still accepts.  A permanent disable is told     *)
(* apart by its cause, "revoked" (invalid_grant) or "banned", which the    *)
(* code does not record.  Time is left out: the access token may be in the *)
(* window in which it is refreshed whenever a goroutine looks.             *)
(***************************************************************************)
EXTENDS Naturals, FiniteSets

CONSTANTS
  GrokHandlers,    \* request goroutines
  GrokActors,      \* the other goroutines of this instance
  AccountObjs,     \* GrokAccount objects
  NoAccount,       \* no object, no goroutine
  MaxGrokBusy,     \* bound: goroutines at work on the account at a time
  MaxIssued        \* bound: refresh tokens the server issues

PreWarmer == "AutoRefreshWorker"
GrokReenabler == "ReenableWorker"
AsyncRefresh == "go bestAcc.Refresh"
GrokAdmin == "admin"
GrokProcs == GrokHandlers \cup GrokActors

ASSUME GrokAssumption ==
  /\ IsFiniteSet(GrokHandlers) /\ IsFiniteSet(AccountObjs)
  /\ GrokActors \subseteq {PreWarmer, GrokReenabler, AsyncRefresh, GrokAdmin}
  /\ NoAccount \notin AccountObjs \cup GrokProcs
  /\ MaxGrokBusy \in Nat /\ MaxIssued \in Nat

AccountStatus == {"enabled", "cooldown", "banned", "revoked"}
AccountDTO == [status : AccountStatus, rt : Nat]
NoHash == [status |-> "absent", rt |-> 0]
NewAccount(t) == [status |-> "enabled", rt |-> t]

VARIABLES
  acct,       \* the GrokAccount objects
  listed,     \* the object in GrokAccountManager.accounts, or NoAccount
  hash,       \* grok:account:<email> in Redis, or NoHash
  gp,         \* each goroutine: what it does next, its object, token and snapshot
  flight,     \* the leader of the refresh in progress, or NoAccount
  issued,     \* server: refresh tokens issued
  live,       \* server: refresh tokens it accepts
  lost,       \* history: the server took the session back, an answer of the server
              \* or a saved token was lost, an import crossed a refresh, or a refresh
              \* joined that of a deleted object of the same email
  stale       \* history: the last command about the hash wrote a snapshot older than
              \* the last change of the account, or failed

grokVars == <<acct, listed, hash, gp, flight, issued, live, lost, stale>>

IdleProc == [pc |-> "idle", obj |-> NoAccount, tok |-> 0, res |-> "none", dto |-> NoHash,
             fresh |-> TRUE, then |-> "idle"]

GrokInit ==
  \E o \in AccountObjs :
    /\ o = CHOOSE x \in AccountObjs : TRUE
    /\ acct = [x \in AccountObjs |-> NewAccount(1)]
    /\ listed = o
    /\ hash = NewAccount(1)
    /\ gp = [p \in GrokProcs |-> IdleProc]
    /\ flight = NoAccount
    /\ issued = 1 /\ live = {1}
    /\ lost = FALSE /\ stale = FALSE

-----------------------------------------------------------------------------
(* Steps shared by the goroutines                                          *)

Busy == {p \in GrokProcs : gp[p].pc # "idle"}
MayStart(p) == gp[p].pc = "idle" /\ Cardinality(Busy \cup {p}) <= MaxGrokBusy
At(p, pc) == gp[p].pc = pc
Go(p, pc) == gp' = [gp EXCEPT ![p].pc = pc]
\* An object is garbage once it is not listed and no goroutine has it.
Collected(l, procs) ==
  [o \in AccountObjs |-> IF o = l \/ \E p \in GrokProcs : procs[p].obj = o
                         THEN acct[o] ELSE NewAccount(1)]
GoIdle(p) ==
  /\ gp' = [gp EXCEPT ![p] = IdleProc]
  /\ acct' = Collected(listed, gp')

\* The new value of object o, in the critical section of its lock; goroutine
\* p goes on with the snapshot.  Snapshots taken before are not fresh any more.
Change(p, o, new, then) ==
  /\ acct' = [acct EXCEPT ![o] = new]
  /\ gp' = [q \in GrokProcs |->
              IF q = p THEN [gp[p] EXCEPT !.pc = "toDTO", !.obj = o, !.tok = 0, !.res = "none", !.then = then]
              ELSE IF At(q, "save") /\ gp[q].obj = o THEN [gp[q] EXCEPT !.fresh = FALSE]
              ELSE gp[q]]

toDTO(p) ==
  /\ At(p, "toDTO")
  /\ gp' = [gp EXCEPT ![p].dto = acct[gp[p].obj], ![p].pc = "save", ![p].fresh = TRUE]
  /\ UNCHANGED <<acct, listed, hash, flight, issued, live, lost, stale>>

\* The result of the refresh goes to its leader and to all who wait for it.
Release(leader, res) ==
  /\ flight' = NoAccount
  /\ gp' = [q \in GrokProcs |->
              IF q = leader \/ At(q, "wait")
              THEN [IdleProc EXCEPT !.pc = "refreshed", !.obj = gp[q].obj, !.res = res]
              ELSE gp[q]]

AfterSave(p) ==
  IF gp[p].then = "release" THEN Release(p, "ok") /\ UNCHANGED acct
  ELSE GoIdle(p) /\ UNCHANGED flight

saveGrokAccount(p) ==
  /\ At(p, "save")
  /\ hash' = gp[p].dto
  /\ stale' = (~gp[p].fresh \/ gp[p].obj # listed)
  /\ AfterSave(p)
  /\ UNCHANGED <<listed, issued, live, lost>>

\* HSet fails: the change stays in memory only.
SaveGrokAccountFails(p) ==
  /\ At(p, "save")
  /\ stale' = TRUE
  /\ AfterSave(p)
  /\ UNCHANGED <<listed, hash, issued, live, lost>>

-----------------------------------------------------------------------------
(* Refresh                                                                 *)

\* refreshSF.Do: lead, reading the refresh token, or wait for the leader.
Refresh(p) ==
  /\ At(p, "refresh")
  /\ IF flight = NoAccount
     THEN /\ flight' = p
          /\ gp' = [gp EXCEPT ![p].pc = "call", ![p].tok = acct[gp[p].obj].rt]
     ELSE Go(p, "wait") /\ UNCHANGED flight
  /\ lost' = (lost \/ (flight # NoAccount /\ gp[flight].obj # gp[p].obj))
  /\ UNCHANGED <<acct, listed, hash, issued, live, stale>>

\* The server accepts the token and either keeps it or replaces it.
TokenCallAnswered(p) ==
  /\ At(p, "call") /\ gp[p].tok \in live
  /\ \/ gp' = [gp EXCEPT ![p].pc = "apply"] /\ UNCHANGED <<issued, live>>
     \/ /\ issued < MaxIssued
        /\ issued' = issued + 1
        /\ live' = (live \ {gp[p].tok}) \cup {issued + 1}
        /\ gp' = [gp EXCEPT ![p].pc = "apply", ![p].tok = issued + 1]
  /\ UNCHANGED <<acct, listed, hash, flight, lost, stale>>

\* It replaces the token, and the answer does not arrive.
TokenAnswerLost(p) ==
  /\ At(p, "call") /\ gp[p].tok \in live
  /\ issued < MaxIssued
  /\ issued' = issued + 1
  /\ live' = (live \ {gp[p].tok}) \cup {issued + 1}
  /\ lost' = TRUE
  /\ Release(p, "error")
  /\ UNCHANGED <<acct, listed, hash, stale>>

TokenCallFails(p) ==
  /\ At(p, "call")
  /\ Release(p, IF gp[p].tok \in live THEN "error" ELSE "invalid_grant")
  /\ UNCHANGED <<acct, listed, hash, issued, live, lost, stale>>

\* Mutant of refreshLocked: the old refresh token is kept.
refreshLocked_KeepsToken(p) ==
  /\ At(p, "apply")
  /\ Change(p, gp[p].obj, acct[gp[p].obj], "release")
  /\ UNCHANGED <<listed, hash, flight, issued, live, lost, stale>>

refreshLocked(p) ==
  /\ At(p, "apply")
  /\ Change(p, gp[p].obj, [acct[gp[p].obj] EXCEPT !.rt = gp[p].tok], "release")
  /\ UNCHANGED <<listed, hash, flight, issued, live, lost, stale>>

\* Mutant of RevokedBy: any error disables.
RevokedBy_AnyError(p) == gp[p].res # "ok" /\ p \in GrokHandlers \cup {PreWarmer}

\* AsyncRefresh and HandleRefresh only log.
RevokedBy(p) == gp[p].res = "invalid_grant" /\ p \in GrokHandlers \cup {PreWarmer}

\* What the caller does with the result.
Refreshed(p) ==
  /\ At(p, "refreshed")
  /\ IF RevokedBy(p)
     THEN Change(p, gp[p].obj, [acct[gp[p].obj] EXCEPT !.status = "revoked"], "idle")
     ELSE IF gp[p].res = "ok" /\ p \in GrokHandlers
          THEN gp' = [gp EXCEPT ![p].pc = "retry", ![p].res = "none"] /\ UNCHANGED acct
          ELSE GoIdle(p)
  /\ UNCHANGED <<listed, hash, flight, issued, live, lost, stale>>

-----------------------------------------------------------------------------
(* Requests: ProxyGrok                                                     *)

\* Next: an account that is not disabled; one whose token is about to expire
\* is refreshed beside the request.
NextAccount(p) ==
  /\ p \in GrokHandlers /\ MayStart(p)
  /\ listed # NoAccount /\ acct[listed].status = "enabled"
  /\ \E expiring \in BOOLEAN :
       /\ expiring => /\ AsyncRefresh \in GrokActors /\ At(AsyncRefresh, "idle")
                      /\ Cardinality(Busy) + 2 <= MaxGrokBusy
       /\ gp' = [q \in GrokProcs |->
                IF q = p THEN [IdleProc EXCEPT !.pc = "attempt", !.obj = listed]
                ELSE IF q = AsyncRefresh /\ expiring
                     THEN [IdleProc EXCEPT !.pc = "refresh", !.obj = listed]
                ELSE gp[q]]
  /\ UNCHANGED <<acct, listed, hash, flight, issued, live, lost, stale>>

\* Answered, or an error that says nothing about the account.
AttemptEnds(p) ==
  /\ At(p, "attempt") \/ At(p, "retry")
  /\ GoIdle(p)
  /\ UNCHANGED <<listed, hash, flight, issued, live, lost, stale>>

Unauthorized(p) ==
  /\ At(p, "attempt")
  /\ Go(p, "refresh")
  /\ UNCHANGED <<acct, listed, hash, flight, issued, live, lost, stale>>

\* 402, 403, and a second 401 after a refresh.
AttemptRefused(p) ==
  /\ At(p, "attempt") \/ At(p, "retry")
  /\ \E status \in {"banned", "cooldown"} :
       Change(p, gp[p].obj, [acct[gp[p].obj] EXCEPT !.status = status], "idle")
  /\ UNCHANGED <<listed, hash, flight, issued, live, lost, stale>>

-----------------------------------------------------------------------------
(* Workers and operator                                                    *)

AutoRefreshWorker(p) ==
  /\ p = PreWarmer /\ MayStart(p)
  /\ listed # NoAccount
  /\ acct[listed].status \in {"enabled", "cooldown"}
  /\ gp' = [gp EXCEPT ![p] = [IdleProc EXCEPT !.pc = "refresh", !.obj = listed]]
  /\ UNCHANGED <<acct, listed, hash, flight, issued, live, lost, stale>>

\* Mutant of ReenableGrok: not saved.
ReenableGrok_Unsaved(p) ==
  /\ p = GrokReenabler /\ MayStart(p)
  /\ listed # NoAccount /\ acct[listed].status = "cooldown"
  /\ acct' = [acct EXCEPT ![listed].status = "enabled"]
  /\ UNCHANGED <<listed, hash, gp, flight, issued, live, lost, stale>>

ReenableGrok(p) ==
  /\ p = GrokReenabler /\ MayStart(p)
  /\ listed # NoAccount /\ acct[listed].status = "cooldown"
  /\ Change(p, listed, [acct[listed] EXCEPT !.status = "enabled"], "idle")
  /\ UNCHANGED <<listed, hash, flight, issued, live, lost, stale>>

\* HandleRefresh: on every account, disabled or not.
HandleRefresh(p) ==
  /\ p = GrokAdmin /\ MayStart(p)
  /\ listed # NoAccount
  /\ gp' = [gp EXCEPT ![p] = [IdleProc EXCEPT !.pc = "refresh", !.obj = listed]]
  /\ UNCHANGED <<acct, listed, hash, flight, issued, live, lost, stale>>

Unheld == {o \in AccountObjs \ {listed} : \A p \in GrokProcs : gp[p].obj # o}
VerdictPending == flight # NoAccount \/ \E p \in GrokProcs : At(p, "refreshed") \/ At(p, "refresh")

\* The operator logged in anew: the server issued a token of a new session.
UpsertAccount(p) ==
  /\ p = GrokAdmin /\ MayStart(p)
  /\ issued < MaxIssued
  /\ issued' = issued + 1
  /\ live' = live \cup {issued + 1}
  /\ \E o \in IF listed = NoAccount THEN Unheld ELSE {listed} :
       listed' = o /\ Change(p, o, NewAccount(issued + 1), "idle")
  /\ lost' = VerdictPending
  /\ UNCHANGED <<hash, flight, stale>>

\* DEL may fail: the hash stays, and a restart brings the account back.
DeleteAccount(p) ==
  /\ p = GrokAdmin /\ MayStart(p)
  /\ listed # NoAccount
  /\ listed' = NoAccount
  /\ hash' \in {NoHash, hash}
  /\ stale' = (hash' # NoHash)
  /\ acct' = Collected(NoAccount, gp)
  /\ UNCHANGED <<gp, flight, issued, live, lost>>

\* A bulk import upserts one account after the other.
HandleImportAccount(p) == UpsertAccount(p)
HandleImportAccountBulk(p) == HandleImportAccount(p)
HandleDeleteAccount(p) == DeleteAccount(p)

\* Removes an account that is disabled for good as DeleteAccount does; both
\* cleanups have the same predicate.
cleanupBy(p) ==
  /\ listed # NoAccount /\ acct[listed].status \in {"banned", "revoked"}
  /\ DeleteAccount(p)

CleanupDisabled(p) == cleanupBy(p)
CleanupBanned(p) == cleanupBy(p)
HandleCleanupBanned(p) == CleanupBanned(p)

-----------------------------------------------------------------------------
(* Environment                                                             *)

SessionRevoked ==
  /\ live # {}
  /\ live' = {}
  /\ lost' = TRUE
  /\ UNCHANGED <<acct, listed, hash, gp, flight, issued, stale>>

\* An account whose HGETALL is not answered is skipped; without a SCAN there
\* is none.
LoadGrokAccounts(answered) ==
  IF hash = NoHash \/ ~answered THEN NoAccount ELSE CHOOSE o \in AccountObjs : TRUE

\* The process stops, and a new one runs LoadFromRedis.
GrokRestart ==
  /\ gp' = [p \in GrokProcs |-> IdleProc]
  /\ flight' = NoAccount
  /\ \E answered \in BOOLEAN :
       /\ listed' = LoadGrokAccounts(answered)
       /\ stale' = (hash # NoHash /\ ~answered)
  /\ acct' = [o \in AccountObjs |-> IF o = listed' THEN hash ELSE NewAccount(1)]
  /\ lost' = (lost \/ (hash # NoHash /\ (hash.rt \notin live \/ hash.status = "revoked")))
  /\ UNCHANGED <<hash, issued, live>>

GrokStep(p) ==
  \/ toDTO(p) \/ saveGrokAccount(p) \/ SaveGrokAccountFails(p)
  \/ Refresh(p) \/ TokenCallAnswered(p) \/ TokenAnswerLost(p) \/ TokenCallFails(p)
  \/ refreshLocked(p) \/ Refreshed(p)
  \/ NextAccount(p) \/ AttemptEnds(p) \/ Unauthorized(p) \/ AttemptRefused(p)
  \/ AutoRefreshWorker(p) \/ ReenableGrok(p)
  \/ HandleRefresh(p) \/ HandleImportAccount(p) \/ HandleImportAccountBulk(p)
  \/ HandleDeleteAccount(p) \/ CleanupDisabled(p) \/ HandleCleanupBanned(p)

GrokNext ==
  \/ \E p \in GrokProcs : GrokStep(p)
  \/ SessionRevoked \/ GrokRestart

GrokSpec == GrokInit /\ [][GrokNext]_grokVars

-----------------------------------------------------------------------------
(* Properties                                                              *)

GrokTypeOK ==
  /\ acct \in [AccountObjs -> AccountDTO]
  /\ listed \in AccountObjs \cup {NoAccount}
  /\ hash \in AccountDTO \cup {NoHash}
  /\ flight \in GrokProcs \cup {NoAccount}
  /\ live \subseteq 1 .. issued
  /\ issued \in 1 .. MaxIssued

\* While no refresh is in progress, the refresh token in memory is one the
\* server accepts: no refresh spends a token that another one has in hand,
\* and each new token is taken over.  Only the server, a lost answer, an
\* import that crosses a refresh, or a restart with an old hash loses it.
LiveTokenKept ==
  (listed # NoAccount /\ flight = NoAccount /\ ~lost) => acct[listed].rt \in live

\* An account is disabled for invalid_grant only if its refresh token is dead
\* ("refresh_token itself was revoked", ProxyGrok), unless it was imported
\* anew while the verdict on the old token was on its way.
RevokedOnlyIfDead ==
  (listed # NoAccount /\ acct[listed].status = "revoked") =>
    (acct[listed].rt \notin live \/ lost)

\* Redis has what memory has, an account or none, when nobody has a change
\* of it to save: the write of an older snapshot or of another object, and a
\* write, a DEL or a load that failed, are what makes them differ, and only
\* until the next change is saved or the next load.
GrokPersisted ==
  (~stale /\ \A p \in GrokProcs : gp[p].pc \notin {"toDTO", "save"}) =>
    hash = IF listed = NoAccount THEN NoHash ELSE acct[listed]
=============================================================================
