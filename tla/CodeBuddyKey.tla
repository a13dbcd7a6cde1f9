--------------------------- MODULE CodeBuddyKey ---------------------------
(***************************************************************************)
(* The life of one CodeBuddy credential: internal/upstream/codebuddy.go,   *)
(* CBKey and the parts of CBKeyManager that add, remove and re-enable it,  *)
(* with the Redis hash that persists it (internal/db, SaveCBKey).          *)
(*                                                                         *)
(* Each critical section of CBKey.mu is one step.  A method that changes   *)
(* the key unlocks, snapshots it again (toDTO) and writes the snapshot to  *)
(* Redis (saveCBKey): three steps of one goroutine, between which the      *)
(* other goroutines run.  Goroutines keep a pointer to the CBKey they      *)
(* picked, so a key that was deleted and added again is a new object while *)
(* the old one is still in use: Objs are the objects, cur is the one in    *)
(* CBKeyManager.keys.                                                      *)
(*                                                                         *)
(* disabled and disabledAt are one field, status: a disable with the zero  *)
(* time is "permanent", with a time "cooldown".  How long a cooldown lasts *)
(* is left open.  Credits are counted in units of one answer, limit is     *)
(* the meter's capacity, and billed is what the upstream has charged; an   *)
(* answer carries one usage chunk.  A snapshot that waits for its refresh  *)
(* call to return and one that waits for the lock are not told apart.      *)
(***************************************************************************)
EXTENDS Naturals, FiniteSets

CONSTANTS
  Handlers,      \* request goroutines
  Actors,        \* the other goroutines of this instance
  Objs,          \* CBKey objects (allocated and collected)
  NoObj,         \* no object: the credential is not in the pool
  Limit,         \* CreditLimit()
  RedisFails,    \* may a write to Redis time out in this instance
  MaxBusy,       \* bound: goroutines at work on the key at a time
  MaxBilled,     \* bound: answers the upstream charges for
  MaxCrashes     \* bound: restarts of the gateway

Reenabler == "ReenableCBWorker"
Syncer == "CBCreditSyncWorker"
Refresher == "CBOAuthRefreshWorker"
Admin == "admin"
Procs == Handlers \cup Actors

ASSUME KeyAssumption ==
  /\ IsFiniteSet(Handlers) /\ IsFiniteSet(Objs)
  /\ Actors \subseteq {Reenabler, Syncer, Refresher, Admin}
  /\ NoObj \notin Objs
  /\ RedisFails \in BOOLEAN
  /\ Limit \in Nat \ {0}
  /\ MaxBusy \in Nat /\ MaxBilled \in Nat /\ MaxCrashes \in Nat

(* A key is its status ("enabled", "cooldown" or "permanent") and the      *)
(* credits it used.                                                        *)
Absent == [status |-> "absent", used |-> 0]
Fresh == [status |-> "enabled", used |-> 0]

VARIABLES
  cred,      \* CredType of the credential
  mem,       \* the CBKey objects
  cur,       \* the object in CBKeyManager.keys, or NoObj
  redis,     \* the hash cb:key:<key>, or Absent
  pc,        \* what each goroutine does next
  obj,       \* the object it works on
  dto,       \* the snapshot it is about to write
  then,      \* where it goes on after writing
  meter,     \* the usage the running credit sync was told
  billed,    \* environment: credits the upstream has charged
  crashes,   \* restarts so far
  doomed,    \* history: permanently disabled since the operator added it
  alone,     \* history: whose save no other save has overlapped yet
  raced      \* history: the last write was overlapped, lost or not of cur,
             \* or the last start could not read the hash

key == <<mem, cur, redis>>
proc == <<pc, obj, dto, then>>
saves == <<alone, raced>>
hist == <<doomed, saves>>
vars == <<cred, key, proc, meter, billed, crashes, hist>>

(* A fresh deployment, or one that loaded this credential from Redis. *)
Init ==
  /\ cred \in {"api_key", "oauth"}
  /\ mem = [o \in Objs |-> Fresh]
  /\ \/ cur = NoObj /\ redis = Absent
     \/ cur \in Objs /\ redis = Fresh
  /\ pc = [p \in Procs |-> "idle"]
  /\ obj = [p \in Procs |-> NoObj]
  /\ dto = [p \in Procs |-> Fresh]
  /\ then = [p \in Procs |-> "idle"]
  /\ meter = 0 /\ billed = 0 /\ crashes = 0
  /\ doomed = FALSE /\ alone = {} /\ raced = FALSE

-----------------------------------------------------------------------------
(* A goroutine that may turn to the key. *)
Free(p) ==
  /\ pc[p] = "idle"
  /\ Cardinality({q \in Procs : pc[q] # "idle"}) < MaxBusy

Saving(p) == pc[p] \in {"toDTO", "save", "delete"}
OthersSaving(p) == \E q \in Procs \ {p} : Saving(q)

Goto(p, l) == pc' = [pc EXCEPT ![p] = l]

(* Drop the object: a goroutine that is done keeps no pointer. *)
Done(p) ==
  /\ Goto(p, "idle")
  /\ obj' = [obj EXCEPT ![p] = NoObj]
  /\ UNCHANGED <<dto, then>>

(* A save begins: it is alone until another one is under way beside it. *)
BeginSave(p) ==
  /\ alone' = IF OthersSaving(p) THEN {} ELSE {p}
  /\ UNCHANGED raced

(* After changing the key: snapshot and save it, then go on at l. *)
Persist(p, l) ==
  /\ Goto(p, "toDTO")
  /\ then' = [then EXCEPT ![p] = l]
  /\ BeginSave(p)
  /\ UNCHANGED dto

SetStatus(p, s) ==
  /\ mem' = [mem EXCEPT ![obj[p]].status = s]
  /\ doomed' = (doomed \/ (s = "permanent" /\ obj[p] = cur))

(* The DTO is built under the key's lock. *)
toDTO(p) ==
  /\ pc[p] = "toDTO"
  /\ dto' = [dto EXCEPT ![p] = mem[obj[p]]]
  /\ Goto(p, "save")
  /\ UNCHANGED <<cred, key, obj, then, meter, billed, crashes, hist>>

AfterSave(p) ==
  /\ Goto(p, then[p])
  /\ obj' = [obj EXCEPT ![p] = IF then[p] = "idle" THEN NoObj ELSE @]
  /\ UNCHANGED <<dto, then>>

(* HSet of the snapshot, best effort: a timeout is logged and ignored. *)
saveCBKey(p) ==
  /\ pc[p] = "save"
  /\ \/ redis' = dto[p] /\ raced' = (p \notin alone \/ obj[p] # cur)
     \/ RedisFails /\ UNCHANGED redis /\ raced' = TRUE
  /\ alone' = {}
  /\ AfterSave(p)
  /\ UNCHANGED <<cred, mem, cur, meter, billed, crashes, doomed>>

-----------------------------------------------------------------------------
(* Handlers: ProxyCodeBuddy as far as this credential is concerned.        *)

(* km.Next hands the credential out, and EnsureValid may refresh an OAuth  *)
(* token first, which saves the key.                                       *)
Pick(p) ==
  /\ Free(p)
  /\ cur # NoObj
  /\ mem[cur].status = "enabled"
  /\ obj' = [obj EXCEPT ![p] = cur]
  /\ \/ Goto(p, "sent") /\ UNCHANGED <<then, saves, dto>>
     \/ cred = "oauth" /\ Persist(p, "sent")
  /\ UNCHANGED <<cred, key, meter, billed, crashes, doomed>>

Sent(p) == pc[p] \in {"sent", "resent"}

(* 401 on an OAuth account: Refresh succeeded and the request is sent once *)
(* more; of the callers singleflight joins, only the first saves the key.  *)
RefreshAndRetry(p) ==
  /\ pc[p] = "sent"
  /\ cred = "oauth"
  /\ \/ Persist(p, "resent")
     \/ Goto(p, "resent") /\ UNCHANGED <<then, saves, dto>>
  /\ UNCHANGED <<cred, key, obj, meter, billed, crashes, doomed>>

(* 401 (API key, failed refresh, or again after the refresh), 429 with     *)
(* 14017, 403 with 11140, 14018.                                           *)
permanentDisable(p) ==
  /\ Sent(p)
  /\ SetStatus(p, "permanent")
  /\ Persist(p, "idle")
  /\ UNCHANGED <<cred, cur, redis, obj, meter, billed, crashes>>

(* Any other 429 or 4xx. *)
cooldownDisable(p) ==
  /\ Sent(p)
  /\ SetStatus(p, "cooldown")
  /\ Persist(p, "idle")
  /\ UNCHANGED <<cred, cur, redis, obj, meter, billed, crashes>>

(* A connection error, a 5xx or the client's own mistake: the credential   *)
(* is left alone.                                                          *)
NoVerdict(p) ==
  /\ Sent(p)
  /\ Done(p)
  /\ UNCHANGED <<cred, key, meter, billed, crashes, hist>>

(* The upstream answers and charges for it. *)
Answer(p) ==
  /\ Sent(p)
  /\ billed < MaxBilled
  /\ billed' = billed + 1
  /\ Goto(p, "stream")
  /\ UNCHANGED <<cred, key, obj, dto, then, meter, crashes, hist>>

(* An error chunk with 14018 or 14017 in the stream. *)
StreamError(p) ==
  /\ pc[p] = "stream"
  /\ SetStatus(p, "permanent")
  /\ Persist(p, "tail")
  /\ UNCHANGED <<cred, cur, redis, obj, meter, billed, crashes>>

(* Mutant of AddCredits: the new count is not saved. *)
AddCredits_Unsaved(p) ==
  /\ pc[p] \in {"stream", "tail"}
  /\ mem' = [mem EXCEPT ![obj[p]].used = @ + 1]
  /\ Done(p)
  /\ UNCHANGED <<cred, cur, redis, meter, billed, crashes, hist>>

(* The usage chunk: AddCredits counts it and disables a key at its limit.  *)
AddCredits(p) ==
  /\ pc[p] \in {"stream", "tail"}
  /\ LET k == mem[obj[p]]
         s == IF k.used + 1 >= Limit THEN "permanent" ELSE k.status
     IN  /\ mem' = [mem EXCEPT ![obj[p]] = [status |-> s, used |-> k.used + 1]]
         /\ doomed' = (doomed \/ (s = "permanent" /\ obj[p] = cur))
  /\ Persist(p, "idle")
  /\ UNCHANGED <<cred, cur, redis, obj, meter, billed, crashes>>

(* The stream ends, or the client goes away, before a usage chunk. *)
EndStream(p) ==
  /\ pc[p] \in {"stream", "tail"}
  /\ Done(p)
  /\ UNCHANGED <<cred, key, meter, billed, crashes, hist>>

Handler(p) ==
  \/ RefreshAndRetry(p) \/ permanentDisable(p) \/ cooldownDisable(p)
  \/ NoVerdict(p) \/ Answer(p) \/ StreamError(p) \/ AddCredits(p)
  \/ EndStream(p)

-----------------------------------------------------------------------------
(* Workers.  Both walk a copy of the key list (GetAll), so the object they *)
(* hold may have left the pool when they come to lock it.                  *)

ScanCooldowns ==
  /\ Reenabler \in Actors
  /\ Free(Reenabler)
  /\ cur # NoObj
  /\ obj' = [obj EXCEPT ![Reenabler] = cur]
  /\ Goto(Reenabler, "scan")
  /\ UNCHANGED <<cred, key, dto, then, meter, billed, crashes, hist>>

(* Mutants of ReenableCooldowns: the lifted cooldown is not saved; the     *)
(* test of disabledAt is inverted.                                         *)
ReenableCooldowns_Unsaved ==
  /\ Reenabler \in Actors
  /\ pc[Reenabler] = "scan"
  /\ IF mem[obj[Reenabler]].status = "cooldown"
     THEN SetStatus(Reenabler, "enabled")
     ELSE UNCHANGED <<mem, doomed>>
  /\ Done(Reenabler)
  /\ UNCHANGED <<cred, cur, redis, meter, billed, crashes, saves>>

ReenableCooldowns_Inverted ==
  /\ Reenabler \in Actors
  /\ pc[Reenabler] = "scan"
  /\ IF mem[obj[Reenabler]].status = "permanent"
     THEN SetStatus(Reenabler, "enabled") /\ Persist(Reenabler, "idle")
          /\ UNCHANGED obj
     ELSE Done(Reenabler) /\ UNCHANGED <<mem, hist>>
  /\ UNCHANGED <<cred, cur, redis, meter, billed, crashes>>

(* A cooldown that is over is lifted; a permanent disable is left alone. *)
ReenableCooldowns ==
  /\ Reenabler \in Actors
  /\ pc[Reenabler] = "scan"
  /\ IF mem[obj[Reenabler]].status = "cooldown"
     THEN SetStatus(Reenabler, "enabled") /\ Persist(Reenabler, "idle")
          /\ UNCHANGED obj
     ELSE Done(Reenabler) /\ UNCHANGED <<mem, hist>>
  /\ UNCHANGED <<cred, cur, redis, meter, billed, crashes>>

(* The cooldown has not yet lasted ten minutes. *)
CooldownGoesOn ==
  /\ Reenabler \in Actors
  /\ pc[Reenabler] = "scan"
  /\ mem[obj[Reenabler]].status = "cooldown"
  /\ Done(Reenabler)
  /\ UNCHANGED <<cred, key, meter, billed, crashes, hist>>

(* SyncCredits starts, for the worker (which skips permanently disabled    *)
(* keys) or for the operator (who does not); singleflight makes them one.  *)
(* An OAuth token near its expiry is refreshed, and saved, first.          *)
EnsureValid ==
  /\ Syncer \in Actors
  /\ Free(Syncer)
  /\ cur # NoObj
  /\ obj' = [obj EXCEPT ![Syncer] = cur]
  /\ \/ Goto(Syncer, "meter") /\ UNCHANGED <<then, saves, dto>>
     \/ cred = "oauth" /\ Persist(Syncer, "meter")
  /\ UNCHANGED <<cred, key, meter, billed, crashes, doomed>>

(* The meter answers with what it has charged so far. *)
FetchMeter ==
  /\ Syncer \in Actors
  /\ pc[Syncer] = "meter"
  /\ meter' = billed
  /\ Goto(Syncer, "fetched")
  /\ UNCHANGED <<cred, key, obj, dto, then, billed, crashes, hist>>

(* Mutant of SyncCredits: the meter's usage is added to the local count. *)
SyncCredits_Adds ==
  /\ Syncer \in Actors
  /\ pc[Syncer] = "fetched"
  /\ mem' = [mem EXCEPT ![obj[Syncer]].used = @ + meter]
  /\ Persist(Syncer, "idle")
  /\ UNCHANGED <<cred, cur, redis, obj, meter, billed, crashes, doomed>>

(* The answer overwrites the local count; an exhausted key is disabled for *)
(* good, and no answer enables one.                                        *)
SyncCredits ==
  /\ Syncer \in Actors
  /\ pc[Syncer] = "fetched"
  /\ LET o == obj[Syncer]
         s == IF meter >= Limit THEN "permanent" ELSE mem[o].status
     IN  /\ mem' = [mem EXCEPT ![o] = [status |-> s, used |-> meter]]
         /\ doomed' = (doomed \/ (s = "permanent" /\ o = cur))
  /\ Persist(Syncer, "idle")
  /\ UNCHANGED <<cred, cur, redis, obj, meter, billed, crashes>>

SyncFails ==
  /\ Syncer \in Actors
  /\ pc[Syncer] \in {"meter", "fetched"}
  /\ Done(Syncer)
  /\ UNCHANGED <<cred, key, meter, billed, crashes, hist>>

(* CBOAuthRefreshWorker refreshes and saves an account that is not         *)
(* disabled for good. *)
PreWarm ==
  /\ Refresher \in Actors
  /\ Free(Refresher)
  /\ cred = "oauth"
  /\ cur # NoObj
  /\ mem[cur].status # "permanent"
  /\ obj' = [obj EXCEPT ![Refresher] = cur]
  /\ Persist(Refresher, "idle")
  /\ UNCHANGED <<cred, key, meter, billed, crashes, doomed>>

-----------------------------------------------------------------------------
(* The operator. *)

(* A new object for the credential: AddKey, or AddOAuthAccount for an      *)
(* email that is not in the pool. *)
AddKey ==
  /\ Admin \in Actors
  /\ Free(Admin)
  /\ cur = NoObj
  /\ \E o \in Objs :
       /\ \A p \in Procs : obj[p] # o
       /\ mem' = [mem EXCEPT ![o] = Fresh]
       /\ cur' = o
       /\ obj' = [obj EXCEPT ![Admin] = o]
  /\ doomed' = FALSE
  /\ Persist(Admin, "idle")
  /\ UNCHANGED <<cred, redis, meter, billed, crashes>>

(* AddOAuthAccount for an email in the pool: new tokens, enabled again. *)
ReimportOAuth ==
  /\ Admin \in Actors
  /\ Free(Admin)
  /\ cred = "oauth"
  /\ cur # NoObj
  /\ mem' = [mem EXCEPT ![cur].status = "enabled"]
  /\ obj' = [obj EXCEPT ![Admin] = cur]
  /\ doomed' = FALSE
  /\ Persist(Admin, "idle")
  /\ UNCHANGED <<cred, cur, redis, meter, billed, crashes>>

(* The key leaves the slice under km.mu, and Redis after the unlock. *)
DeleteKey ==
  /\ Admin \in Actors
  /\ Free(Admin)
  /\ cur # NoObj
  /\ cur' = NoObj
  /\ Goto(Admin, "delete")
  /\ BeginSave(Admin)
  /\ UNCHANGED <<cred, mem, redis, obj, dto, then, meter, billed, crashes,
                 doomed>>

(* DEL of the hash, best effort like the save. *)
DeleteCBKey ==
  /\ Admin \in Actors
  /\ pc[Admin] = "delete"
  /\ \/ redis' = Absent /\ raced' = (Admin \notin alone)
     \/ RedisFails /\ UNCHANGED redis /\ raced' = TRUE
  /\ alone' = {}
  /\ Done(Admin)
  /\ UNCHANGED <<cred, mem, cur, meter, billed, crashes, doomed>>

(* Permanently disabled keys leave Redis and the slice under km.mu. *)
CleanupDisabled ==
  /\ Admin \in Actors
  /\ Free(Admin)
  /\ cur # NoObj
  /\ mem[cur].status = "permanent"
  /\ \/ redis' = Absent /\ raced' = OthersSaving(Admin)
     \/ RedisFails /\ UNCHANGED redis /\ raced' = TRUE
  /\ cur' = NoObj
  /\ alone' = {}
  /\ UNCHANGED <<cred, mem, proc, meter, billed, crashes, doomed>>

(* The process dies and starts again: LoadFromRedis, every goroutine gone. *)
(* A hash that cannot be read is left out.  Redis holds other keys too, so *)
(* the keys of the environment are not loaded.                             *)
Restart ==
  /\ crashes < MaxCrashes
  /\ crashes' = crashes + 1
  /\ \/ /\ redis # Absent
        /\ \E o \in Objs : cur' = o /\ mem' = [mem EXCEPT ![o] = redis]
        /\ raced' = FALSE
     \/ /\ redis = Absent \/ RedisFails
        /\ cur' = NoObj
        /\ raced' = (redis # Absent)
        /\ UNCHANGED mem
  /\ pc' = [p \in Procs |-> "idle"]
  /\ obj' = [p \in Procs |-> NoObj]
  /\ alone' = {}
  /\ UNCHANGED <<cred, redis, dto, then, meter, billed, doomed>>

-----------------------------------------------------------------------------
Worker ==
  \/ ScanCooldowns \/ ReenableCooldowns \/ CooldownGoesOn
  \/ EnsureValid \/ FetchMeter \/ SyncCredits \/ SyncFails \/ PreWarm

(* The handlers of the dashboard.  A bulk import adds its credentials one  *)
(* after the other: this one's turn is what a single import does.          *)
HandleImportCBKey == cred # "oauth" /\ AddKey
HandleImportCBKeyBulk == HandleImportCBKey
HandleImportCBOAuth == cred = "oauth" /\ (AddKey \/ ReimportOAuth)
HandleImportCBOAuthBulk == HandleImportCBOAuth
HandleDeleteCBKey == DeleteKey
HandleCleanupDisabled == CleanupDisabled

Operator ==
  \/ HandleImportCBKey \/ HandleImportCBKeyBulk
  \/ HandleImportCBOAuth \/ HandleImportCBOAuthBulk
  \/ HandleDeleteCBKey \/ DeleteCBKey \/ HandleCleanupDisabled

Next ==
  \/ \E p \in Handlers : Pick(p) \/ Handler(p)
  \/ \E p \in Procs : toDTO(p) \/ saveCBKey(p)
  \/ Worker
  \/ Operator
  \/ Restart

Spec == Init /\ [][Next]_vars

(* Goroutines that started run on, the re-enable worker ticks, and a       *)
(* cooldown that is scanned for ever is over at some scan.                 *)
Fairness ==
  /\ \A p \in Handlers : WF_vars(Handler(p))
  /\ \A p \in Procs : WF_vars(toDTO(p)) /\ WF_vars(saveCBKey(p))
  /\ WF_vars(ScanCooldowns)
  /\ SF_vars(ReenableCooldowns)

FairSpec == Spec /\ Fairness

-----------------------------------------------------------------------------
(* What Redis should hold. *)
Current == IF cur = NoObj THEN Absent ELSE mem[cur]

(* Redis shows the key as it is in memory whenever nobody is saving it and *)
(* the last write was not overlapped by another save, lost to a timeout,   *)
(* or made through a deleted object, and the last start read the hash: no  *)
(* change of the key goes unsaved, and one undisturbed save, or a restart, *)
(* repairs what a race left behind                                         *)
(* (toDTO, saveCBKey, DeleteKey, CleanupDisabled, LoadFromRedis).          *)
PersistedUnlessRaced ==
  ~raced /\ (\A p \in Procs : ~Saving(p)) => redis = Current

(* Counting an answer twice, once in the meter and once in AddCredits, is  *)
(* bounded by the requests in flight: it does not build up over syncs      *)
(* (AddCredits, syncCreditsLocked).                                        *)
OvercountBound ==
  cur # NoObj => mem[cur].used <= billed + Cardinality(Handlers)

(* A key on cooldown leaves it, or leaves the pool: no answer that races   *)
(* with the worker leaves it waiting for ever (ReenableCooldowns).         *)
CooldownLifts ==
  \A o \in Objs :
    (cur = o /\ mem[o].status = "cooldown")
      ~> (cur # o \/ mem[o].status # "cooldown")

(* codebuddy.go:420, "Permanent disables are never auto-reenabled": since  *)
(* the operator added it, a key once disabled for good is not enabled.     *)
PermanentNeverReenabled ==
  doomed /\ cur # NoObj => mem[cur].status # "enabled"
=============================================================================
