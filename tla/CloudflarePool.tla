--------------------------- MODULE CloudflarePool ---------------------------
(***************************************************************************)
(* The Cloudflare account pool: internal/upstream/cloudflare.go, CFKey and *)
(* CFKeyManager, with the two loops that take accounts from it             *)
(* (ProxyCloudflare for chats, CFRun in cf_run.go for embeddings and       *)
(* images), the worker that re-enables accounts, the operator, the UTC     *)
(* day, and the Redis hash of each account.                                *)
(*                                                                         *)
(* Each critical section of CFKey.mu is a step, and Next, which holds      *)
(* CFKeyManager.mu, is one step.  Next moves an account to a new day while *)
(* it holds the account's lock only for reading, and so does toDTO: a      *)
(* snapshot is therefore read in two steps, between which writers are kept *)
(* out and Next is not.                                                    *)
(*                                                                         *)
(* disabled and disabledAt are one field, status, as in CodeBuddyKey; how  *)
(* long a cooldown lasts is left open.  A day is a number and 0 is the     *)
(* empty quotaDate.  No code sets quotaLimit: it is loaded from a hash in  *)
(* which the operator has put it, written back with every save, and 0,     *)
(* unknown, for the seeds and for added accounts.  The count of an account *)
(* whose limit is unknown decides nothing and is not kept.  An account     *)
(* that was deleted is added again only when nobody holds its old object.  *)
(* The breaker of this upstream is in UpstreamHealth.                      *)
(***************************************************************************)
EXTENDS Integers, Sequences, FiniteSets, Functions

CONSTANTS
  Accounts,        \* account ids
  Seeds,           \* the accounts of CF_API_TOKENS
  NoKey,           \* no account
  Handlers,        \* request goroutines
  Actors,          \* the other goroutines of this instance
  Limits,          \* limits found in Redis: functions, 0 is unknown
  MaxCFAttempts,   \* attempts of a chat (12)
  CFRunAttempts,   \* attempts of CFRun (5)
  Max404,          \* 404 answers after which a chat gives up (3)
  RedisFails,      \* may a write to Redis time out in this instance
  MaxBusy,         \* bound: goroutines at work on the pool at a time
  MaxDay,          \* bound: the last day
  MaxCrashes       \* bound: restarts of the gateway

Worker == "ReenableCFWorker"
Admin == "admin"
Procs == Handlers \cup Actors

ASSUME PoolAssumption ==
  /\ IsFiniteSet(Accounts) /\ IsFiniteSet(Handlers)
  /\ Handlers # {} /\ Handlers \cap {Worker, Admin} = {}
  /\ Actors \subseteq {Worker, Admin}
  /\ Seeds \subseteq Accounts /\ Seeds # {} /\ NoKey \notin Accounts
  /\ Limits \subseteq [Accounts -> Nat]
  /\ MaxCFAttempts \in Nat /\ CFRunAttempts \in Nat /\ Max404 \in Nat \ {0}
  /\ RedisFails \in BOOLEAN
  /\ MaxBusy \in Nat /\ MaxDay \in Nat \ {0} /\ MaxCrashes \in Nat

Status == {"enabled", "cooldown", "permanent"}
DTO == [status : Status, used : Nat, limit : Nat, date : Nat]
Absent == [status |-> "absent", used |-> 0, limit |-> 0, date |-> 0]
Unused(n) == [status |-> "enabled", used |-> 0, limit |-> n, date |-> 0]
Fresh == Unused(0)

VARIABLES
  day,          \* environment: the UTC day
  keys,         \* CFKeyManager.keys
  next,         \* CFKeyManager.next
  mem,          \* the CFKey of each account
  redis,        \* the hash of each account, or Absent
  g,            \* the goroutines: where each is, and its local variables
  scan,         \* the worker's: the date, the accounts to look at, to save
  crashes,      \* restarts so far
  uses,         \* history: uses recorded today, per account
  torn          \* history: a snapshot mixed two days

vars == <<day, keys, next, mem, redis, g, scan, crashes, uses, torn>>

(* Variables no step of a goroutine but recordUsage and toDTO changes. *)
rest == <<day, crashes, uses, torn>>

(* A goroutine: the account it holds, a request's kind, attempts left and  *)
(* consecutive404, the snapshot it is about to write and where it goes on  *)
(* after that.                                                             *)
Goroutine ==
  [pc : {"idle", "loop", "sent", "toDTO", "toDTO2", "save", "scan", "saves",
         "delete"},
   key : Accounts \cup {NoKey},
   kind : {"chat", "run"},
   left : Nat,
   n404 : Nat,
   dto : DTO,
   then : {"idle", "loop", "saves"}]

Idle == [pc |-> "idle", key |-> NoKey, kind |-> "chat", left |-> 0,
         n404 |-> 0, dto |-> Fresh, then |-> "idle"]

NoScan == [today |-> 0, todo |-> <<>>, changed |-> <<>>]

TypeOK ==
  /\ day \in 1..MaxDay
  /\ keys \in Seq(Accounts)
  /\ next \in Nat
  /\ mem \in [Accounts -> DTO]
  /\ redis \in [Accounts -> DTO \cup {Absent}]
  /\ g \in [Procs -> Goroutine]
  /\ scan \in [today : 0..MaxDay, todo : Seq(Accounts),
               changed : Seq(Accounts)]
  /\ crashes \in 0..MaxCrashes
  /\ uses \in [Accounts -> Nat] /\ torn \in BOOLEAN

(* The orders in which LoadFromRedis may append a set of accounts. *)
Orders(S) == {s \in [1..Cardinality(S) -> S] : Range(s) = S}

(* LoadFromRedis has found unused accounts, some with a limit: the seeds   *)
(* of a first run, in whose hashes the operator may have put one.          *)
Init ==
  /\ day = 1
  /\ keys \in Orders(Seeds)
  /\ next = 0
  /\ \E limit \in Limits : mem = [a \in Accounts |-> Unused(limit[a])]
  /\ redis = [a \in Accounts |-> IF a \in Seeds THEN mem[a] ELSE Absent]
  /\ g = [p \in Procs |-> Idle]
  /\ scan = NoScan
  /\ crashes = 0
  /\ uses = [a \in Accounts |-> 0] /\ torn = FALSE

-----------------------------------------------------------------------------
(* A goroutine that may turn to the pool. *)
Free(p) ==
  /\ g[p].pc = "idle"
  /\ Cardinality({q \in Procs : g[q].pc # "idle"}) < MaxBusy

(* Nobody reads account a: its lock can be taken for writing. *)
Lockable(a) == \A p \in Procs : ~(g[p].pc = "toDTO2" /\ g[p].key = a)

(* A goroutine x that goes to l with account a, has snapshot d, will go on *)
(* at t, or is a request of kind k with n attempts left and m times 404.   *)
Move(x, l, a) == [x EXCEPT !.pc = l, !.key = a]
Snap(x, d) == [x EXCEPT !.dto = d]
Then(x, t) == [x EXCEPT !.then = t]
Try(x, k, n, m) == [x EXCEPT !.kind = k, !.left = n, !.n404 = m]

Become(p, x) == g' = [g EXCEPT ![p] = x]
Done(p) == Become(p, Idle)

(* After changing account a: snapshot and save it, then go on at l. *)
Persist(p, a, l) ==
  Become(p, Then(Move(g[p], "toDTO", a), l))

(* toDTO reads quotaUsed and then quotaDate, under the account's RLock. *)
toDTO(p) ==
  /\ g[p].pc = "toDTO"
  /\ Become(p, Snap(Move(g[p], "toDTO2", g[p].key), mem[g[p].key]))
  /\ UNCHANGED <<rest, keys, next, mem, redis, scan>>

toDTO2(p) ==
  /\ g[p].pc = "toDTO2"
  /\ LET d == [g[p].dto EXCEPT !.date = mem[g[p].key].date]
     IN  Become(p, Snap(Move(g[p], "save", g[p].key), d))
  /\ torn' = (torn \/ g[p].dto.date # mem[g[p].key].date)
  /\ UNCHANGED <<day, keys, next, mem, redis, scan, crashes, uses>>

(* HSet of the snapshot, best effort. *)
saveCFKey(p) ==
  /\ g[p].pc = "save"
  /\ \/ redis' = [redis EXCEPT ![g[p].key] = g[p].dto]
     \/ RedisFails /\ UNCHANGED redis
  /\ IF g[p].then = "idle"
     THEN Done(p)
     ELSE Become(p, Then(Snap(Move(g[p], g[p].then, NoKey), Fresh), "idle"))
  /\ UNCHANGED <<rest, keys, next, mem, scan>>

-----------------------------------------------------------------------------
(* Next: the enabled account with the most quota left, the first one in    *)
(* rotation order among equals.                                            *)

Unknown == 1000000000

Ring(i) == keys[((next + i) % Len(keys)) + 1]

Enabled(a) == mem[a].status = "enabled"

(* The scan moves an enabled account to the new day, and does not save it. *)
NewDay(a) ==
  IF Enabled(a) /\ mem[a].date # day
  THEN [status |-> "enabled", used |-> 0, limit |-> mem[a].limit,
        date |-> day]
  ELSE mem[a]

Remaining(a) ==
  IF mem[a].limit = 0 THEN Unknown ELSE mem[a].limit - NewDay(a).used

(* Mutant of Candidates: an account at its limit is still one. *)
Candidates_AtLimit ==
  {i \in 0..(Len(keys) - 1) : Enabled(Ring(i)) /\ Remaining(Ring(i)) >= 0}

Candidates ==
  {i \in 0..(Len(keys) - 1) : Enabled(Ring(i)) /\ Remaining(Ring(i)) > 0}

Better(i, j) ==
  \/ Remaining(Ring(i)) > Remaining(Ring(j))
  \/ Remaining(Ring(i)) = Remaining(Ring(j)) /\ i <= j

Best == {i \in Candidates : \A j \in Candidates : Better(i, j)}

Scanned ==
  mem' = [a \in Accounts |-> IF a \in Range(keys) THEN NewDay(a) ELSE mem[a]]

Take(p) ==
  \E i \in Best :
    Become(p, Try(Move(g[p], "sent", Ring(i)),
                  g[p].kind, g[p].left - 1, g[p].n404))

(* Mutant of Pick: the rotation stands still. *)
Pick_Stuck(p) ==
  /\ g[p].pc = "loop"
  /\ g[p].left > 0
  /\ Candidates # {}
  /\ Scanned
  /\ Take(p)
  /\ UNCHANGED <<rest, keys, next, redis, scan>>

(* The loop takes another turn with the account Next returns. *)
Pick(p) ==
  /\ g[p].pc = "loop"
  /\ g[p].left > 0
  /\ Candidates # {}
  /\ Scanned
  /\ next' = (next + 1) % Len(keys)
  /\ Take(p)
  /\ UNCHANGED <<rest, keys, redis, scan>>

-----------------------------------------------------------------------------
(* The loops of ProxyCloudflare ("chat") and CFRun ("run").                *)

Attempts(k) ==
  IF k = "run" THEN CFRunAttempts
  ELSE IF Len(keys) < MaxCFAttempts THEN Len(keys) ELSE MaxCFAttempts

(* A chat on an empty pool is answered 503 at once. *)
Start(p) ==
  /\ Free(p)
  /\ \E k \in {"chat", "run"} :
       /\ k = "chat" => keys # <<>>
       /\ Become(p, Try(Move(g[p], "loop", NoKey), k, Attempts(k), 0))
  /\ UNCHANGED <<rest, keys, next, mem, redis, scan>>

(* The attempts are used up, Next has no account, or a chat's context is   *)
(* done: the loop ends, and a chat sums up what went wrong.                *)
GiveUp(p) ==
  /\ g[p].pc = "loop"
  /\ g[p].left = 0 \/ Candidates = {} \/ g[p].kind = "chat"
  /\ Done(p)
  /\ UNCHANGED <<rest, keys, next, mem, redis, scan>>

Again(p) == Move(g[p], "loop", NoKey)

(* No connection; a chat also goes on after a 5xx. *)
TryAnother(p) ==
  /\ g[p].pc = "sent"
  /\ Become(p, Again(p))
  /\ UNCHANGED <<rest, keys, next, mem, redis, scan>>

(* The model is not there, which is not the account's fault. *)
NotFound(p) ==
  /\ g[p].pc = "sent"
  /\ g[p].kind = "chat"
  /\ IF g[p].n404 + 1 >= Max404
     THEN Done(p)
     ELSE Become(p, Try(Again(p), "chat", g[p].left, g[p].n404 + 1))
  /\ UNCHANGED <<rest, keys, next, mem, redis, scan>>

(* 401 and 403 are permanent, 429 and (for a chat) every other 4xx but 404 *)
(* a cooldown: permanentDisableCF, cooldownDisableCF.                      *)
Disable(p, s) ==
  /\ g[p].pc = "sent"
  /\ Lockable(g[p].key)
  /\ mem' = [mem EXCEPT ![g[p].key].status = s]
  /\ Persist(p, g[p].key, "loop")
  /\ UNCHANGED <<rest, keys, next, redis, scan>>

permanentDisableCF(p) == Disable(p, "permanent")
cooldownDisableCF(p) == Disable(p, "cooldown")

(* CFRun returns every other answer, and counts none. *)
RunAnswered(p) ==
  /\ g[p].pc = "sent"
  /\ g[p].kind = "run"
  /\ Done(p)
  /\ UNCHANGED <<rest, keys, next, mem, redis, scan>>

Counted(a) == IF mem[a].limit = 0 THEN 0 ELSE 1

(* Bound: the history does not count on beyond what mem[a].used can be. *)
Counts(a) ==
  uses' = [uses EXCEPT ![a] = IF @ < mem[a].limit + Cardinality(Handlers)
                              THEN @ + Counted(a) ELSE @]

(* Mutant of recordUsage: the new day begins with the old day's count. *)
recordUsage_KeepsCount(p) ==
  /\ g[p].pc = "sent"
  /\ g[p].kind = "chat"
  /\ Lockable(g[p].key)
  /\ LET a == g[p].key
     IN  /\ mem' = [mem EXCEPT ![a].used = @ + Counted(a), ![a].date = day]
         /\ Counts(a)
         /\ Persist(p, a, "idle")
  /\ UNCHANGED <<day, keys, next, redis, scan, crashes, torn>>

(* A chat was answered: one more use, of the day it is by now. *)
recordUsage(p) ==
  /\ g[p].pc = "sent"
  /\ g[p].kind = "chat"
  /\ Lockable(g[p].key)
  /\ LET a == g[p].key
         old == IF mem[a].date = day THEN mem[a].used ELSE 0
     IN  /\ mem' = [mem EXCEPT ![a].used = old + Counted(a), ![a].date = day]
         /\ Counts(a)
         /\ Persist(p, a, "idle")
  /\ UNCHANGED <<day, keys, next, redis, scan, crashes, torn>>

Handler(p) ==
  \/ Pick(p) \/ GiveUp(p) \/ TryAnother(p) \/ NotFound(p)
  \/ permanentDisableCF(p) \/ cooldownDisableCF(p)
  \/ RunAnswered(p) \/ recordUsage(p)

-----------------------------------------------------------------------------
(* ReenableCooldowns: a copy of the list and the date are taken first,     *)
(* then each account is looked at under its lock, then the changed ones    *)
(* are saved.                                                              *)
StartScan ==
  /\ Worker \in Actors
  /\ Free(Worker)
  /\ keys # <<>>
  /\ scan' = [today |-> day, todo |-> keys, changed |-> <<>>]
  /\ Become(Worker, Move(g[Worker], "scan", NoKey))
  /\ UNCHANGED <<rest, keys, next, mem, redis>>

ReenableCooldowns ==
  /\ Worker \in Actors
  /\ g[Worker].pc = "scan"
  /\ scan.todo # <<>>
  /\ Lockable(Head(scan.todo))
  /\ LET a == Head(scan.todo)
         k == mem[a]
     IN  \E over \in BOOLEAN :
           LET lift == k.status = "cooldown" /\ over
               stale == k.date # scan.today
           IN  /\ mem' = [mem EXCEPT ![a] =
                            [status |-> IF lift THEN "enabled" ELSE k.status,
                             used |-> IF stale THEN 0 ELSE k.used,
                             limit |-> k.limit,
                             date |-> scan.today]]
               /\ scan' = [scan EXCEPT
                             !.todo = Tail(@),
                             !.changed = IF lift \/ stale THEN Append(@, a)
                                                          ELSE @]
  /\ UNCHANGED <<rest, keys, next, redis, g>>

EndScan ==
  /\ Worker \in Actors
  /\ g[Worker].pc = "scan"
  /\ scan.todo = <<>>
  /\ Become(Worker, Move(g[Worker], "saves", NoKey))
  /\ UNCHANGED <<rest, keys, next, mem, redis, scan>>

SaveChanged ==
  /\ Worker \in Actors
  /\ g[Worker].pc = "saves"
  /\ IF scan.changed = <<>>
     THEN Done(Worker) /\ scan' = NoScan
     ELSE /\ Persist(Worker, Head(scan.changed), "saves")
          /\ scan' = [scan EXCEPT !.changed = Tail(@)]
  /\ UNCHANGED <<rest, keys, next, mem, redis>>

Scan == ReenableCooldowns \/ EndScan \/ SaveChanged

-----------------------------------------------------------------------------
(* The operator. *)

Held(a) ==
  \/ \E p \in Procs : g[p].key = a
  \/ a \in Range(scan.todo) \cup Range(scan.changed)

AddKey ==
  /\ Admin \in Actors
  /\ Free(Admin)
  /\ \E a \in Accounts \ Range(keys) :
       /\ ~Held(a)
       /\ keys' = Append(keys, a)
       /\ mem' = [mem EXCEPT ![a] = Fresh]
       /\ Persist(Admin, a, "idle")
  /\ UNCHANGED <<rest, next, redis, scan>>

(* What is left of the slice: the accounts of S, in their order. *)
Before(a, b) ==
  \E i, j \in DOMAIN keys : i < j /\ keys[i] = a /\ keys[j] = b

Kept(S) ==
  {s \in Orders(S) : \A i, j \in DOMAIN s : i < j => Before(s[i], s[j])}

(* The account leaves the slice under the lock, and Redis after it. *)
DeleteKey ==
  /\ Admin \in Actors
  /\ Free(Admin)
  /\ \E a \in Range(keys) :
       /\ keys' \in Kept(Range(keys) \ {a})
       /\ Become(Admin, Move(g[Admin], "delete", a))
  /\ UNCHANGED <<rest, next, mem, redis, scan>>

DeleteCFKey ==
  /\ Admin \in Actors
  /\ g[Admin].pc = "delete"
  /\ \/ redis' = [redis EXCEPT ![g[Admin].key] = Absent]
     \/ RedisFails /\ UNCHANGED redis
  /\ Done(Admin)
  /\ UNCHANGED <<rest, keys, next, mem, scan>>

(* Permanently disabled accounts leave Redis and the slice; each DEL may   *)
(* time out. *)
CleanupDisabled ==
  /\ Admin \in Actors
  /\ Free(Admin)
  /\ LET dead == {a \in Range(keys) : mem[a].status = "permanent"}
     IN  /\ dead # {}
         /\ keys' \in Kept(Range(keys) \ dead)
         /\ \E lost \in SUBSET dead :
              /\ RedisFails \/ lost = {}
              /\ redis' = [a \in Accounts |->
                             IF a \in dead \ lost THEN Absent ELSE redis[a]]
  /\ UNCHANGED <<rest, next, mem, g, scan>>

-----------------------------------------------------------------------------
(* UTC midnight. *)
Midnight ==
  /\ day < MaxDay
  /\ day' = day + 1
  /\ uses' = [a \in Accounts |-> 0]
  /\ UNCHANGED <<keys, next, mem, redis, g, scan, crashes, torn>>

(* LoadFromRedis takes the accounts whose hashes it can read, in any       *)
(* order, or saves the seeds if it read none; it starts with an empty pool *)
(* if the scan of the hashes fails.                                        *)
LoadFromRedis ==
  LET stored == {a \in Accounts : redis[a] # Absent}
  IN  \E read \in SUBSET stored :
        LET seeds == IF read = {} THEN Seeds ELSE {}
        IN  /\ RedisFails \/ read = stored
            /\ mem' = [a \in Accounts |->
                         IF a \in read THEN redis[a] ELSE Fresh]
            /\ \/ /\ keys' \in Orders(read \cup seeds)
                  /\ \E saved \in SUBSET seeds :
                       /\ RedisFails \/ saved = seeds
                       /\ redis' = [a \in Accounts |->
                                      IF a \in saved THEN Fresh ELSE redis[a]]
               \/ RedisFails /\ keys' = <<>> /\ UNCHANGED redis

(* The process dies and starts again. *)
Restart ==
  /\ crashes < MaxCrashes
  /\ crashes' = crashes + 1
  /\ LoadFromRedis
  /\ next' = 0
  /\ g' = [p \in Procs |-> Idle]
  /\ scan' = NoScan
  /\ UNCHANGED <<day, uses, torn>>

Saver(p) == toDTO(p) \/ toDTO2(p) \/ saveCFKey(p)

Next ==
  \/ \E p \in Handlers : Start(p) \/ Handler(p)
  \/ \E p \in Procs : Saver(p)
  \/ StartScan \/ Scan
  \/ AddKey \/ DeleteKey \/ DeleteCFKey \/ CleanupDisabled
  \/ Midnight \/ Restart

Spec == Init /\ [][Next]_vars

(* Goroutines that started run on, and requests keep coming, of which some *)
(* are not cancelled before they take an account.                          *)
Fairness ==
  /\ \A p \in Handlers : WF_vars(Handler(p))
  /\ \A p \in Procs : WF_vars(Saver(p))
  /\ WF_vars(\E p \in Handlers : Start(p))
  /\ SF_vars(\E p \in Handlers : Pick(p))
  /\ WF_vars(Scan)
  /\ WF_vars(DeleteCFKey)

FairSpec == Spec /\ Fairness

-----------------------------------------------------------------------------
(* The count of an account with a known limit runs over it by less than    *)
(* the number of handlers, each of which may have been given the account   *)
(* while it still had quota: neither midnight, the worker, restarts nor    *)
(* crossed saves let it run further (Next, recordUsage).                   *)
QuotaOverrun ==
  \A a \in Accounts : mem[a].limit > 0 =>
    mem[a].used < mem[a].limit + Cardinality(Handlers)

(* The strengthening QuotaOverrun needs: a handler that holds an account   *)
(* may still count one use, Redis and the snapshots under way to it may be *)
(* loaded again, and a goroutine past Next holds an account.               *)
Holders(a) == {p \in Handlers : g[p].pc = "sent" /\ g[p].key = a}
Within(d, n) == d.limit > 0 => d.used + n < d.limit + Cardinality(Handlers)

UsesInFlight ==
  \A a \in Accounts : Within(mem[a], Cardinality(Holders(a)))

RedisWithinBound ==
  \A a \in Accounts : Within(redis[a], 0)

HeldKeys ==
  \A p \in Procs :
    g[p].pc \in {"sent", "toDTO", "toDTO2", "save", "delete"} =>
      g[p].key \in Accounts

SnapshotsWithinBound ==
  \A p \in Procs : g[p].pc \in {"toDTO2", "save"} => Within(g[p].dto, 0)

IInv ==
  TypeOK /\ UsesInFlight /\ RedisWithinBound /\ HeldKeys
    /\ SnapshotsWithinBound

(* "Reset at UTC midnight" (cloudflare.go:59): an account is charged today *)
(* for no more than today's uses, wherever midnight falls between Next,    *)
(* recordUsage, the worker's scan, a save and a restart, as long as no     *)
(* snapshot was read while Next moved its account to a new day.            *)
ChargedForTodayOnly ==
  torn \/ \A a \in Range(keys) :
            mem[a].date = day => mem[a].used <= uses[a]

(* An account of unknown limit that stays enabled in a full pool is used   *)
(* again and again, however the other accounts are disabled, rested and    *)
(* exhausted meanwhile (Next, the rotation by km.next).                    *)
EveryAccountUsed ==
  \A a \in Accounts :
    <>[](/\ Range(keys) = Accounts
         /\ mem[a].limit = 0
         /\ Enabled(a))
      => []<>(\E p \in Handlers : g[p].pc = "sent" /\ g[p].key = a)
=============================================================================
