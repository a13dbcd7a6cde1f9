------------------------------ MODULE LogQueue ------------------------------
(***************************************************************************)
(* The asynchronous logs of the gateway: internal/db/db.go, LogRequest,    *)
(* LogRefresh and LogEvent with their three consumers, and Close; the      *)
(* inserts of internal/db/logstore_sqlite.go and logstore_clickhouse.go.   *)
(*                                                                         *)
(* Each kind of entry has a buffered channel and a goroutine that collects *)
(* a batch and inserts it when it is full, on a tick and at shutdown.  A   *)
(* full channel drops the entry; an insert that fails drops the batch, and *)
(* a row that fails is only logged and the rest is inserted.  The          *)
(* goroutine that sends does not wait for the insert, and requests may     *)
(* still log while the store shuts down.  An entry is its number.          *)
(***************************************************************************)
EXTENDS Naturals, Sequences, SequencesExt

CONSTANTS
  BufferSize,     \* LOG_BUFFER_SIZE
  RequestBatch,   \* size at which a batch of requests is inserted: 200
  EventBatch,     \* the same for refreshes and events: 50
  MaxEntries      \* bound: entries logged, of all kinds together

LogKinds == {"request", "refresh", "event"}

ASSUME LogAssumption ==
  /\ BufferSize \in Nat \ {0} /\ RequestBatch \in Nat \ {0} /\ EventBatch \in Nat \ {0}
  /\ MaxEntries \in Nat

VARIABLES
  channel,    \* reqLogCh, refreshCh, eventCh
  batch,      \* the consumer's batch
  consumer,   \* receiving, inserting, and whether it ends after that
  table,      \* the rows of the log store
  failed,     \* history: entries of a failed insert or row
  refused,    \* history: entries dropped because the channel was full
  logged,     \* history: the entries logged so far
  shutdown    \* Store.Close: running, closing (done is closed), or closed (the log store is)

logVars == <<channel, batch, consumer, table, failed, refused, logged, shutdown>>

LogInit ==
  /\ channel = [k \in LogKinds |-> <<>>]
  /\ batch = [k \in LogKinds |-> <<>>]
  /\ consumer = [k \in LogKinds |-> "receiving"]
  /\ table = [k \in LogKinds |-> <<>>]
  /\ failed = [k \in LogKinds |-> {}]
  /\ refused = [k \in LogKinds |-> {}]
  /\ logged = [k \in LogKinds |-> 0]
  /\ shutdown = "running"

-----------------------------------------------------------------------------
Full_OffByOne(k) == Len(channel[k]) > BufferSize   \* mutant of Full

Full(k) == Len(channel[k]) >= BufferSize

Enqueue(k) ==
  /\ logged["request"] + logged["refresh"] + logged["event"] < MaxEntries
  /\ logged' = [logged EXCEPT ![k] = @ + 1]
  /\ IF ~Full(k)
     THEN channel' = [channel EXCEPT ![k] = Append(@, logged[k] + 1)] /\ UNCHANGED refused
     ELSE refused' = [refused EXCEPT ![k] = @ \cup {logged[k] + 1}] /\ UNCHANGED channel
  /\ UNCHANGED <<batch, consumer, table, failed, shutdown>>

LogRequest == Enqueue("request")
LogRefresh == Enqueue("refresh")
LogEvent == Enqueue("event")

\* The last flush.
DoneReceived(k) == [consumer EXCEPT ![k] = IF batch[k] = <<>> THEN "ended" ELSE "last insert"]

\* One turn of a consumer's select: an entry, a tick, or done.  flush of an
\* empty batch inserts nothing.
Consume(k, size) ==
  /\ consumer[k] = "receiving"
  /\ \/ /\ channel[k] # <<>>
        /\ channel' = [channel EXCEPT ![k] = Tail(@)]
        /\ batch' = [batch EXCEPT ![k] = Append(@, Head(channel[k]))]
        /\ consumer' = [consumer EXCEPT ![k] = IF Len(batch'[k]) >= size THEN "inserting" ELSE @]
     \/ /\ batch[k] # <<>>
        /\ consumer' = [consumer EXCEPT ![k] = "inserting"]
        /\ UNCHANGED <<channel, batch>>
     \/ /\ shutdown # "running"
        /\ consumer' = DoneReceived(k)
        /\ UNCHANGED <<channel, batch>>
  /\ UNCHANGED <<table, failed, refused, logged, shutdown>>

consumeRequestLogs == Consume("request", RequestBatch)
consumeRefreshLogs == Consume("refresh", EventBatch)
consumeAccountEvents == Consume("event", EventBatch)

Flushed_Kept(k) == batch                              \* mutant of Flushed: for a retry
Flushed(k) == [batch EXCEPT ![k] = <<>>]

\* What may be left of a sequence when some of its elements are dropped.
Remainders(s) ==
  UNION {{[i \in 1 .. n |-> s[row[i]]] :
            row \in {r \in [1 .. n -> DOMAIN s] : \A i, j \in 1 .. n : i < j => r[i] < r[j]}} :
         n \in 0 .. Len(s)}

\* The rows that do not fail are inserted in one transaction, or none when
\* that fails, as it does once the log store is closed.
InsertBatch(k) ==
  /\ consumer[k] \in {"inserting", "last insert"}
  /\ \E rows \in Remainders(batch[k]) :
       /\ shutdown = "closed" => rows = <<>>
       /\ table' = [table EXCEPT ![k] = @ \o rows]
       /\ failed' = [failed EXCEPT ![k] = @ \cup (ToSet(batch[k]) \ ToSet(rows))]
  /\ batch' = Flushed(k)
  /\ consumer' = [consumer EXCEPT ![k] = IF @ = "inserting" THEN "receiving" ELSE "ended"]
  /\ UNCHANGED <<channel, refused, logged, shutdown>>

InsertRequestBatch == InsertBatch("request")
InsertRefreshBatch == InsertBatch("refresh")
InsertEventBatch == InsertBatch("event")

\* Close closes done, waits for the consumers or ten seconds, and closes the store.
CloseDone ==
  /\ shutdown = "running"
  /\ shutdown' = "closing"
  /\ UNCHANGED <<channel, batch, consumer, table, failed, refused, logged>>

CloseStore ==
  /\ shutdown = "closing"
  /\ shutdown' = "closed"
  /\ UNCHANGED <<channel, batch, consumer, table, failed, refused, logged>>

LogNext ==
  \/ LogRequest \/ LogRefresh \/ LogEvent
  \/ consumeRequestLogs \/ consumeRefreshLogs \/ consumeAccountEvents
  \/ InsertRequestBatch \/ InsertRefreshBatch \/ InsertEventBatch
  \/ CloseDone \/ CloseStore

LogSpec == LogInit /\ [][LogNext]_logVars

-----------------------------------------------------------------------------
(* Properties                                                              *)

LogTypeOK ==
  /\ \A k \in LogKinds : Len(channel[k]) <= BufferSize /\ Len(batch[k]) <= RequestBatch + EventBatch
  /\ consumer \in [LogKinds -> {"receiving", "inserting", "last insert", "ended"}]
  /\ shutdown \in {"running", "closing", "closed"}

\* Every entry is in exactly one place: in the table, once and in the order
\* of the calls, or on its way, or dropped by a full channel or by a failed
\* insert or row.  No entry is inserted twice or lost between channel, batch
\* and table (flush empties the batch whatever the insert returned), and a
\* consumer that ended has flushed its batch: at shutdown only what still was in
\* the channel is left behind ("drains async log channels best-effort", main.go).
EntriesAccounted ==
  \A k \in LogKinds :
    LET way == table[k] \o batch[k] \o channel[k]
    IN  /\ \A i, j \in 1 .. Len(way) : i < j => way[i] < way[j]
        /\ ToSet(way) \cup failed[k] \cup refused[k] = 1 .. logged[k]
        /\ ToSet(way) \cap (failed[k] \cup refused[k]) = {}
        /\ consumer[k] = "ended" => batch[k] = <<>>
=============================================================================
