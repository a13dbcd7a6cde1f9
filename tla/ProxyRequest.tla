---------------------------- MODULE ProxyRequest ----------------------------
(***************************************************************************)
(* The chat completion pipeline: internal/proxy/proxy.go, ProxyRequest,    *)
(* with the combo registry it consults (internal/proxy/combo.go), the      *)
(* response cache (internal/cache) and the dispatch to the three           *)
(* upstreams, for requests that name one combo and carry the same          *)
(* messages, so that they share one cache entry.                           *)
(*                                                                         *)
(* A request reads the registry three times (Resolve, and GetCombo for the *)
(* strategy and for the chain), and the operator may change the combo in   *)
(* between.  What a dispatch does to credentials and breakers is in        *)
(* CodeBuddyKey and UpstreamHealth; here it has an outcome, and open says  *)
(* which circuits are OPEN.                                                *)
(*                                                                         *)
(* A model stands for what the alias table makes of it.  The steps that    *)
(* only rewrite the request before the cache is asked (guardrails,         *)
(* compression) are left out.  Counters, latencies and prices, by which    *)
(* some strategies choose, are left open: any choice they can lead to is.  *)
(***************************************************************************)
EXTENDS ComboRegistry

CONSTANTS
  Requests,       \* request goroutines
  AliasEffort,    \* the reasoning effort its name stands for, or "none"
  Combos,         \* combos the operator may save
  ClientsCancel   \* may clients go away in this instance

ASSUME ProxyAssumption ==
  /\ AliasEffort \in [Models -> {"none", "low", "high"}]
  /\ \A c \in Combos : c.models \in Seq(Models) /\ c.models # <<>>
  /\ ClientsCancel \in BOOLEAN

Deleted == [strategy |-> "none", models |-> <<>>]

VARIABLES
  combo,    \* the registry's entry for the combo, or Deleted
  open,     \* upstreams whose circuit is OPEN
  cached,   \* the cache entry of these requests: "none" or a body
  req       \* the requests

vars == <<combo, open, cached, req>>

Idle ==
  [pc |-> "idle", stream |-> "no", effort |-> "none", given |-> FALSE,
   model |-> NoModel, strategy |-> "none", chain |-> <<>>, tried |-> <<>>,
   status |-> 200, body |-> "none", upstreamName |-> "codebuddy"]

-----------------------------------------------------------------------------
(* Mutant of ExpandGrokAlias: the alias overrides the client's choice.     *)
ExpandGrokAlias_Overrides(effort, m) ==
  IF m # NoModel /\ AliasEffort[m] # "none" THEN AliasEffort[m] ELSE effort

(* The effort a grok alias puts into the body unless there is one already. *)
ExpandGrokAlias(effort, m) ==
  IF m # NoModel /\ effort = "none" THEN AliasEffort[m] ELSE effort

ClientStream(q) == q.stream # "no"      \* "stream" in the body, or Accept
StreamReq(q) == q.stream = "body"       \* "stream" in the body

(* Mutant of Chained: streams are retried as well. *)
Chained_Streams(q) == q.strategy \in {"fallback", "fill_first", "priority"}

Chained(q) ==
  q.strategy \in {"fallback", "fill_first", "priority"} /\ ~ClientStream(q)

-----------------------------------------------------------------------------
Init ==
  /\ combo \in Combos \cup {Deleted}
  /\ open = {}
  /\ cached = "none"
  /\ req = [r \in Requests |-> Idle]

(* A request arrives, and the cache may answer it. *)
Arrive(r) ==
  /\ req[r].pc = "idle"
  /\ \E stream \in {"no", "body", "accept"}, effort \in {"none", "medium"} :
       LET hit == stream # "body" /\ cached # "none"
       IN  req' = [req EXCEPT ![r] =
                    [Idle EXCEPT !.pc = IF hit THEN "done" ELSE "resolve",
                                 !.stream = stream,
                                 !.effort = effort,
                                 !.given = effort # "none",
                                 !.body = IF hit THEN cached ELSE "none"]]
  /\ UNCHANGED <<combo, open, cached>>

(* combos.Resolve: a model of the combo, or the name as it stands. *)
ResolveCombo(r) ==
  /\ req[r].pc = "resolve"
  /\ IF combo = Deleted
     THEN req' = [req EXCEPT ![r].pc = "direct"]
     ELSE \E m \in Resolve(combo, open) :
            req' = [req EXCEPT ![r].pc = "strategy",
                               ![r].model = m]
  /\ UNCHANGED <<combo, open, cached>>

(* GetCombo for the strategy; the alias is expanded. *)
GetStrategy(r) ==
  /\ req[r].pc = "strategy"
  /\ LET q == [req[r] EXCEPT
                 !.strategy = combo.strategy,
                 !.effort = ExpandGrokAlias(@, req[r].model)]
     IN  req' = [req EXCEPT ![r] =
                  [q EXCEPT !.pc = IF Chained(q) THEN "snapshot" ELSE "direct"]]
  /\ UNCHANGED <<combo, open, cached>>

(* The key's whitelist does not have the model: 403, and nothing is        *)
(* counted or logged.                                                      *)
NotAllowed(r) ==
  /\ req[r].pc \in {"snapshot", "direct"}
  /\ req' = [req EXCEPT ![r].pc = "done", ![r].status = 403]
  /\ UNCHANGED <<combo, open, cached>>

(* GetCombo for the chain: the zero Combo if it has been deleted. *)
Snapshot(r) ==
  /\ req[r].pc = "snapshot"
  /\ req' = [req EXCEPT
               ![r].chain = combo.models,
               ![r].pc = IF combo.models = <<>> THEN "finish" ELSE "loop"]
  /\ UNCHANGED <<combo, open, cached>>

-----------------------------------------------------------------------------
(* What a dispatch can come to.  "cut" is an answer whose body ended       *)
(* early: the client left, or a timeout that covers the body (300s, for    *)
(* Cloudflare 12s) ran out; what was read is the answer.  "unparsed" is    *)
(* such an answer of Grok in JSON, which is passed on but does not parse.  *)
(* "gone" is a handler that returned without writing, because the client   *)
(* had left before the next attempt; ProxyCloudflare writes an error then. *)
(* "clientError" is any 4xx but 404, "failure" any 5xx.                    *)
Outcomes(q, m) ==
  {"answer", "cut", "clientError", "failure"}
    \cup (IF Upstream(m) # "codebuddy" THEN {"notFound"} ELSE {})
    \cup (IF Upstream(m) = "grok" /\ ~StreamReq(q) THEN {"unparsed"} ELSE {})
    \cup (IF ClientsCancel /\ Upstream(m) # "cloudflare" THEN {"gone"}
                                                         ELSE {})

StatusOf(o) ==
  CASE o \in {"answer", "cut", "unparsed", "gone"} -> 200
    [] o = "clientError" -> 400
    [] o = "notFound" -> 404
    [] o = "failure" -> 503

BodyOf(o) ==
  CASE o = "answer" -> "complete"
    [] o = "cut" -> "partial"
    [] OTHER -> "error"

(* dispatch: response_body in the gin context keeps what an earlier        *)
(* dispatch of the same request put there unless it is set again.          *)
dispatch(q, m, o) ==
  [q EXCEPT
     !.model = m,
     !.upstreamName = Upstream(m),
     !.effort = ExpandGrokAlias(@, m),
     !.tried = Append(@, [model |-> m, status |-> StatusOf(o),
                          effort |-> ExpandGrokAlias(q.effort, m)]),
     !.status = StatusOf(o),
     !.body = IF o \in {"gone", "unparsed"} THEN @ ELSE BodyOf(o)]

Retryable(status) == status >= 500 \/ status = 404

(* Mutants of TryCandidate: the last model is never tried; the same one is *)
(* tried again and again.                                                  *)
TryCandidate_MissesLast(r) ==
  /\ req[r].pc = "loop"
  /\ LET m == req[r].chain[Len(req[r].tried) + 1]
     IN  \E o \in Outcomes(req[r], m) :
           LET q == dispatch(req[r], m, o)
           IN  req' = [req EXCEPT ![r] =
                 [q EXCEPT !.pc = IF /\ Retryable(q.status)
                                     /\ Len(q.tried) + 1 < Len(q.chain)
                                  THEN "loop" ELSE "finish"]]
  /\ UNCHANGED <<combo, open, cached>>

TryCandidate_SameAgain(r) ==
  /\ req[r].pc = "loop"
  /\ LET m == req[r].chain[Len(req[r].tried) + 1]
     IN  \E o \in Outcomes(req[r], m) :
           LET q == dispatch(req[r], m, o)
           IN  req' = [req EXCEPT ![r] =
                 IF Retryable(q.status)
                 THEN [q EXCEPT !.tried = req[r].tried]
                 ELSE [q EXCEPT !.pc = "finish"]]
  /\ UNCHANGED <<combo, open, cached>>

(* One turn of the fallback loop over the chain. *)
TryCandidate(r) ==
  /\ req[r].pc = "loop"
  /\ LET m == req[r].chain[Len(req[r].tried) + 1]
     IN  \E o \in Outcomes(req[r], m) :
           LET q == dispatch(req[r], m, o)
           IN  req' = [req EXCEPT ![r] =
                 [q EXCEPT !.pc = IF /\ Retryable(q.status)
                                     /\ Len(q.tried) < Len(q.chain)
                                  THEN "loop" ELSE "finish"]]
  /\ UNCHANGED <<combo, open, cached>>

(* One dispatch: streams, and strategies without a retry chain. *)
Direct(r) ==
  /\ req[r].pc = "direct"
  /\ \E o \in Outcomes(req[r], req[r].model) :
       req' = [req EXCEPT ![r] = [dispatch(req[r], req[r].model, o)
                                    EXCEPT !.pc = "finish"]]
  /\ UNCHANGED <<combo, open, cached>>

(* Mutant of Finish: the body is cached whatever the status. *)
Finish_CachesErrors(r) ==
  /\ req[r].pc = "finish"
  /\ cached' = IF ~StreamReq(req[r]) /\ req[r].body # "none"
               THEN req[r].body ELSE cached
  /\ req' = [req EXCEPT ![r].pc = "done"]
  /\ UNCHANGED <<combo, open>>

(* The answer is flushed, and the request counted, cached and logged. *)
Finish(r) ==
  /\ req[r].pc = "finish"
  /\ cached' = IF /\ ~StreamReq(req[r])
                  /\ req[r].status = 200
                  /\ req[r].body # "none"
               THEN req[r].body ELSE cached
  /\ req' = [req EXCEPT ![r].pc = "done"]
  /\ UNCHANGED <<combo, open>>

Leave(r) ==
  /\ req[r].pc = "done"
  /\ req' = [req EXCEPT ![r] = Idle]
  /\ UNCHANGED <<combo, open, cached>>

-----------------------------------------------------------------------------
(* The operator; what a failed write to Redis leaves unchanged is not a    *)
(* step here.                                                              *)
AddCombo ==
  /\ combo' \in Combos \ {combo}
  /\ UNCHANGED <<open, cached, req>>

DeleteCombo ==
  /\ combo # Deleted
  /\ combo' = Deleted
  /\ UNCHANGED <<open, cached, req>>

HandleAddCombo == AddCombo
HandleDeleteCombo == DeleteCombo

(* A breaker opens, or leaves OPEN. *)
CircuitChanges ==
  /\ \E u \in Upstreams :
       open' = IF u \in open THEN open \ {u} ELSE open \cup {u}
  /\ UNCHANGED <<combo, cached, req>>

(* The entry's five minutes are over, or it was evicted. *)
Expire ==
  /\ cached # "none"
  /\ cached' = "none"
  /\ UNCHANGED <<combo, open, req>>

Proceed(r) ==
  \/ ResolveCombo(r) \/ GetStrategy(r) \/ NotAllowed(r) \/ Snapshot(r)
  \/ TryCandidate(r) \/ Direct(r) \/ Finish(r)

Next ==
  \/ \E r \in Requests : Arrive(r) \/ Proceed(r) \/ Leave(r)
  \/ HandleAddCombo \/ HandleDeleteCombo \/ CircuitChanges \/ Expire

Spec == Init /\ [][Next]_vars

(* A handler that started runs on: every dispatch is bounded by client     *)
(* timeouts.                                                               *)
FairSpec == Spec /\ \A r \in Requests : WF_vars(Proceed(r))

-----------------------------------------------------------------------------
(* A request with a retry chain tries the models of the combo it           *)
(* snapshotted in order, each once; it goes on after a 5xx or a 404 and    *)
(* only then; and a client is told of such a failure only when the whole   *)
(* chain failed, however often the operator edits the combo meanwhile      *)
(* (ProxyRequest, the fallback loop).                                      *)
FallbackExhaustsChain ==
  \A r \in Requests :
    LET q == req[r]
        n == Len(q.tried)
    IN  q.chain # <<>> =>
          /\ n <= Len(q.chain)
          /\ \A i \in 1..n : q.tried[i].model = q.chain[i]
          /\ \A i \in 1..(n - 1) : Retryable(q.tried[i].status)
          /\ q.pc = "finish" /\ Retryable(q.status) => n = Len(q.chain)

(* Streams are dispatched at most once, whatever the strategy becomes      *)
(* between the registry reads: what the first upstream sent cannot be      *)
(* taken back (ProxyRequest, clientStream).                                *)
StreamsSentOnce ==
  \A r \in Requests : ClientStream(req[r]) => Len(req[r].tried) <= 1

(* The body of an error gets into the cache only from a request that fell  *)
(* back: status and body of a request with one dispatch belong together,   *)
(* whatever the strategy, the clients and the circuits do, and whatever    *)
(* was cached before (ProxyRequest, cacheKey).                             *)
ErrorsCachedOnlyAfterFallback ==
  [][cached # "error" /\ cached' = "error" =>
       \E r \in Requests : req[r].pc = "finish" /\ Len(req[r].tried) > 1]_vars

(* proxy.go:685, "semantic cache store (non-stream 2xx)": the body of an   *)
(* error is never cached.                                                  *)
CachedBodyNoError == cached # "error"

(* The reasoning effort a client asked for reaches every model its request *)
(* is tried on, whatever aliases the chain has (ProxyRequest, alias        *)
(* expansion before the routing and again for each candidate).             *)
GivenEffortKept ==
  \A r \in Requests : req[r].given =>
    \A i \in 1..Len(req[r].tried) : req[r].tried[i].effort = "medium"

(* Every request that arrived is done eventually (ProxyRequest). *)
EveryRequestEnds ==
  \A r \in Requests : (req[r].pc # "idle") ~> (req[r].pc = "done")
=============================================================================
