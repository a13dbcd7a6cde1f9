---------------------------- MODULE MC_Services ----------------------------
(***************************************************************************)
(* The services beside the chat pipeline, for TLC.  They share no state in *)
(* the code as far as the modules model it, so a behaviour of this module  *)
(* is a behaviour of one of them, chosen at the start, while the others    *)
(* stay in their initial states; every property of each is checked.        *)
(***************************************************************************)
EXTENDS MC_AnthropicStream, AnthropicRequest, GrokAccount, OutboundPool, GatewayKeys, LogQueue,
        TunnelManager, SemanticCache, RateLimit, LoginLimit, CustomRegistry

MCContents ==
  {<<Text>>, <<Other>>, <<Text, EmptyText>>, <<ToolUse(1)>>, <<Text, ToolUse(1)>>,
   <<ToolUse(1), ToolUse(2)>>, <<ToolUse(2)>>, <<ToolResult(1)>>, <<ToolResult(1), Text>>,
   <<ToolResult(2), ToolResult(1)>>, <<Text, ToolResult(1), ToolResult(2)>>,
   <<ToolResult(2), EmptyText>>}
MCOverrides == {NoOverride, Override(0, 0), Override(1, 3), Override(2, 1)}

VARIABLE part    \* the service that runs

Parts == {"stream", "request", "grok", "proxies", "keys", "logs", "tunnel", "cache", "rate", "login", "custom"}

ServicesInit ==
  /\ part \in Parts
  /\ StreamInit
  /\ RequestInit
  /\ GrokInit
  /\ PoolInit
  /\ KeysInit
  /\ LogInit
  /\ TunnelInit
  /\ CacheInit
  /\ RateInit
  /\ LoginInit
  /\ RegistryInit

ServicesNext ==
  \/ /\ part = "stream" /\ StreamNext
     /\ UNCHANGED part /\ UNCHANGED <<requestVars, grokVars, poolVars, keyVars, logVars, tunnelVars,
                          cacheVars, rateVars, loginVars, registryVars>>
  \/ /\ part = "request" /\ RequestNext
     /\ UNCHANGED part /\ UNCHANGED <<streamVars, grokVars, poolVars, keyVars, logVars, tunnelVars,
                          cacheVars, rateVars, loginVars, registryVars>>
  \/ /\ part = "grok" /\ GrokNext
     /\ UNCHANGED part /\ UNCHANGED <<streamVars, requestVars, poolVars, keyVars, logVars, tunnelVars,
                          cacheVars, rateVars, loginVars, registryVars>>
  \/ /\ part = "proxies" /\ PoolNext
     /\ UNCHANGED part /\ UNCHANGED <<streamVars, requestVars, grokVars, keyVars, logVars, tunnelVars,
                          cacheVars, rateVars, loginVars, registryVars>>
  \/ /\ part = "keys" /\ KeysNext
     /\ UNCHANGED part /\ UNCHANGED <<streamVars, requestVars, grokVars, poolVars, logVars, tunnelVars,
                          cacheVars, rateVars, loginVars, registryVars>>
  \/ /\ part = "logs" /\ LogNext
     /\ UNCHANGED part /\ UNCHANGED <<streamVars, requestVars, grokVars, poolVars, keyVars, tunnelVars,
                          cacheVars, rateVars, loginVars, registryVars>>
  \/ /\ part = "tunnel" /\ TunnelNext
     /\ UNCHANGED part /\ UNCHANGED <<streamVars, requestVars, grokVars, poolVars, keyVars, logVars,
                          cacheVars, rateVars, loginVars, registryVars>>
  \/ /\ part = "cache" /\ CacheNext
     /\ UNCHANGED part /\ UNCHANGED <<streamVars, requestVars, grokVars, poolVars, keyVars, logVars,
                          tunnelVars, rateVars, loginVars, registryVars>>
  \/ /\ part = "rate" /\ RateNext
     /\ UNCHANGED part /\ UNCHANGED <<streamVars, requestVars, grokVars, poolVars, keyVars, logVars,
                          tunnelVars, cacheVars, loginVars, registryVars>>
  \/ /\ part = "login" /\ LoginNext
     /\ UNCHANGED part /\ UNCHANGED <<streamVars, requestVars, grokVars, poolVars, keyVars, logVars,
                          tunnelVars, cacheVars, rateVars, registryVars>>
  \/ /\ part = "custom" /\ RegistryNext
     /\ UNCHANGED part /\ UNCHANGED <<streamVars, requestVars, grokVars, poolVars, keyVars, logVars,
                          tunnelVars, cacheVars, rateVars, loginVars>>

allVars == <<part, streamVars, requestVars, grokVars, poolVars, keyVars, logVars,
             tunnelVars, cacheVars, rateVars, loginVars, registryVars>>
ServicesSpec == ServicesInit /\ [][ServicesNext]_allVars

\* Every service keeps the types of its state (the buffers of LogRequest, the
\* bucket of AllowWithLimit, the commands of the tunnel manager, ...).
ServicesTypeOK ==
  /\ part = "stream" => StreamTypeOK
  /\ part = "request" => RequestTypeOK
  /\ part = "grok" => GrokTypeOK
  /\ part = "proxies" => PoolTypeOK
  /\ part = "keys" => KeysTypeOK
  /\ part = "logs" => LogTypeOK
  /\ part = "tunnel" => TunnelTypeOK
  /\ part = "cache" => CacheTypeOK
  /\ part = "rate" => RateTypeOK
  /\ part = "login" => LoginTypeOK
  /\ part = "custom" => RegistryTypeOK

\* The state of the service that runs; the others do not change.
ServicesView ==
  CASE part = "stream" -> <<part, streamVars>>
    [] part = "request" -> <<part, requestVars>>
    [] part = "grok" -> <<part, grokVars>>
    [] part = "proxies" -> <<part, poolVars>>
    [] part = "keys" -> <<part, keyVars>>
    [] part = "logs" -> <<part, logVars>>
    [] part = "tunnel" -> <<part, tunnelVars>>
    [] part = "cache" -> <<part, cacheVars>>
    [] part = "rate" -> <<part, rateVars>>
    [] part = "login" -> <<part, loginVars>>
    [] part = "custom" -> <<part, registryVars>>
=============================================================================
