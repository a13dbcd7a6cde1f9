-------------------------- MODULE MC_ProxyRequest --------------------------
(* Instances of ProxyRequest for TLC: two grok aliases, a CodeBuddy model  *)
(* and two names of Cloudflare models, in combos of every kind of          *)
(* strategy: with a retry chain, rotating, smart and plain.                *)
EXTENDS ProxyRequest

MCKind == [high |-> "grok", low |-> "grok", gpt |-> "cb", llama |-> "@cf",
           qwen |-> "cf"]
MCModels == DOMAIN MCKind
MCAliasEffort ==
  [m \in MCModels |-> CASE m = "high" -> "high"
                        [] m = "low" -> "low"
                        [] OTHER -> "none"]

Combo(s, ms) == [strategy |-> s, models |-> ms]

Chains == {Combo("fallback", <<"high", "low", "llama">>),
           Combo("fill_first", <<"gpt", "qwen">>)}
Others == {Combo("auto", <<"llama", "gpt">>),
           Combo("round_robin", <<"gpt", "high">>),
           Combo("latency", <<"qwen", "low">>),
           Combo("throughput", <<"gpt", "llama">>)}
MCCombos == Chains \cup Others
=============================================================================
