-------------------------- MODULE MC_ComboRouting --------------------------
(* Instances of ComboRouting for TLC.  CodeBuddy may fail, and every       *)
(* strategy has a model on it; the least_used combo loses that model and   *)
(* gets it back by edits.                                                  *)
EXTENDS ComboRouting

MCKind == [gpt |-> "cb", llama |-> "@cf", grok |-> "grok"]
MCModels == DOMAIN MCKind

RoundRobin == [strategy |-> "round_robin", models |-> <<"gpt", "llama">>]
LeastUsed == [strategy |-> "least_used", models |-> <<"gpt", "llama">>]
Shortened == [strategy |-> "least_used", models |-> <<"llama">>]
Auto == [strategy |-> "auto", models |-> <<"gpt", "llama">>]

RotatingCombos == {RoundRobin, LeastUsed, Shortened}
RotatingEdits == {<<LeastUsed, Shortened>>, <<Shortened, LeastUsed>>}
SmartCombos == {Auto}
=============================================================================
