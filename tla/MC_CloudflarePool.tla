------------------------ MODULE MC_CloudflarePool ------------------------
(* Instances of CloudflarePool for TLC: accounts with the smallest limit,  *)
(* and accounts without a known one, as the gateway adds them.  Handlers   *)
(* are interchangeable.                                                    *)
EXTENDS CloudflarePool, TLC

KnownLimits == [Accounts -> {1}]
UnknownLimits == [Accounts -> {0}]
Symm == Permutations(Handlers)
=============================================================================
