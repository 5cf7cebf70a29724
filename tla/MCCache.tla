------------------------------ MODULE MCCache ------------------------------
(***************************************************************************)
(* Requests of users and of nodes on one runtime cache.                    *)
(***************************************************************************)
EXTENDS Tokens, Devices, TLC

MCTtl == [temp |-> 1, code |-> 2, last |-> 1, rate |-> 1, limit |-> 2, otp |-> 2, setting |-> 2]
MCKeys == TokenKeys \cup DeviceKeys
MCBudget == [accounts |-> 3, logins |-> 4, devices |-> 3]
MCSecrets == 1..MaxRequests

CONSTANT
  Budget  \* bound on the requests of each group

VARIABLE
  menu  \* bound: the requests of a behaviour belong to one group

vars == <<cacheVars, tokenVars, heard, menu>>

Init ==
  /\ CacheInit /\ TokenInit /\ DeviceInit
  /\ menu \in DOMAIN Budget

TokenMenu ==
  /\ menu \in {"accounts", "logins"}
  /\ \/ \E s \in Sessions : \/ (menu = "accounts" /\ AccountStart(s))
                            \/ (menu = "logins" /\ LoginStart(s))
                            \/ TokenStep(s)
     \/ (menu = "logins" /\ TokenAdmin)
     \/ TokenOther
  /\ UNCHANGED heard

DeviceMenu == menu = "devices" /\ DeviceNext /\ UNCHANGED tokenVars

Next == (TokenMenu \/ DeviceMenu) /\ requests' <= Budget[menu] /\ UNCHANGED menu

Spec == Init /\ [][Next]_vars

Symmetry == Permutations(Sessions) \cup Permutations(Newcomers) \cup Permutations(Nodes) \cup Permutations(Limited)
=============================================================================
