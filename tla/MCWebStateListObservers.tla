---------------------- MODULE MCWebStateListObservers ----------------------
(* Small instances of WebStateListObservers for TLC.                       *)
EXTENDS WebStateListObservers

\* The forwarders are told after the agents.
FourObservers == <<"usage", "deps", "all", "active">>

Symmetry == Permutations(WebStates)
=============================================================================
