-------------------------- MODULE MCSessionService --------------------------
(* SessionService for TLC: windows are interchangeable.                        *)
EXTENDS SessionService, TLC

Symmetry == Permutations(Scenes)
=============================================================================
