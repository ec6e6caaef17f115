------------------------- MODULE MCOverlayPresenter -------------------------
(***************************************************************************)
(* OverlayPresenter for TLC.  The tabs are interchangeable, and so are the *)
(* requests; the runs that check liveness do not use the symmetry.         *)
(***************************************************************************)
EXTENDS OverlayPresenter

Symmetry == Permutations(WebStates) \cup Permutations(Requests)

=============================================================================
