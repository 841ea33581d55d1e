------------------------------- MODULE MCTree -------------------------------
(***************************************************************************)
(* Model of Tree for TLC.  The spaces may be exchanged with one another:   *)
(* no definition tells them apart, and only safety is checked.             *)
(***************************************************************************)
EXTENDS Tree, TLC

SpacesAlike == Permutations(Spaces)

=============================================================================
