--------------------------- MODULE MCRefreshTokens ---------------------------
(***************************************************************************)
(* Instances of RefreshTokens for TLC.                                     *)
(***************************************************************************)
EXTENDS RefreshTokens, TLC

\* Selectors are interchangeable, and so are the slots of a client.
Symmetry == Permutations(Selectors) \cup Permutations(Slots)

==============================================================================
