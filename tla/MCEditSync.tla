----------------------------- MODULE MCEditSync -----------------------------
(***************************************************************************)
(* Small instances of the edit path for TLC.                               *)
(***************************************************************************)
EXTENDS EditSync

CONSTANTS t1, c1, c2

OneTab == {t1}
TwoChats == {c1, c2}

=============================================================================
