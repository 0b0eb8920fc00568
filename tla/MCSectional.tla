---------------------------- MODULE MCSectional -----------------------------
(***************************************************************************)
(* Small instances of a streamed piece for TLC.                            *)
(***************************************************************************)
EXTENDS Sectional

\* One section that needs three chunks, and two sections beyond the limit.
TwoPlans == {<<9>>, <<3, 8>>}

=============================================================================
