------------------------------ MODULE MCPaywall -----------------------------
(***************************************************************************)
(* Small instances of the money path for TLC.                              *)
(***************************************************************************)
EXTENDS Paywall, TLC

CONSTANTS u1, u2, r1, r2, p1

OneUser == {u1}
TwoRequests == {r1, r2}
OneRequest == {r1}
SameOwner == [r \in Requests |-> u1]
RequestLedgerKeys == {"settle", "refund"} \X Requests
OneRef == {p1}
NoUsers == {}

\* Costs below, at and above the hold of two credits.
UpToThree == 0 .. 3
TopUpOfThree == {3}
TopUpOfTwo == {2}

RequestSymmetry == Permutations(Requests)

=============================================================================
