---------------------------- MODULE MCCreditWallet --------------------------
(***************************************************************************)
(* Small instances of the wallet for TLC.                                  *)
(***************************************************************************)
EXTENDS CreditWallet, TLC

CONSTANTS u1, u2, h1, h2, k1, k2, p1, p2

OneUser == {u1}
TwoUsers == {u1, u2}
OneHold == {h1}
TwoHolds == {h1, h2}
TwoKeys == {k1, k2}
OneRef == {p1}
TwoRefs == {p1, p2}

\* A grant, and the reversal of part of one.
GrantAndReversal == {2, -1}

\* Charges below, at and above the reservation they settle; a settled charge
\* of zero is a delivered turn that cost nothing.
ZeroToTwo == 0 .. 2

\* Keys and references carry no meaning beyond their identity.
KeySymmetry == Permutations(HoldKeys) \cup Permutations(LedgerKeys)
                 \cup Permutations(Refs) \cup Permutations(Users)

=============================================================================
