---------------------------- MODULE MCStripeInbox ---------------------------
(***************************************************************************)
(* Small instances of the purchase inbox for TLC.                          *)
(***************************************************************************)
EXTENDS StripeInbox, TLC

CONSTANTS u1, p1, p2, e1, e2, e3

OneUser == {u1}
TwoPayments == {p1, p2}
None == {}
PackOfTwo == {2}

OneBuyer == [e \in Events |-> u1]
PaymentsOfEvents == [e \in Events |-> IF e \in {e1, e2} THEN p1 ELSE p2]

\* Two events of one payment, and one of another type.
ThreeEvents == {e1, e2, e3}
TwoPurchases == [e \in Events |-> IF e = e3 THEN "other" ELSE "purchase"]

\* A purchase, and an event that can never be processed.
PurchaseAndMalformed == {e1, e3}
OneMalformed == [e \in Events |-> IF e = e3 THEN "malformed" ELSE "purchase"]

=============================================================================
