-------------------------- MODULE StripeInboxProofs -------------------------
(***************************************************************************)
(* What the purchase inbox promises for any number of events, payments and *)
(* buyers: its audit trail is true, no purchase falls between Stripe's     *)
(* redeliveries and the reconciler, none is credited twice, and an event   *)
(* that ended stays as it ended until it is pruned.                        *)
(***************************************************************************)
EXTENDS StripeInbox, CreditWalletProofs

\* A type of event that is not a purchase is never marked processed, and a
\* purchase is never marked ignored.
KindsMarked ==
  \A e \in Events :
    /\ inbox[e] = "processed" => KindOf[e] = "purchase"
    /\ inbox[e] = "ignored" => KindOf[e] = "other"

\* The grant of a payment belongs to its buyer.
GrantsOfBuyers ==
  \A e \in Events : \A g \in GrantsKeyed(PaymentOf[e]) : g.user = BuyerOf[e]

InboxInv ==
  /\ WalletInv
  /\ InboxTypeOK
  /\ KindsMarked
  /\ GrantsOfBuyers
  /\ ProcessedIsGranted
  /\ NothingForgotten

Outcomes == Terminal \cup {"failed"}

\* Processing an event is one operation of the wallet or none.
LEMMA ProcessStepsWallet ==
  ASSUME NEW e \in Events, NEW s, Process(e, s)
  PROVE  [WalletNext]_walletVars
BY InboxAssumption DEF Process, WalletNext, UserStep

\* An event that comes out processed was a purchase, and is granted to its
\* buyer; processing takes no grant away.
LEMMA ProcessGrants ==
  ASSUME InboxInv, NEW e \in Events, NEW s \in Outcomes, Process(e, s)
  PROVE  /\ s = "processed" => KindOf[e] = "purchase" /\ Granted(PaymentOf[e])'
         /\ s = "ignored" => KindOf[e] = "other"
         /\ purchases \subseteq purchases'
         /\ GrantsOfBuyers'
         /\ accounts' = accounts
<1>1. CASE /\ UNCHANGED walletVars
           /\ \/ s = "ignored" /\ KindOf[e] = "other"
              \/ s = "failed"
              \/ /\ s = "processed" /\ KindOf[e] = "purchase"
                 /\ GrantsKeyed(PaymentOf[e]) # {}
  BY <1>1 DEF walletVars, Granted, GrantsKeyed, InboxInv, GrantsOfBuyers
<1>2. CASE /\ s = "processed" /\ KindOf[e] = "purchase"
           /\ CreditBalance(BuyerOf[e], PackCredits, PaymentOf[e])
  <2>1. BuyerOf[e] \in Users /\ PackCredits \in Nat
    BY InboxAssumption
  <2>2. balance[BuyerOf[e]] + PackCredits >= held[BuyerOf[e]]
    BY <2>1 DEF InboxInv, WalletInv, Solvent, WalletTypeOK
  <2>3. /\ purchases' = purchases \cup
             {[ref |-> PaymentOf[e], user |-> BuyerOf[e], delta |-> PackCredits]}
        /\ accounts' = accounts
    BY <1>2, <2>2 DEF CreditBalance
  <2>4. Granted(PaymentOf[e])'
    <3> DEFINE row == [ref |-> PaymentOf[e], user |-> BuyerOf[e], delta |-> PackCredits]
    <3>1. row \in purchases' /\ row.ref = PaymentOf[e]
      BY <2>3
    <3>2. QED
      BY <3>1 DEF Granted, GrantsKeyed
  <2>5. GrantsOfBuyers'
    BY <2>3, InboxAssumption DEF InboxInv, GrantsOfBuyers, GrantsKeyed
  <2>6. QED
    BY <1>2, <2>3, <2>4, <2>5
<1>3. QED
  BY <1>1, <1>2 DEF Process

LEMMA InboxStepsWallet ==
  ASSUME InboxTypeOK, [InboxNext]_stripeVars
  PROVE  [WalletNext]_walletVars
<1>1. ASSUME NEW e \in Events, Deliver(e) \/ DeliverCutShort(e)
      PROVE  [WalletNext]_walletVars
  BY <1>1, ProcessStepsWallet DEF Deliver, DeliverCutShort
<1>2. ASSUME NEW e \in Events, NEW s \in Outcomes, SweepRow(e, s)
      PROVE  [WalletNext]_walletVars
  BY <1>2, ProcessStepsWallet DEF SweepRow
<1>3. ASSUME SweepCutShort
      PROVE  [WalletNext]_walletVars
  BY <1>3, ProcessStepsWallet DEF SweepCutShort, InboxTypeOK
<1>4. SweepStart \/ Prune => UNCHANGED walletVars
  BY DEF SweepStart, Prune
<1>5. EraseBuyer \/ Clock => WalletNext
  BY DEF EraseBuyer, Clock, WalletNext, UserStep
<1>6. QED
  BY <1>1, <1>2, <1>3, <1>4, <1>5 DEF InboxNext, Outcomes, stripeVars

LEMMA InboxTypeStep ==
  ASSUME WalletTypeOK, InboxTypeOK, [InboxNext]_stripeVars
  PROVE  InboxTypeOK'
<1> USE DEF InboxTypeOK, Terminal, WalletTypeOK
<1>1. ASSUME NEW e \in Events, NEW s \in Outcomes, Mark(e, s)
      PROVE  /\ inbox' \in [Events -> {"none", "received", "failed"} \cup Terminal]
             /\ processedAt' \in [Events -> 0 .. MaxTime]
  BY <1>1 DEF Mark, Outcomes
<1>2. ASSUME NEW e \in Events, Deliver(e)
      PROVE  InboxTypeOK'
  BY <1>1, <1>2 DEF Deliver, Outcomes
<1>3. ASSUME NEW e \in Events, DeliverCutShort(e)
      PROVE  InboxTypeOK'
  BY <1>3 DEF DeliverCutShort, Recorded
<1>4. ASSUME NEW e \in Events, NEW s \in Outcomes, SweepRow(e, s)
      PROVE  InboxTypeOK'
  BY <1>1, <1>4 DEF SweepRow
<1>5. SweepStart => InboxTypeOK'
  BY DEF SweepStart, Stuck
<1>6. SweepCutShort => InboxTypeOK'
  BY DEF SweepCutShort
<1>7. Prune => InboxTypeOK'
  BY DEF Prune
<1>8. EraseBuyer \/ Clock \/ UNCHANGED stripeVars => InboxTypeOK'
  BY DEF EraseBuyer, Clock, inboxVars, stripeVars
<1>9. QED
  BY <1>2, <1>3, <1>4, <1>5, <1>6, <1>7, <1>8 DEF InboxNext, Outcomes

\* What the properties say of event f.
Traced(f) ==
  /\ inbox[f] = "processed" => KindOf[f] = "purchase"
  /\ inbox[f] = "ignored" => KindOf[f] = "other"
  /\ Buyable(f) /\ inbox[f] = "processed" => Granted(PaymentOf[f])
  /\ Buyable(f) /\ ~Granted(PaymentOf[f]) => f \in unanswered \cup Stuck

\* An event processed to its end stays traced, and so do the others, whose
\* grants are not touched.
LEMMA MarkedIsTraced ==
  ASSUME InboxInv, NEW e \in Events, NEW s \in Outcomes, Process(e, s), Mark(e, s),
         unanswered' \in {unanswered, unanswered \ {e}}, NEW f \in Events
  PROVE  Traced(f)'
<1> USE DEF InboxInv, InboxTypeOK
<1>1. /\ s = "processed" => KindOf[e] = "purchase" /\ Granted(PaymentOf[e])'
      /\ s = "ignored" => KindOf[e] = "other"
      /\ purchases \subseteq purchases'
      /\ accounts' = accounts
  BY ProcessGrants
<1>2. Granted(PaymentOf[f]) => Granted(PaymentOf[f])'
  BY <1>1 DEF Granted, GrantsKeyed
<1>3. Traced(f) /\ Traced(e)
  BY DEF Traced, KindsMarked, ProcessedIsGranted, NothingForgotten
<1>4. Buyable(f)' = Buyable(f)
  BY <1>1 DEF Buyable
<1>5. CASE s = "failed" /\ inbox[e] \in Terminal
  <2>1. inbox' = inbox
    BY <1>5 DEF Mark
  <2>2. Stuck' = Stuck /\ e \notin Stuck
    BY <1>5, <2>1 DEF Stuck, Terminal
  <2>3. Buyable(e) => Granted(PaymentOf[e])
    BY <1>3, <1>5 DEF Traced, Terminal, Buyable
  <2>4. QED
    BY <1>2, <1>3, <1>4, <2>1, <2>2, <2>3 DEF Traced
<1>6. CASE ~(s = "failed" /\ inbox[e] \in Terminal)
  <2>1. inbox' = [inbox EXCEPT ![e] = s]
    BY <1>6 DEF Mark
  <2>2. CASE f = e
    BY <1>1, <2>1, <2>2 DEF Traced, Stuck, Outcomes, Terminal, Buyable
  <2>3. CASE f # e
    BY <1>2, <1>3, <1>4, <2>1, <2>3 DEF Traced, Stuck
  <2>4. QED
    BY <2>2, <2>3
<1>7. QED
  BY <1>5, <1>6

LEMMA TracedStep ==
  ASSUME InboxInv, [InboxNext]_stripeVars
  PROVE  (KindsMarked /\ GrantsOfBuyers /\ ProcessedIsGranted /\ NothingForgotten)'
<1> USE DEF InboxInv, InboxTypeOK
<1> DEFINE Goal == (\A f \in Events : Traced(f)') /\ GrantsOfBuyers'
<1>0. \A f \in Events : Traced(f)
  BY DEF Traced, KindsMarked, ProcessedIsGranted, NothingForgotten
<1>1. ASSUME NEW e \in Events, Deliver(e)
      PROVE  Goal
  <2>1. CASE inbox[e] \in Terminal /\ UNCHANGED <<walletVars, inbox, processedAt>>
    <3>1. unanswered' = unanswered \ {e} /\ e \notin Stuck
      BY <1>1, <2>1 DEF Deliver, Stuck, Terminal
    <3>2. Buyable(e) => Granted(PaymentOf[e])
      BY <1>0, <2>1 DEF Traced, Terminal, Buyable
    <3>3. QED
      BY <1>0, <2>1, <3>1, <3>2
         DEF Traced, Stuck, Buyable, Granted, GrantsKeyed, GrantsOfBuyers, walletVars
  <2>2. CASE \E s \in Outcomes : Process(e, s) /\ Mark(e, s)
    BY <1>1, <2>2, MarkedIsTraced, ProcessGrants DEF Deliver
  <2>3. QED
    BY <1>1, <2>1, <2>2 DEF Deliver, Outcomes
<1>2. ASSUME NEW e \in Events, DeliverCutShort(e)
      PROVE  Goal
  <2>1. purchases \subseteq purchases' /\ accounts' = accounts /\ GrantsOfBuyers'
    BY <1>2, ProcessGrants
       DEF DeliverCutShort, Outcomes, Terminal, walletVars, GrantsOfBuyers, GrantsKeyed
  <2>2. inbox' = Recorded(e) /\ unanswered' = unanswered
    BY <1>2 DEF DeliverCutShort
  <2>3. \A f \in Events : /\ Granted(PaymentOf[f]) => Granted(PaymentOf[f])'
                          /\ Buyable(f)' = Buyable(f)
    BY <2>1 DEF Granted, GrantsKeyed, Buyable
  <2>4. \A f \in Events : f \in Stuck => f \in Stuck'
    BY <2>2 DEF Stuck, Recorded
  <2>5. QED
    BY <1>0, <2>1, <2>2, <2>3, <2>4 DEF Traced, Recorded
<1>3. ASSUME NEW e \in Events, NEW s \in Outcomes, SweepRow(e, s)
      PROVE  Goal
  BY <1>3, MarkedIsTraced, ProcessGrants DEF SweepRow
<1>4. ASSUME SweepCutShort
      PROVE  Goal
  <2>1. purchases \subseteq purchases' /\ accounts' = accounts /\ GrantsOfBuyers'
    BY <1>4, ProcessGrants
       DEF SweepCutShort, Outcomes, Terminal, walletVars, GrantsOfBuyers, GrantsKeyed
  <2>2. UNCHANGED <<inbox, unanswered>>
    BY <1>4 DEF SweepCutShort
  <2>3. QED
    BY <1>0, <2>1, <2>2 DEF Traced, Granted, GrantsKeyed, Buyable, Stuck
<1>5. ASSUME Prune
      PROVE  Goal
  <2>1. UNCHANGED <<purchases, accounts, unanswered>>
    BY <1>5 DEF Prune, walletVars
  <2>2. \A f \in Events : inbox'[f] = IF f \in Aged THEN "none" ELSE inbox[f]
    BY <1>5 DEF Prune
  <2>3. \A f \in Events : f \in Stuck => f \in Stuck'
    BY <2>2 DEF Stuck, Aged, Terminal
  <2>4. QED
    BY <1>0, <2>1, <2>2, <2>3 DEF Traced, Granted, GrantsKeyed, Buyable, GrantsOfBuyers
<1>6. ASSUME EraseBuyer
      PROVE  Goal
  <2>1. PICK u \in Users : EraseUser(u)
    BY <1>6 DEF EraseBuyer
  <2>2. UNCHANGED <<inbox, unanswered>>
    BY <1>6 DEF EraseBuyer, inboxVars
  <2>3. \A f \in Events : Buyable(f)' => Buyable(f) /\ BuyerOf[f] # u
    BY <2>1 DEF Buyable, EraseUser
  <2>4. \A f \in Events : BuyerOf[f] # u /\ Granted(PaymentOf[f]) => Granted(PaymentOf[f])'
    BY <2>1 DEF EraseUser, Granted, GrantsKeyed, GrantsOfBuyers
  <2>5. GrantsOfBuyers'
    BY <2>1 DEF EraseUser, GrantsOfBuyers, GrantsKeyed
  <2>6. QED
    BY <1>0, <2>2, <2>3, <2>4, <2>5 DEF Traced, Stuck
<1>7. SweepStart \/ Clock \/ UNCHANGED stripeVars => Goal
  BY <1>0 DEF SweepStart, Clock, Tick, inboxVars, walletVars, stripeVars,
       Traced, Granted, GrantsKeyed, Buyable, Stuck, GrantsOfBuyers
<1>8. Goal
  BY <1>1, <1>2, <1>3, <1>4, <1>5, <1>6, <1>7 DEF InboxNext, Outcomes
<1>9. QED
  BY <1>8 DEF Traced, KindsMarked, ProcessedIsGranted, NothingForgotten, Buyable

THEOREM InboxInvariant == InboxSpec => []InboxInv
<1>1. InboxInit => InboxInv
  <2>1. InboxInit => WalletTypeOK /\ FiniteTables
    BY FS_EmptySet, WalletAssumption
       DEF InboxInit, WalletInit, WalletTypeOK, FiniteTables
  <2>2. QED
    BY <2>1, SolvencyInit, WalletAssumption
       DEF InboxInit, InboxInv, WalletInv, WalletInit, InboxTypeOK, KindsMarked,
           GrantsOfBuyers, GrantsKeyed, ProcessedIsGranted, NothingForgotten
<1>2. InboxInv /\ [InboxNext]_stripeVars => InboxInv'
  <2> SUFFICES ASSUME InboxInv, [InboxNext]_stripeVars
               PROVE  InboxInv'
    OBVIOUS
  <2>1. [WalletNext]_walletVars
    BY InboxStepsWallet DEF InboxInv
  <2>2. WalletInv'
    BY <2>1, TypeStep, TablesStep, SolvencyStep DEF InboxInv, WalletInv
  <2>3. QED
    BY <2>2, InboxTypeStep, TracedStep DEF InboxInv, WalletInv
<1>3. QED
  BY <1>1, <1>2, PTL DEF InboxSpec

\* The audit trail of the inbox is true: what it calls processed is granted.
COROLLARY InboxTellsTheTruth == InboxSpec => []ProcessedIsGranted
BY InboxInvariant, PTL DEF InboxInv

\* A purchase that is not granted yet is still owed by Stripe or in sight of
\* the reconciler.
COROLLARY InboxForgetsNothing == InboxSpec => []NothingForgotten
BY InboxInvariant, PTL DEF InboxInv

\* A terminal event is not marked again: a sweep that meets it can only fail
\* on it or come to the same outcome, and the pruner waits for the retention.
THEOREM InboxKeepsOutcomes == InboxSpec => TerminalStays
<1> DEFINE Kept(e) == inbox[e] \in Terminal /\ inbox'[e] # inbox[e] =>
                        inbox'[e] = "none" /\ processedAt[e] + Retention < now
<1>1. ASSUME InboxInv, InboxNext, NEW e \in Events
      PROVE  Kept(e)
  <2> USE DEF InboxInv, InboxTypeOK, Terminal
  <2>1. ASSUME NEW f \in Events, Deliver(f) \/ DeliverCutShort(f)
        PROVE  Kept(e)
    BY <1>1, <2>1 DEF Deliver, DeliverCutShort, Mark, Recorded
  <2>2. ASSUME NEW f \in Events, NEW s \in Outcomes, SweepRow(f, s)
        PROVE  Kept(e)
    <3>1. CASE f = e /\ inbox[e] \in Terminal /\ s # "failed"
      <4>1. inbox'[e] = s
        BY <1>1, <2>2, <3>1 DEF SweepRow, Mark
      <4>2. inbox[e] = s
        BY <1>1, <2>2, <3>1 DEF SweepRow, Process, KindsMarked, Outcomes
      <4>3. QED
        BY <4>1, <4>2
    <3>2. CASE f # e \/ inbox[e] \notin Terminal \/ s = "failed"
      BY <1>1, <2>2, <3>2 DEF SweepRow, Mark
    <3>3. QED
      BY <3>1, <3>2
  <2>3. ASSUME Prune
        PROVE  Kept(e)
    <3>1. inbox'[e] = IF e \in Aged THEN "none" ELSE inbox[e]
      BY <2>3 DEF Prune
    <3>2. e \in Aged => processedAt[e] + Retention < now
      BY <1>1, InboxAssumption, WalletAssumption DEF Aged, WalletInv, WalletTypeOK
    <3>3. QED
      BY <3>1, <3>2
  <2>4. SweepStart \/ SweepCutShort \/ EraseBuyer \/ Clock => Kept(e)
    BY DEF SweepStart, SweepCutShort, EraseBuyer, Clock, inboxVars
  <2>5. QED
    BY <1>1, <2>1, <2>2, <2>3, <2>4 DEF InboxNext, Outcomes
<1>2. InboxInv /\ [InboxNext]_stripeVars => [\A e \in Events : Kept(e)]_stripeVars
  BY <1>1
<1>3. QED
  BY <1>2, InboxInvariant, PTL DEF InboxSpec, TerminalStays

-----------------------------------------------------------------------------
(* What the payments add up to *)

PaidBy(u) == {p \in {PaymentOf[e] : e \in Purchases} : \E g \in GrantsKeyed(p) : g.user = u}

CreditInv ==
  /\ InboxInv
  /\ \A u \in Users : IsFiniteSet(PaidBy(u))
  /\ CreditedOncePerPayment

PurchaseRow(e) == [ref |-> PaymentOf[e], user |-> BuyerOf[e], delta |-> PackCredits]

\* A grant: only of a payment that was not granted.
GrantsOnce(e) ==
  /\ GrantsKeyed(PaymentOf[e]) = {}
  /\ balance' = [balance EXCEPT ![BuyerOf[e]] = @ + PackCredits]
  /\ purchases' = purchases \cup {PurchaseRow(e)}

LEMMA ProcessCredits ==
  ASSUME InboxInv, NEW e \in Events, NEW s, Process(e, s)
  PROVE  UNCHANGED <<balance, purchases>> \/ (e \in Purchases /\ GrantsOnce(e))
<1>1. BuyerOf[e] \in Users /\ PackCredits \in Nat
  BY InboxAssumption
<1>2. balance[BuyerOf[e]] + PackCredits >= held[BuyerOf[e]]
  BY <1>1 DEF InboxInv, WalletInv, Solvent, WalletTypeOK
<1>3. QED
  BY <1>2 DEF Process, CreditBalance, Purchases, GrantsOnce, PurchaseRow, walletVars

\* What a step of the inbox may do to a balance.
LEMMA InboxCredits ==
  ASSUME InboxInv, [InboxNext]_stripeVars
  PROVE  \/ UNCHANGED <<balance, purchases>>
         \/ \E e \in Purchases : GrantsOnce(e)
         \/ \E u \in Users : EraseUser(u)
<1>1. ASSUME NEW e \in Events, NEW s, Process(e, s)
      PROVE  UNCHANGED <<balance, purchases>> \/ (\E f \in Purchases : GrantsOnce(f))
  BY <1>1, ProcessCredits
<1>2. ASSUME NEW e \in Events, Deliver(e) \/ DeliverCutShort(e)
      PROVE  UNCHANGED <<balance, purchases>> \/ (\E f \in Purchases : GrantsOnce(f))
  BY <1>1, <1>2 DEF Deliver, DeliverCutShort, walletVars
<1>3. ASSUME NEW e \in Events, NEW s, SweepRow(e, s)
      PROVE  UNCHANGED <<balance, purchases>> \/ (\E f \in Purchases : GrantsOnce(f))
  BY <1>1, <1>3 DEF SweepRow
<1>4. ASSUME SweepCutShort
      PROVE  UNCHANGED <<balance, purchases>> \/ (\E f \in Purchases : GrantsOnce(f))
  BY <1>1, <1>4 DEF SweepCutShort, walletVars, InboxInv, InboxTypeOK
<1>5. SweepStart \/ Prune \/ Clock \/ UNCHANGED stripeVars
        => UNCHANGED <<balance, purchases>>
  BY DEF SweepStart, Prune, Clock, Tick, stripeVars, walletVars
<1>6. QED
  BY <1>2, <1>3, <1>4, <1>5 DEF InboxNext, EraseBuyer

\* One grant more is one payment more.
LEMMA GrantPays ==
  ASSUME CreditInv, NEW e \in Purchases, GrantsOnce(e), NEW u \in Users
  PROVE  /\ IsFiniteSet(PaidBy(u)')
         /\ balance'[u] = PackCredits * Cardinality(PaidBy(u)')
<1> DEFINE p == PaymentOf[e]
<1>0. /\ e \in Events /\ BuyerOf[e] \in Users /\ PackCredits \in Nat
      /\ balance \in [Users -> Int]
  BY InboxAssumption DEF Purchases, CreditInv, InboxInv, WalletInv, WalletTypeOK
<1>1. \A q : GrantsKeyed(q)' = GrantsKeyed(q) \cup (IF q = p THEN {PurchaseRow(e)} ELSE {})
  BY DEF GrantsOnce, GrantsKeyed, PurchaseRow
<1>2. balance[u] = PackCredits * Cardinality(PaidBy(u))
  BY DEF CreditInv, CreditedOncePerPayment, PaidBy
<1>3. CASE u = BuyerOf[e]
  <2>1. p \notin PaidBy(u)
    BY DEF GrantsOnce, PaidBy
  <2>2. PaidBy(u)' = PaidBy(u) \cup {p}
    <3>1. p \in {PaymentOf[f] : f \in Purchases}
      OBVIOUS
    <3>2. \A q : (\E g \in GrantsKeyed(q)' : g.user = u)
                 <=> (q = p \/ \E g \in GrantsKeyed(q) : g.user = u)
      <4>1. PurchaseRow(e) \in GrantsKeyed(p)' /\ PurchaseRow(e).user = u
        BY <1>1, <1>3 DEF PurchaseRow
      <4>2. \A q : q # p => GrantsKeyed(q)' = GrantsKeyed(q)
        BY <1>1
      <4>3. \A q : GrantsKeyed(q) \subseteq GrantsKeyed(q)'
        BY <1>1
      <4>4. QED
        BY <4>1, <4>2, <4>3
    <3>3. QED
      BY <3>1, <3>2 DEF PaidBy
  <2>3. IsFiniteSet(PaidBy(u)) /\ Cardinality(PaidBy(u)) \in Nat
    BY FS_CardinalityType DEF CreditInv
  <2>4. /\ IsFiniteSet(PaidBy(u) \cup {p})
        /\ Cardinality(PaidBy(u) \cup {p}) = Cardinality(PaidBy(u)) + 1
    BY <2>1, <2>3, FS_AddElement
  <2>5. balance'[u] = balance[u] + PackCredits
    BY <1>0, <1>3 DEF GrantsOnce
  <2>6. \A m, n \in Nat : m * (n + 1) = m * n + m
    OBVIOUS
  <2>7. QED
    BY <1>0, <1>2, <2>2, <2>3, <2>4, <2>5, <2>6
<1>4. CASE u # BuyerOf[e]
  <2>1. PaidBy(u)' = PaidBy(u)
    BY <1>1, <1>4 DEF PaidBy, PurchaseRow
  <2>2. balance'[u] = balance[u]
    BY <1>0, <1>2, <1>4 DEF GrantsOnce
  <2>3. QED
    BY <1>2, <2>1, <2>2 DEF CreditInv
<1>5. QED
  BY <1>3, <1>4

\* An erased buyer has no balance and no payment; the others keep theirs.
LEMMA EraseUnpays ==
  ASSUME CreditInv, NEW v \in Users, EraseUser(v), NEW u \in Users
  PROVE  /\ IsFiniteSet(PaidBy(u)')
         /\ balance'[u] = PackCredits * Cardinality(PaidBy(u)')
<1>0. balance \in [Users -> Int]
  BY DEF CreditInv, InboxInv, WalletInv, WalletTypeOK
<1>1. balance[u] = PackCredits * Cardinality(PaidBy(u))
  BY DEF CreditInv, CreditedOncePerPayment, PaidBy
<1>2. CASE u = v
  <2>1. PaidBy(u)' = {}
    BY <1>2 DEF EraseUser, PaidBy, GrantsKeyed
  <2>2. balance'[u] = 0
    BY <1>0, <1>2 DEF EraseUser
  <2>3. PackCredits * 0 = 0
    BY InboxAssumption
  <2>4. QED
    BY <2>1, <2>2, <2>3, FS_EmptySet
<1>3. CASE u # v
  <2>1. PaidBy(u)' = PaidBy(u)
    BY <1>3 DEF EraseUser, PaidBy, GrantsKeyed
  <2>2. balance'[u] = balance[u]
    BY <1>0, <1>3 DEF EraseUser
  <2>3. QED
    BY <1>1, <2>1, <2>2 DEF CreditInv
<1>4. QED
  BY <1>2, <1>3

\* The balance of a buyer is what their payments bought, each counted once,
\* whatever was delivered again, reconciled, cut short, pruned and replayed.
THEOREM InboxCreditsOnce == InboxSpec => []CreditedOncePerPayment
<1>1. InboxInit => (\A u \in Users : IsFiniteSet(PaidBy(u))) /\ CreditedOncePerPayment
  <2> SUFFICES ASSUME InboxInit, NEW u \in Users
               PROVE  IsFiniteSet(PaidBy(u)) /\ balance[u] = PackCredits * Cardinality(PaidBy(u))
    BY DEF CreditedOncePerPayment, PaidBy
  <2>1. PaidBy(u) = {} /\ balance[u] = 0
    BY DEF InboxInit, WalletInit, PaidBy, GrantsKeyed
  <2>2. PackCredits * 0 = 0
    BY InboxAssumption
  <2>3. QED
    BY <2>1, <2>2, FS_EmptySet
<1>2. InboxInv /\ InboxInv' /\ CreditInv /\ [InboxNext]_stripeVars => CreditInv'
  <2> SUFFICES ASSUME InboxInv', CreditInv, [InboxNext]_stripeVars, NEW u \in Users
               PROVE  /\ IsFiniteSet(PaidBy(u)')
                      /\ balance'[u] = PackCredits * Cardinality(PaidBy(u)')
    BY DEF CreditInv, CreditedOncePerPayment, PaidBy
  <2>1. CASE UNCHANGED <<balance, purchases>>
    <3>1. PaidBy(u)' = PaidBy(u)
      BY <2>1 DEF PaidBy, GrantsKeyed
    <3>2. QED
      BY <2>1, <3>1 DEF CreditInv, CreditedOncePerPayment, PaidBy
  <2>2. QED
    BY <2>1, GrantPays, EraseUnpays, InboxCredits DEF CreditInv
<1>3. CreditInv => CreditedOncePerPayment
  BY DEF CreditInv
<1>4. QED
  BY <1>1, <1>2, <1>3, InboxInvariant, PTL DEF InboxSpec, CreditInv

=============================================================================
