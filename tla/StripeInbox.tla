----------------------------- MODULE StripeInbox ----------------------------
(***************************************************************************)
(* Credit purchases: the webhook inbox of                                  *)
(* src/src/lib/billing/webhookProcess.ts, fed by Stripe's deliveries       *)
(* (src/src/app/api/billing/webhook/route.ts) and by the billing janitor   *)
(* (src/src/lib/billing/scheduler.ts), over the wallet engine.             *)
(*                                                                         *)
(* The three statements of handleStripeEvent (record, grant, mark) are     *)
(* separate transactions with no await between them: nothing comes between *)
(* them but an exception or the death of the process.                      *)
(***************************************************************************)
EXTENDS CreditWallet

CONSTANTS
  Events,      \* Stripe event ids
  PaymentOf,   \* the checkout session of an event
  BuyerOf,     \* its user
  KindOf,      \* "purchase": paid, of a known pack at its price;
               \* "malformed": no user, pack or price that fits;
               \* "other": another type of event, or not paid
  PackCredits, \* the credits of the pack
  SweepLimit,  \* the LIMIT of reconcileStripeEvents
  Retention    \* SL_STRIPE_EVENT_RETENTION_DAYS

ASSUME InboxAssumption ==
  /\ PaymentOf \in [Events -> Refs]             \* cs:<session id>
  /\ BuyerOf \in [Events -> Users]
  /\ \A e, f \in Events : PaymentOf[e] = PaymentOf[f] => BuyerOf[e] = BuyerOf[f]
  /\ KindOf \in [Events -> {"purchase", "malformed", "other"}]
  /\ PackCredits \in Deltas \cap Nat
  /\ SweepLimit \in Nat \ {0}
  /\ Retention \in Nat

VARIABLES
  inbox,        \* stripe_events.status, "none" without a row
  processedAt,  \* stripe_events.processed_at
  unanswered,   \* events Stripe got no 200 for and delivers again
  sweep         \* rows the running reconcile has selected and not reached

inboxVars == <<inbox, processedAt, unanswered, sweep>>
stripeVars == <<walletVars, inboxVars>>

Terminal == {"processed", "ignored"}
\* Bug: a row that failed once is not looked at again.
StuckUntried == {e \in Events : inbox[e] = "received"}
Stuck == {e \in Events : inbox[e] \in {"received", "failed"}}

InboxInit ==
  /\ WalletInit
  /\ inbox = [e \in Events |-> "none"]
  /\ processedAt = [e \in Events |-> 0]
  /\ unanswered = Events
  /\ sweep = {}

-----------------------------------------------------------------------------

\* Bug: the grant does not look whether the payment was credited before.
ProcessAgain(e, s) ==
  \/ s = "ignored" /\ KindOf[e] = "other" /\ UNCHANGED walletVars
  \/ s = "failed" /\ KindOf[e] # "other" /\ UNCHANGED walletVars
  \/ /\ s = "processed"
     /\ KindOf[e] = "purchase"
     /\ BuyerOf[e] \in accounts
     /\ opened' = opened \cup {BuyerOf[e]}
     /\ balance' = [balance EXCEPT ![BuyerOf[e]] = @ + PackCredits]
     /\ purchases' = purchases \cup
          {[ref |-> PaymentOf[e], user |-> BuyerOf[e], delta |-> PackCredits]}
     /\ UNCHANGED <<accounts, held, holds, ledger, refunds, now>>

\* processStripeEvent with outcome s.  A purchase fails when its buyer is
\* gone and whenever the database throws; creditWallet never refuses it,
\* because a solvent wallet takes any positive grant.
Process(e, s) ==
  \/ s = "ignored" /\ KindOf[e] = "other" /\ UNCHANGED walletVars
  \/ s = "failed" /\ KindOf[e] # "other" /\ UNCHANGED walletVars
  \/ /\ s = "processed"
     /\ KindOf[e] = "purchase"
     /\ \/ CreditBalance(BuyerOf[e], PackCredits, PaymentOf[e])
        \/ GrantsKeyed(PaymentOf[e]) # {} /\ UNCHANGED walletVars

\* markEvent: a failure never overwrites a terminal status.
Mark(e, s) ==
  IF s = "failed" /\ inbox[e] \in Terminal
  THEN UNCHANGED <<inbox, processedAt>>
  ELSE /\ inbox' = [inbox EXCEPT ![e] = s]
       /\ processedAt' = [processedAt EXCEPT ![e] = now]

\* Bug: the outcome is recorded ahead of the grant.
RecordedAsProcessed(e) ==
  [inbox EXCEPT ![e] = IF KindOf[e] = "purchase" THEN "processed" ELSE "received"]

\* The INSERT ... ON CONFLICT DO NOTHING of handleStripeEvent.
Recorded(e) == [inbox EXCEPT ![e] = IF @ = "none" THEN "received" ELSE @]

\* The webhook runs to its end and answers 200, whatever the outcome.
Deliver(e) ==
  /\ sweep = {}
  /\ \/ inbox[e] \in Terminal /\ UNCHANGED <<walletVars, inbox, processedAt>>
     \/ /\ inbox[e] \notin Terminal
        /\ \E s \in Terminal \cup {"failed"} : Process(e, s) /\ Mark(e, s)
  /\ unanswered' = unanswered \ {e}
  /\ UNCHANGED sweep

\* It throws or dies after recording the event, or after granting as well:
\* 500 or no answer, and Stripe delivers again.
DeliverCutShort(e) ==
  /\ sweep = {}
  /\ inbox[e] \notin Terminal
  /\ \/ UNCHANGED walletVars
     \/ Process(e, "processed")
  /\ inbox' = Recorded(e)
  /\ UNCHANGED <<processedAt, unanswered, sweep>>

\* reconcileStripeEvents selects at most SweepLimit stuck rows, in no stated
\* order, ...
SweepStart ==
  /\ sweep = {}
  /\ Stuck # {}
  /\ sweep' \in SUBSET Stuck
  /\ Cardinality(sweep') =
       IF Cardinality(Stuck) <= SweepLimit THEN Cardinality(Stuck) ELSE SweepLimit
  /\ UNCHANGED <<walletVars, inbox, processedAt, unanswered>>

\* ... and processes and marks them one after the other.
SweepRow(e, s) ==
  /\ e \in sweep
  /\ Process(e, s)
  /\ Mark(e, s)
  /\ sweep' = sweep \ {e}
  /\ UNCHANGED unanswered

\* It dies on a row, before or after the grant.
SweepCutShort ==
  /\ sweep # {}
  /\ \/ UNCHANGED walletVars
     \/ \E e \in sweep : Process(e, "processed")
  /\ sweep' = {}
  /\ UNCHANGED <<inbox, processedAt, unanswered>>

\* Bug: rows that failed are pruned as well.
AgedWhatever ==
  {e \in Events : inbox[e] \in Terminal \cup {"failed"} /\ processedAt[e] < now - Retention}

\* Bug: the retention is one second short.
AgedInclusive ==
  {e \in Events : inbox[e] \in Terminal /\ processedAt[e] <= now - Retention}

\* pruneStripeEvents deletes what is terminal and past the retention.
Aged == {e \in Events : inbox[e] \in Terminal /\ processedAt[e] < now - Retention}
Prune ==
  /\ sweep = {}
  /\ Aged # {}
  /\ inbox' = [e \in Events |-> IF e \in Aged THEN "none" ELSE inbox[e]]
  /\ UNCHANGED <<walletVars, processedAt, unanswered, sweep>>

EraseBuyer ==
  /\ sweep = {}
  /\ \E u \in Users : EraseUser(u)
  /\ UNCHANGED inboxVars

Clock == Tick /\ UNCHANGED inboxVars

InboxNext ==
  \/ \E e \in Events :
       \/ Deliver(e)
       \/ DeliverCutShort(e)
       \/ \E s \in Terminal \cup {"failed"} : SweepRow(e, s)
  \/ SweepStart \/ SweepCutShort \/ Prune \/ EraseBuyer \/ Clock

InboxSpec == InboxInit /\ [][InboxNext]_stripeVars

SweepHeals(e) == \E s \in Terminal : SweepRow(e, s)

\* The janitor's interval never stops, a sweep that does not die goes on,
\* and a database error does not come back on every attempt at a row.
InboxFairSpec ==
  /\ InboxSpec
  /\ WF_stripeVars(SweepStart)
  /\ WF_stripeVars(\E e \in Events, s \in Terminal \cup {"failed"} : SweepRow(e, s))
  /\ \A e \in Events : SF_stripeVars(SweepHeals(e))

-----------------------------------------------------------------------------
(* Properties *)

Purchases == {e \in Events : KindOf[e] = "purchase"}
Granted(p) == GrantsKeyed(p) # {}
Buyable(e) == KindOf[e] = "purchase" /\ BuyerOf[e] \in accounts

InboxTypeOK ==
  /\ inbox \in [Events -> {"none", "received", "failed"} \cup Terminal]
  /\ processedAt \in [Events -> 0 .. MaxTime]
  /\ unanswered \subseteq Events
  /\ sweep \subseteq Events

\* A payment is credited once, however often its events are delivered,
\* reconciled, cut short, pruned and delivered again.
CreditedOncePerPayment ==
  \A u \in Users :
    balance[u] = PackCredits *
      Cardinality({p \in {PaymentOf[e] : e \in Purchases} :
                    \E g \in GrantsKeyed(p) : g.user = u})

\* The audit trail does not lie: a purchase marked processed was credited.
ProcessedIsGranted ==
  \A e \in Events :
    inbox[e] = "processed" /\ Buyable(e) => Granted(PaymentOf[e])

\* No purchase falls between Stripe and the janitor: one that was not yet
\* credited is either delivered again by Stripe or seen by the reconciler.
NothingForgotten ==
  \A e \in Events :
    Buyable(e) /\ ~Granted(PaymentOf[e]) => e \in unanswered \cup Stuck

\* A terminal event keeps its status until it is pruned after the retention.
TerminalStays ==
  [][\A e \in Events :
       inbox[e] \in Terminal /\ inbox'[e] # inbox[e] =>
         inbox'[e] = "none" /\ processedAt[e] + Retention < now]_stripeVars

\* reconcileStripeEvents: the "auto-heal" that "re-process[es] inbox events
\* that never reached a terminal-good state": a recorded purchase is credited
\* in the end unless its buyer is erased.
PurchasesHeal ==
  \A e \in Events :
    e \in Stuck /\ KindOf[e] = "purchase" ~>
      Granted(PaymentOf[e]) \/ BuyerOf[e] \notin accounts

=============================================================================
