---------------------------- MODULE CreditWallet ----------------------------
(***************************************************************************)
(* The prepaid-credit wallet engine, src/src/lib/billing/wallet.ts.        *)
(*                                                                         *)
(* Every exported function of that file is one synchronous better-sqlite3  *)
(* transaction in a process with one thread, so each is one atomic action  *)
(* here.  A database table is the set of its rows.  An action is the       *)
(* outcome of a call that writes; the outcomes that write nothing are the  *)
(* state predicates HoldReused, SettleRefused and RefundDenied, which the  *)
(* callers of the wallet branch on.                                        *)
(*                                                                         *)
(* The CHECK constraint credit_wallets_solvent of schema.ts is NOT part of *)
(* the actions: Solvent below says that the guards alone keep it true, so  *)
(* the constraint never makes a transaction throw.                         *)
(***************************************************************************)
EXTENDS CreditTally

CONSTANTS
  Users,            \* ids of users rows (uuids: an erased id never returns)
  HoldKeys,         \* credit_holds.idempotency_key
  LedgerKeys,       \* usage_ledger.idempotency_key
  Refs,             \* credit_purchases.external_ref
  Amounts,          \* the credit amounts callers pass
  Deltas,           \* the signed amounts creditWallet() is called with
  HoldTtl,          \* DEFAULT_HOLD_TTL_SEC
  SecPerDay,        \* SEC_PER_DAY
  MaxRefundCount,   \* DAILY_REFUND_MAX_COUNT
  MaxRefundCredits, \* DAILY_REFUND_MAX_CREDITS
  MaxTime           \* bound on the clock

ASSUME WalletAssumption ==
  /\ Amounts \subseteq Nat      \* assertCredits
  /\ Deltas \subseteq Int       \* Number.isInteger(creditsDelta)
  /\ HoldTtl \in Nat
  /\ SecPerDay \in Nat \ {0}
  /\ MaxRefundCount \in Nat \ {0}
  /\ MaxRefundCredits \in Nat
  /\ MaxTime \in Nat

VARIABLES
  accounts,   \* the users rows that exist
  opened,     \* the users that have a credit_wallets row
  balance,    \* credit_wallets.balance, 0 without a row (getWallet)
  held,       \* credit_wallets.held, 0 without a row
  holds,      \* credit_holds
  ledger,     \* usage_ledger
  purchases,  \* credit_purchases
  refunds,    \* refund_counters, <<0, 0>> without a row
  now         \* nowSec()

walletVars ==
  <<accounts, opened, balance, held, holds, ledger, purchases, refunds, now>>

-----------------------------------------------------------------------------
(* Rows *)

Hold == [key : HoldKeys, user : Users, credits : Nat,
         status : {"active", "settled", "released"}, expiresAt : Nat]

\* charged is credits_charged: negative when the row returns credits.
LedgerRow == [key : LedgerKeys, user : Users, hold : HoldKeys,
              kind : {"chat", "refund"}, charged : Int, day : Nat]

Purchase == [ref : Refs, user : Users, delta : Int]

\* epochDay(now)
Today == now \div SecPerDay

Available(u) == balance[u] - held[u]

HoldsKeyed(k) == {h \in holds : h.key = k}
RowsKeyed(lk) == {r \in ledger : r.key = lk}
GrantsKeyed(ref) == {p \in purchases : p.ref = ref}

Active(u) == {h \in holds : h.user = u /\ h.status = "active"}
\* Bug: the expiry compared in other units than the clock.
ExpiredInOtherUnits ==
  {h \in holds : h.status = "active" /\ h.expiresAt * 1000 < now}
Expired == {h \in holds : h.status = "active" /\ h.expiresAt < now}

\* The row of hold h after it ended with status s.
Ended(h, s) == [h EXCEPT !.status = s]

WalletInit ==
  /\ accounts = Users
  /\ opened = {}
  /\ balance = [u \in Users |-> 0]
  /\ held = [u \in Users |-> 0]
  /\ holds = {}
  /\ ledger = {}
  /\ purchases = {}
  /\ refunds = [u \in Users |-> [d \in 0 .. MaxTime |-> [count |-> 0, credits |-> 0]]]
  /\ now = 0

-----------------------------------------------------------------------------
(* Outcomes of a call that write nothing *)

\* placeHold: the idempotency key names a hold, in whatever status.
HoldReused(k) == HoldsKeyed(k) # {}

\* settleHold: hold_not_active.
SettleRefused(k, lk) ==
  RowsKeyed(lk) = {} /\ \A h \in HoldsKeyed(k) : h.status # "active"

\* Bug: the ceiling on the number of refunds is off by one.
WithinCeilingOffByOne(u, c) ==
  /\ c <= MaxRefundCredits
  /\ refunds[u][Today].count <= MaxRefundCount
  /\ refunds[u][Today].credits + c <= MaxRefundCredits

\* The WHERE of the refund counter's ON CONFLICT DO UPDATE, and the refusal
\* of a refund that exceeds the daily ceiling by itself.
WithinCeiling(u, c) ==
  /\ c <= MaxRefundCredits
  /\ \/ refunds[u][Today].count = 0
     \/ /\ refunds[u][Today].count + 1 <= MaxRefundCount
        /\ refunds[u][Today].credits + c <= MaxRefundCredits
RefundDenied(u, c, lk) ==
  \/ c > MaxRefundCredits
  \/ RowsKeyed(lk) = {} /\ ~WithinCeiling(u, c)

-----------------------------------------------------------------------------
(* Operations *)

\* Bug: no foreign key to the users row.
EnsureWalletOfAnyone(u) ==
  /\ opened' = opened \cup {u}
  /\ UNCHANGED <<accounts, balance, held, holds, ledger, purchases, refunds, now>>

\* Throws (foreign key) when the users row is gone.
EnsureWallet(u) ==
  /\ u \in accounts
  /\ opened' = opened \cup {u}
  /\ UNCHANGED <<accounts, balance, held, holds, ledger, purchases, refunds, now>>

\* Bug: the guard forgets what is already held.
PlaceHoldOnBalance(u, k, c) ==
  /\ ~HoldReused(k)
  /\ u \in opened
  /\ balance[u] >= c
  /\ now + HoldTtl < MaxTime
  /\ held' = [held EXCEPT ![u] = @ + c]
  /\ holds' = holds \cup {[key |-> k, user |-> u, credits |-> c,
                           status |-> "active", expiresAt |-> now + HoldTtl]}
  /\ UNCHANGED <<accounts, opened, balance, ledger, purchases, refunds, now>>

\* Guard in the write: balance - held >= credits.  The bound on the clock
\* leaves every hold the time to expire.
PlaceHold(u, k, c) ==
  /\ ~HoldReused(k)
  /\ u \in opened
  /\ Available(u) >= c
  /\ now + HoldTtl < MaxTime
  /\ held' = [held EXCEPT ![u] = @ + c]
  /\ holds' = holds \cup {[key |-> k, user |-> u, credits |-> c,
                           status |-> "active", expiresAt |-> now + HoldTtl]}
  /\ UNCHANGED <<accounts, opened, balance, ledger, purchases, refunds, now>>

\* Bug: the charge is not capped at the reservation.
DebitUncapped(h, c) == c
Debit(h, c) == IF c <= h.credits THEN c ELSE h.credits

\* Bug: only the charged part of the reservation is given back.
SettleHoldKeepsRest(k, c, lk) ==
  /\ RowsKeyed(lk) = {}
  /\ \E h \in HoldsKeyed(k) :
       /\ h.status = "active"
       /\ h.user \in opened
       /\ balance' = [balance EXCEPT ![h.user] = @ - Debit(h, c)]
       /\ held' = [held EXCEPT ![h.user] = @ - Debit(h, c)]
       /\ holds' = (holds \ {h}) \cup {Ended(h, "settled")}
       /\ ledger' = ledger \cup
            {[key |-> lk, user |-> h.user, hold |-> k, kind |-> "chat",
              charged |-> Debit(h, c), day |-> Today]}
  /\ UNCHANGED <<accounts, opened, purchases, refunds, now>>

\* Bug: idempotent on the ledger key alone, whatever became of the hold.
SettleHoldAnyStatus(k, c, lk) ==
  /\ RowsKeyed(lk) = {}
  /\ \E h \in HoldsKeyed(k) :
       /\ h.user \in opened
       /\ balance' = [balance EXCEPT ![h.user] = @ - Debit(h, c)]
       /\ held' = [held EXCEPT ![h.user] = @ - h.credits]
       /\ holds' = (holds \ {h}) \cup {Ended(h, "settled")}
       /\ ledger' = ledger \cup
            {[key |-> lk, user |-> h.user, hold |-> k, kind |-> "chat",
              charged |-> Debit(h, c), day |-> Today]}
  /\ UNCHANGED <<accounts, opened, purchases, refunds, now>>

\* One UPDATE debits the charge and gives back the whole reservation; then
\* the hold turns settled and the ledger gets its row.
SettleHold(k, c, lk) ==
  /\ RowsKeyed(lk) = {}
  /\ \E h \in HoldsKeyed(k) :
       /\ h.status = "active"
       /\ h.user \in opened
       /\ balance' = [balance EXCEPT ![h.user] = @ - Debit(h, c)]
       /\ held' = [held EXCEPT ![h.user] = @ - h.credits]
       /\ holds' = (holds \ {h}) \cup {Ended(h, "settled")}
       /\ ledger' = ledger \cup
            {[key |-> lk, user |-> h.user, hold |-> k, kind |-> "chat",
              charged |-> Debit(h, c), day |-> Today]}
  /\ UNCHANGED <<accounts, opened, purchases, refunds, now>>

\* Bug: a hold that already ended is released as well.
ReleaseAllAnyStatus(H) ==
  LET R == H \cap holds IN
  /\ R # {}
  /\ held' = [u \in Users |->
                held[u] - Total([h \in {g \in R : g.user = u} |-> h.credits])]
  /\ holds' = (holds \ R) \cup {Ended(h, "released") : h \in R}
  /\ UNCHANGED <<accounts, opened, balance, ledger, purchases, refunds, now>>

\* releaseHold on every hold of H that is active, in one go.
ReleaseAll(H) ==
  LET R == {h \in H \cap holds : h.status = "active"} IN
  /\ R # {}
  /\ held' = [u \in Users |->
                held[u] - Total([h \in {g \in R : g.user = u} |-> h.credits])]
  /\ holds' = (holds \ R) \cup {Ended(h, "released") : h \in R}
  /\ UNCHANGED <<accounts, opened, balance, ledger, purchases, refunds, now>>

ReleaseHold(k) == ReleaseAll(HoldsKeyed(k))

\* The reaper selects the stale holds and releases them one transaction at a
\* time without yielding; only a process crash can cut the loop short.
ReapExpiredHolds == ReleaseAll(Expired)
ReapCutShort == \E H \in SUBSET Expired : ReleaseAll(H)

\* Bug: a reversal too large for the wallet takes what it can, and the
\* purchase row records the whole of it.
CreditBalanceClamped(u, d, ref) ==
  /\ u \in accounts
  /\ GrantsKeyed(ref) = {}
  /\ opened' = opened \cup {u}
  /\ balance' = [balance EXCEPT ![u] = IF @ + d >= held[u] THEN @ + d ELSE held[u]]
  /\ purchases' = purchases \cup {[ref |-> ref, user |-> u, delta |-> d]}
  /\ UNCHANGED <<accounts, held, holds, ledger, refunds, now>>

\* creditWallet: idempotent on externalRef, creates the wallet row, and never
\* lets a negative delta take the balance below what is held.
CreditBalance(u, d, ref) ==
  /\ u \in accounts
  /\ GrantsKeyed(ref) = {}
  /\ opened' = opened \cup {u}
  /\ IF balance[u] + d >= held[u]
     THEN /\ balance' = [balance EXCEPT ![u] = @ + d]
          /\ purchases' = purchases \cup {[ref |-> ref, user |-> u, delta |-> d]}
     ELSE UNCHANGED <<balance, purchases>>
  /\ UNCHANGED <<accounts, held, holds, ledger, refunds, now>>

\* refund: ceiling first, then the wallet row, the balance and the ledger.
Refund(u, k, c, lk) ==
  /\ u \in accounts
  /\ RowsKeyed(lk) = {}
  /\ HoldReused(k)                \* usage_ledger.hold_id is a foreign key
  /\ WithinCeiling(u, c)
  /\ refunds' = [refunds EXCEPT ![u][Today] =
                   [count |-> @.count + 1, credits |-> @.credits + c]]
  /\ opened' = opened \cup {u}
  /\ balance' = [balance EXCEPT ![u] = @ + c]
  /\ ledger' = ledger \cup
       {[key |-> lk, user |-> u, hold |-> k, kind |-> "refund",
         charged |-> -c, day |-> Today]}
  /\ UNCHANGED <<accounts, held, holds, purchases, now>>

\* hardDeleteUser: every billing table cascades on the users row.
EraseUser(u) ==
  /\ u \in accounts
  /\ accounts' = accounts \ {u}
  /\ opened' = opened \ {u}
  /\ balance' = [balance EXCEPT ![u] = 0]
  /\ held' = [held EXCEPT ![u] = 0]
  /\ holds' = {h \in holds : h.user # u}
  /\ ledger' = {r \in ledger : r.user # u}
  /\ purchases' = {p \in purchases : p.user # u}
  /\ refunds' = [refunds EXCEPT ![u] =
                   [d \in 0 .. MaxTime |-> [count |-> 0, credits |-> 0]]]
  /\ UNCHANGED now

Tick ==
  /\ now < MaxTime
  /\ now' = now + 1
  /\ UNCHANGED <<accounts, opened, balance, held, holds, ledger, purchases, refunds>>

UserStep(u) ==
  \/ EnsureWallet(u)
  \/ EraseUser(u)
  \/ \E d \in Deltas, ref \in Refs : CreditBalance(u, d, ref)
  \/ \E k \in HoldKeys, c \in Amounts : PlaceHold(u, k, c)
  \/ \E k \in HoldKeys, c \in Amounts, lk \in LedgerKeys : Refund(u, k, c, lk)

HoldStep(k) ==
  \/ ReleaseHold(k)
  \/ \E c \in Amounts, lk \in LedgerKeys : SettleHold(k, c, lk)

WalletNext ==
  \/ \E u \in Users : UserStep(u)
  \/ \E k \in HoldKeys : HoldStep(k)
  \/ ReapExpiredHolds
  \/ ReapCutShort
  \/ Tick

WalletSpec == WalletInit /\ [][WalletNext]_walletVars

-----------------------------------------------------------------------------
(* Properties *)

Credits(H) == Total([h \in H |-> h.credits])

Charges(u) == {r \in ledger : r.user = u /\ r.charged > 0}
Returns(u) == {r \in ledger : r.user = u /\ r.charged < 0}
Grants(u) == {p \in purchases : p.user = u /\ p.delta > 0}
Reversals(u) == {p \in purchases : p.user = u /\ p.delta < 0}
RefundRows(u, d) ==
  {r \in ledger : r.user = u /\ r.kind = "refund" /\ r.day = d}
ChargeRows(h) == {r \in ledger : r.kind = "chat" /\ r.hold = h.key}

\* Every table holds rows of its schema (schema.ts), and the mutable wallet
\* row exists only for a user that exists.
WalletTypeOK ==
  /\ accounts \subseteq Users
  /\ opened \subseteq accounts
  /\ balance \in [Users -> Int]
  /\ held \in [Users -> Int]
  /\ holds \subseteq Hold
  /\ ledger \subseteq LedgerRow
  /\ purchases \subseteq Purchase
  /\ refunds \in [Users -> [0 .. MaxTime -> [count : Nat, credits : Nat]]]
  /\ now \in 0 .. MaxTime

\* The constraint credit_wallets_solvent (schema.ts) never fires: whatever
\* interleaving of holds, settles, releases, reversals and reaps the callers
\* produce, no user is overdrawn and no more is held than is there.
Solvent ==
  \A u \in Users : balance[u] >= 0 /\ held[u] >= 0 /\ held[u] <= balance[u]

\* credit_wallets.held is the "Sum of currently-active holds" (schema.ts):
\* no path forgets a reservation or gives one back twice.
HeldIsActiveHolds ==
  \A u \in Users : held[u] = Credits(Active(u))

\* The balance is "Reconcilable from SUM(credit_purchases) -
\* SUM(usage_ledger)" (schema.ts): the mutable cache never drifts from the
\* two append-only ledgers.
Reconciles ==
  \A u \in Users :
    balance[u] = Total([p \in Grants(u) |-> p.delta])
                 - Total([p \in Reversals(u) |-> -p.delta])
                 - Total([r \in Charges(u) |-> r.charged])
                 + Total([r \in Returns(u) |-> -r.charged])

\* A hold is charged exactly when it is settled, once whatever ledger keys
\* the callers retry under, and never above what it reserved.
ChargedOncePerHold ==
  \A h \in holds :
    /\ h.status = "settled" <=> ChargeRows(h) # {}
    /\ \A r, s \in ChargeRows(h) : r = s
    /\ \A r \in ChargeRows(h) : r.charged <= h.credits /\ r.user = h.user

\* On any one day a user gets back at most DAILY_REFUND_MAX_COUNT refunds
\* worth at most DAILY_REFUND_MAX_CREDITS, counted in the ledger itself and
\* not in the counter that the code consults.
RefundCeiling ==
  \A u \in Users, d \in 0 .. MaxTime :
    /\ Cardinality(RefundRows(u, d)) <= MaxRefundCount
    /\ Total([r \in RefundRows(u, d) |-> -r.charged]) <= MaxRefundCredits

\* A hold that ended stays as it ended until its user is erased: a late
\* settle, release or reap never reopens it or changes how it ended.
HoldsEndOnce ==
  [][\A h \in holds :
       h.status # "active" => h \in holds' \/ h.user \notin accounts']_walletVars

\* The reservation of a request that never comes back (a crash between
\* placeHold and settle) is given back in the end.
StrandedHoldsReturn ==
  \A k \in HoldKeys :
    (\E h \in HoldsKeyed(k) : h.status = "active")
      ~> (\A h \in HoldsKeyed(k) : h.status # "active")

\* The wallet implements the account it promises.
Account == INSTANCE EscrowAccount WITH
  spendable <- [u \in Users |-> Available(u)],
  escrow <- {[key |-> h.key, user |-> h.user, credits |-> h.credits] :
               h \in {g \in holds : g.status = "active"}}

\* Every step of the wallet is a step of the escrow account or none at all.
ImplementsEscrow == Account!EscrowSpec

=============================================================================
