---------------------------- MODULE PaywallProofs ---------------------------
(***************************************************************************)
(* Every step of the money path is a step of the wallet engine, so what    *)
(* CreditWalletProofs proves of the wallet holds whatever the requests do; *)
(* and no exit of a request forgets its hold.                              *)
(***************************************************************************)
EXTENDS Paywall, CreditWalletProofs

\* Settling, releasing and refunding a request's hold are wallet steps.
LEMMA RequestKeys ==
  ASSUME NEW r \in Requests
  PROVE  /\ r \in HoldKeys
         /\ Owner[r] \in Users
         /\ SettleKey(r) \in LedgerKeys
         /\ RefundKey(r) \in LedgerKeys
BY PaywallAssumption DEF SettleKey, RefundKey

LEMMA HoldOperations ==
  ASSUME NEW r \in Requests
  PROVE  /\ \A c \in Costs : SettleHold(r, c, SettleKey(r)) => WalletNext
         /\ \A c \in Costs : Refund(Owner[r], r, c, RefundKey(r)) => WalletNext
         /\ SafeRelease(r) => [WalletNext]_walletVars
         /\ EnsureWallet(Owner[r]) => WalletNext
BY RequestKeys DEF Costs, SafeRelease, WalletNext, HoldStep, UserStep

\* The hold of a generation lies between the floor and the cap.
LEMMA GenerationHoldRange ==
  ASSUME WalletTypeOK, NEW u \in Users
  PROVE  GenerationHold(u) \in Amounts
<1>1. Available(u) \in Int
  BY DEF Available, WalletTypeOK
<1>2. GenerationHold(u) \in MinToStart .. MaxHold
  BY <1>1, PaywallAssumption DEF GenerationHold
<1>3. QED
  BY <1>2, PaywallAssumption

LEMMA RequestStepsWallet ==
  ASSUME WalletTypeOK, NEW r \in Requests, RequestStep(r)
  PROVE  [WalletNext]_walletVars
<1>1. CASE AdmitPaid(r)
  <2>1. PlaceHold(Owner[r], r, GenerationHold(Owner[r]))
    BY <1>1 DEF AdmitPaid
  <2>2. QED
    BY <2>1, RequestKeys, GenerationHoldRange DEF WalletNext, UserStep
<1>2. CASE \/ AdmitFree(r) \/ Rejected(r) \/ RunReturns(r) \/ ConverseNeverOpens(r)
           \/ ResultSettleRefused(r) \/ ScoreSpends(r) \/ Persists(r) \/ Disconnect(r)
  BY <1>2 DEF AdmitFree, Rejected, RunReturns, ConverseNeverOpens,
       ResultSettleRefused, ScoreSpends, Persists, Disconnect
<1>3. CASE \/ RunFails(r) \/ ResultInvalid(r) \/ ScoreFails(r)
           \/ ConverseWriteThrows(r) \/ ConverseFails(r)
  BY <1>3, HoldOperations DEF RunFails, ResultInvalid, ScoreFails,
       ConverseWriteThrows, ConverseFails
<1>4. CASE OutOfCredits(r)
  BY <1>4, HoldOperations DEF OutOfCredits
<1>5. CASE ResultSettles(r) \/ ScoreSettles(r) \/ ConverseStops(r)
  BY <1>5, HoldOperations DEF ResultSettles, ScoreSettles, ConverseStops
<1>6. CASE PersistFails(r)
  BY <1>6, HoldOperations DEF PersistFails
<1>7. QED
  BY <1>1, <1>2, <1>3, <1>4, <1>5, <1>6 DEF RequestStep

LEMMA StepsWallet ==
  ASSUME WalletTypeOK, [PaywallNext]_paywallVars
  PROVE  [WalletNext]_walletVars
<1>1. CASE \E r \in Requests : RequestStep(r)
  BY <1>1, RequestStepsWallet
<1>2. CASE Crash
  BY <1>2 DEF Crash
<1>3. CASE TopUp
  BY <1>3 DEF TopUp, WalletNext, UserStep
<1>4. CASE Erase
  BY <1>4 DEF Erase, WalletNext, UserStep
<1>5. CASE Reap \/ Clock
  BY <1>5 DEF Reap, Clock, WalletNext
<1>6. CASE UNCHANGED paywallVars
  BY <1>6 DEF paywallVars
<1>7. QED
  BY <1>1, <1>2, <1>3, <1>4, <1>5, <1>6 DEF PaywallNext

\* The money path uses the wallet only through its operations, and so keeps
\* the types of its tables.
THEOREM PaywallUsesWallet ==
  PaywallSpec => UsesWallet /\ [](WalletTypeOK /\ FiniteTables)
<1>1. PaywallInit => WalletInit /\ WalletTypeOK /\ FiniteTables
  BY FS_EmptySet, WalletAssumption
     DEF PaywallInit, WalletInit, WalletTypeOK, FiniteTables
<1>2. WalletTypeOK /\ FiniteTables /\ [PaywallNext]_paywallVars
        => (WalletTypeOK /\ FiniteTables)' /\ [WalletNext]_walletVars
  BY StepsWallet, TypeStep, TablesStep
<1>3. QED
  BY <1>1, <1>2, PTL DEF PaywallSpec, UsesWallet, WalletSpec

\* No interleaving of requests, crashes, erasures and the reaper overdraws an
\* account.
COROLLARY PaywallSolvent == PaywallSpec => []Solvent
BY PaywallUsesWallet, WalletSolvent, PTL DEF UsesWallet

-----------------------------------------------------------------------------
(* No exit forgets its hold *)

\* A hold is active from admission until its responder settles or releases
\* it: the inductive form of HoldsHaveRequests.  That a free piece has no
\* hold, and that a key names one hold, is what makes a settle enough.
Holding == {"running", "result", "converse", "score", "lost", "failed"}
Held(r) == stage[r] \in Holding /\ pay[r] = "paid"
HoldingInv == \A h \in holds : h.status = "active" => Held(h.key)

RequestsInv ==
  /\ WalletTypeOK /\ FiniteTables
  /\ HoldKeysUnique
  /\ PaywallTypeOK
  /\ HoldingInv

\* A release leaves no active row among those it was asked for, and makes
\* none.
LEMMA ReleaseLeaves ==
  ASSUME WalletTypeOK, NEW H, ReleaseAll(H), NEW h \in holds', h.status = "active"
  PROVE  h \in holds /\ h \notin H
<1>1. \A g \in holds : Ended(g, "released").status # "active"
  BY EndedHold DEF WalletTypeOK
<1>2. QED
  BY <1>1 DEF ReleaseAll

LEMMA SafeReleaseLeaves ==
  ASSUME WalletTypeOK, NEW r, SafeRelease(r), NEW h \in holds', h.status = "active"
  PROVE  h \in holds /\ h.key # r
BY ReleaseLeaves DEF SafeRelease, ReleaseHold, HoldsKeyed, walletVars

LEMMA SettleLeaves ==
  ASSUME WalletTypeOK, HoldKeysUnique, NEW r, NEW c, NEW lk, SettleHold(r, c, lk),
         NEW h \in holds', h.status = "active"
  PROVE  h \in holds /\ h.key # r
<1>1. PICK g \in HoldsKeyed(r) : holds' = (holds \ {g}) \cup {Ended(g, "settled")}
  BY DEF SettleHold
<1>2. g \in holds /\ g.key = r /\ Ended(g, "settled").status # "active"
  BY EndedHold DEF HoldsKeyed, WalletTypeOK
<1>3. QED
  BY <1>1, <1>2 DEF HoldKeysUnique

LEMMA TypePaywallStep ==
  ASSUME PaywallTypeOK, [PaywallNext]_paywallVars
  PROVE  PaywallTypeOK'
<1> USE PaywallAssumption DEF PaywallTypeOK, InFlight, Over, Goto, FreeAgain
<1>1. ASSUME NEW r \in Requests, AdmitFree(r) \/ AdmitPaid(r)
      PROVE  PaywallTypeOK'
  BY <1>1 DEF AdmitFree, AdmitPaid
<1>2. ASSUME NEW r \in Requests,
             \/ OutOfCredits(r) \/ Rejected(r) \/ RunReturns(r)
             \/ ResultSettles(r) \/ ResultSettleRefused(r) \/ ScoreSettles(r)
             \/ ConverseWriteThrows(r)
      PROVE  PaywallTypeOK'
  BY <1>2 DEF OutOfCredits, Rejected, RunReturns, ResultSettles,
       ResultSettleRefused, ScoreSettles, ConverseWriteThrows
<1>3. ASSUME NEW r \in Requests, RunFails(r) \/ ScoreFails(r)
      PROVE  PaywallTypeOK'
  BY <1>3 DEF RunFails, ScoreFails
<1>4. ASSUME NEW r \in Requests,
             \/ ConverseNeverOpens(r) \/ ResultInvalid(r) \/ ConverseFails(r)
             \/ ScoreSpends(r) \/ Disconnect(r)
      PROVE  PaywallTypeOK'
  BY <1>4 DEF ConverseNeverOpens, ResultInvalid, ConverseFails, ScoreSpends, Disconnect
<1>5. ASSUME NEW r \in Requests, Persists(r) \/ PersistFails(r) \/ ConverseStops(r)
      PROVE  PaywallTypeOK'
  BY <1>5 DEF Persists, PersistFails, ConverseStops
<1>6. Crash => PaywallTypeOK'
  BY DEF Crash
<1>7. TopUp \/ Reap \/ Clock \/ UNCHANGED paywallVars => PaywallTypeOK'
  BY DEF TopUp, Reap, Clock, requestVars, paywallVars
<1>8. Erase => PaywallTypeOK'
  BY DEF Erase
<1>9. QED
  BY <1>1, <1>2, <1>3, <1>4, <1>5, <1>6, <1>7, <1>8 DEF PaywallNext, RequestStep

LEMMA HoldingRequestStep ==
  ASSUME RequestsInv, NEW r \in Requests, RequestStep(r)
  PROVE  HoldingInv'
<1> USE DEF RequestsInv, PaywallTypeOK, Goto
<1> SUFFICES ASSUME NEW h \in holds', h.status = "active"
             PROVE  Held(h.key)'
  BY DEF HoldingInv
<1>1. CASE AdmitPaid(r)
  <2>1. stage' = [stage EXCEPT ![r] = "running"] /\ pay' = [pay EXCEPT ![r] = "paid"]
    BY <1>1 DEF AdmitPaid
  <2>2. h \in holds \/ h.key = r
    BY <1>1 DEF AdmitPaid, PlaceHold
  <2>3. h \in holds => h.key \in Requests /\ Held(h.key)
    BY PaywallAssumption DEF HoldingInv, WalletTypeOK, Hold
  <2>4. QED
    BY <2>1, <2>2, <2>3 DEF Held, Holding
<1>2. CASE AdmitFree(r)
  BY <1>2 DEF AdmitFree, walletVars, HoldingInv, Held, Holding
<1>3. CASE OutOfCredits(r) \/ Rejected(r) \/ Persists(r)
  <2>1. holds' = holds
    BY <1>3 DEF OutOfCredits, EnsureWallet, Rejected, Persists, walletVars
  <2>2. stage[r] \notin Holding /\ pay' = pay /\ stage' = [stage EXCEPT ![r] = "ended"]
    BY <1>3 DEF OutOfCredits, Rejected, Persists, Holding
  <2>3. QED
    BY <2>1, <2>2 DEF HoldingInv, Held
<1>4. CASE \/ RunFails(r) \/ ResultInvalid(r) \/ ScoreFails(r)
           \/ ConverseWriteThrows(r) \/ ConverseFails(r)
  <2>1. SafeRelease(r) /\ stage' = [stage EXCEPT ![r] = "ended"] /\ pay' = pay
    BY <1>4 DEF RunFails, ResultInvalid, ScoreFails, ConverseWriteThrows, ConverseFails
  <2>2. h \in holds /\ h.key # r
    BY <2>1, SafeReleaseLeaves
  <2>3. QED
    BY <2>1, <2>2 DEF HoldingInv, Held
<1>5. CASE RunReturns(r) \/ ConverseNeverOpens(r)
  <2>1. holds' = holds /\ pay' = pay
    BY <1>5 DEF RunReturns, ConverseNeverOpens, walletVars
  <2>2. PICK s \in Holding : stage' = [stage EXCEPT ![r] = s]
    BY <1>5 DEF RunReturns, ConverseNeverOpens, Holding
  <2>3. h.key \in Requests /\ Held(h.key)
    BY <2>1, PaywallAssumption DEF HoldingInv, WalletTypeOK, Hold
  <2>4. QED
    BY <2>1, <2>2, <2>3 DEF Held
<1>6. CASE ResultSettles(r) \/ ScoreSettles(r) \/ ConverseStops(r)
  <2>1. /\ \E s \in {"settled", "unsettled", "ended"} : stage' = [stage EXCEPT ![r] = s]
        /\ pay' = pay
    BY <1>6 DEF ResultSettles, ScoreSettles, ConverseStops
  <2>2. \/ \E c \in Costs : SettleHold(r, c, SettleKey(r))
        \/ pay[r] = "free" /\ holds' = holds
        \/ SettleRefused(r, SettleKey(r)) /\ holds' = holds
    BY <1>6 DEF ResultSettles, ScoreSettles, ConverseStops, walletVars
  <2>3. h \in holds /\ h.key # r
    <3>1. CASE \E c \in Costs : SettleHold(r, c, SettleKey(r))
      BY <3>1, SettleLeaves
    <3>2. CASE pay[r] = "free" /\ holds' = holds
      BY <3>2 DEF HoldingInv, Held
    <3>3. CASE SettleRefused(r, SettleKey(r)) /\ holds' = holds
      BY <3>3 DEF SettleRefused, HoldsKeyed
    <3>4. QED
      BY <2>2, <3>1, <3>2, <3>3
  <2>4. QED
    BY <2>1, <2>3 DEF HoldingInv, Held
<1>7. CASE ResultSettleRefused(r)
  BY <1>7 DEF ResultSettleRefused, SettleRefused, HoldsKeyed, walletVars, HoldingInv, Held
<1>8. CASE ScoreSpends(r) \/ Disconnect(r)
  BY <1>8 DEF ScoreSpends, Disconnect, walletVars, HoldingInv, Held
<1>9. CASE PersistFails(r)
  <2>1. holds' = holds
    BY <1>9 DEF PersistFails, Refund, walletVars
  <2>2. stage[r] \in {"settled", "unsettled"} /\ pay' = pay
        /\ stage' = [stage EXCEPT ![r] = "ended"]
    BY <1>9 DEF PersistFails
  <2>3. QED
    BY <2>1, <2>2 DEF HoldingInv, Held, Holding
<1>10. QED
  BY <1>1, <1>2, <1>3, <1>4, <1>5, <1>6, <1>7, <1>8, <1>9 DEF RequestStep

LEMMA HoldingStep ==
  ASSUME RequestsInv, [PaywallNext]_paywallVars
  PROVE  HoldingInv'
<1> USE DEF RequestsInv
<1>1. CASE \E r \in Requests : RequestStep(r)
  BY <1>1, HoldingRequestStep
<1>2. CASE Crash
  BY <1>2, PaywallAssumption
     DEF Crash, HoldingInv, Held, Holding, InFlight, WalletTypeOK, Hold, walletVars
<1>3. CASE TopUp \/ Clock \/ UNCHANGED paywallVars
  BY <1>3 DEF TopUp, CreditBalance, Clock, Tick, requestVars, paywallVars,
       walletVars, HoldingInv, Held
<1>4. CASE Erase
  BY <1>4 DEF Erase, EraseUser, HoldingInv, Held
<1>5. CASE Reap
  <2>1. PICK H : ReleaseAll(H)
    BY <1>5 DEF Reap, ReapExpiredHolds, ReapCutShort
  <2>2. UNCHANGED <<stage, pay>>
    BY <1>5 DEF Reap, requestVars
  <2>3. QED
    BY <2>1, <2>2, ReleaseLeaves DEF HoldingInv, Held
<1>6. QED
  BY <1>1, <1>2, <1>3, <1>4, <1>5 DEF PaywallNext

THEOREM RequestsInvariant == PaywallSpec => []RequestsInv
<1>1. PaywallInit => RequestsInv
  BY PaywallAssumption, WalletAssumption, FS_EmptySet
     DEF PaywallInit, WalletInit, RequestsInv, WalletTypeOK, FiniteTables,
         HoldKeysUnique, PaywallTypeOK, HoldingInv
<1>2. RequestsInv /\ [PaywallNext]_paywallVars => RequestsInv'
  <2> SUFFICES ASSUME RequestsInv, [PaywallNext]_paywallVars
               PROVE  RequestsInv'
    OBVIOUS
  <2>1. [WalletNext]_walletVars
    BY StepsWallet DEF RequestsInv
  <2>2. (WalletTypeOK /\ FiniteTables /\ HoldKeysUnique)'
    BY <2>1, TypeStep, TablesStep, HoldKeysStep DEF RequestsInv
  <2>3. QED
    BY <2>2, TypePaywallStep, HoldingStep DEF RequestsInv
<1>3. QED
  BY <1>1, <1>2, PTL DEF PaywallSpec

\* An active hold belongs to a request that will still settle or release it,
\* or to one that died without the chance.
THEOREM PaywallHoldsHaveRequests == PaywallSpec => []HoldsHaveRequests
<1>1. RequestsInv => HoldsHaveRequests
  BY DEF RequestsInv, HoldingInv, Held, Holding, HoldsHaveRequests, InFlight
<1>2. QED
  BY <1>1, RequestsInvariant, PTL

COROLLARY PaywallTypes == PaywallSpec => []PaywallTypeOK
BY RequestsInvariant, PTL DEF RequestsInv

-----------------------------------------------------------------------------
(* What a turn costs *)

\* Nothing was written to the ledger for request q.
Unbilled(q) == RowsKeyed(SettleKey(q)) = {} /\ RowsKeyed(RefundKey(q)) = {}

\* The charge of q is in the ledger and was kept.
Billed(q) == (\E c \in Costs : Charged(q, c)) /\ ~Refunded(q)

\* q was given back what it was charged, if it was charged.
Repaid(q) ==
  \A c \in Costs : Charged(q, c) => \E row \in RowsKeyed(RefundKey(q)) : row.charged = -c

\* The hold of q is there to be settled, unless the reaper had it.
Reserved(q) == (\E h \in HoldsKeyed(q) : h.status = "active") \/ Reaped(q)

\* Holds and ledger rows carry the user and the key of their request, no
\* hold is for nothing, and usage_ledger.idempotency_key is UNIQUE.
HoldsOfRequests == \A h \in holds : h.user = Owner[h.key] /\ h.credits \in Costs
RowsOfRequests ==
  \A row \in ledger : \E q \in Requests :
    /\ row.user = Owner[q]
    /\ row.key \in {SettleKey(q), RefundKey(q)}
    /\ row.key = SettleKey(q) => row.charged \in Costs
LedgerKeysUnique == \A x, y \in ledger : x.key = y.key => x = y
MoneyTables == HoldsOfRequests /\ RowsOfRequests /\ LedgerKeysUnique

\* What the ledger and the hold of q say at each stage of q.  The three
\* properties speak of requests that are over; that they come out so rests
\* on what the stages before them leave behind.
Working == {"running", "result", "converse", "score"}
MoneySound(q) ==
  /\ pay[q] # "paid" => HoldsKeyed(q) = {} /\ Unbilled(q)
  /\ Paid(q) =>
       /\ stage[q] \in Working => Unbilled(q) /\ Reserved(q)
       /\ stage[q] = "settled" => Billed(q)
       /\ stage[q] = "unsettled" => Unbilled(q) /\ Reaped(q)
       /\ q \in delivered => Billed(q) \/ Reaped(q)
       /\ stage[q] = "ended" /\ q \notin delivered \cup denied => Repaid(q)

\* A request has spent nothing before its stream, and is delivered last.
StageSound(q) ==
  /\ stage[q] = "new" => pay[q] = "none"
  /\ stage[q] \in {"new", "running"} => q \notin metered
  /\ stage[q] \in {"new"} \cup InFlight => q \notin delivered
  /\ stage[q] \in {"converse", "unsettled"} => pay[q] = "paid"

FreeSound(q) ==
  pay[q] = "free" /\ Owner[q] \in accounts =>
    /\ stage[q] \in InFlight \/ q \in delivered => claim[Owner[q]] = q
    /\ stage[q] = "ended" /\ q \in metered => claim[Owner[q]] = q

MoneyInv ==
  /\ RequestsInv
  /\ MoneyTables
  /\ \A q \in Requests : StageSound(q) /\ FreeSound(q) /\ MoneySound(q)

-----------------------------------------------------------------------------
(* Frames: what an operation on one request leaves of the others *)

\* What a request does to the wallet.
MoneyOp(r) ==
  \/ UNCHANGED walletVars
  \/ EnsureWallet(Owner[r])
  \/ PlaceHold(Owner[r], r, GenerationHold(Owner[r]))
  \/ ReleaseHold(r)
  \/ \E c \in Costs : SettleHold(r, c, SettleKey(r))
  \/ \E c \in Costs : Refund(Owner[r], r, c, RefundKey(r))

LEMMA RequestMoney ==
  ASSUME NEW r \in Requests, RequestStep(r)
  PROVE  MoneyOp(r)
<1>1. CASE AdmitPaid(r) \/ OutOfCredits(r)
  BY <1>1 DEF AdmitPaid, OutOfCredits, MoneyOp
<1>2. CASE \/ AdmitFree(r) \/ Rejected(r) \/ RunReturns(r) \/ ConverseNeverOpens(r)
           \/ ResultSettleRefused(r) \/ ScoreSpends(r) \/ Persists(r) \/ Disconnect(r)
  BY <1>2 DEF AdmitFree, Rejected, RunReturns, ConverseNeverOpens,
       ResultSettleRefused, ScoreSpends, Persists, Disconnect, MoneyOp
<1>3. CASE \/ RunFails(r) \/ ResultInvalid(r) \/ ScoreFails(r)
           \/ ConverseWriteThrows(r) \/ ConverseFails(r)
  BY <1>3 DEF RunFails, ResultInvalid, ScoreFails, ConverseWriteThrows,
       ConverseFails, SafeRelease, MoneyOp
<1>4. CASE ResultSettles(r) \/ ScoreSettles(r) \/ ConverseStops(r)
  BY <1>4 DEF ResultSettles, ScoreSettles, ConverseStops, MoneyOp
<1>5. CASE PersistFails(r)
  BY <1>5 DEF PersistFails, MoneyOp
<1>6. QED
  BY <1>1, <1>2, <1>3, <1>4, <1>5 DEF RequestStep

\* The keys of two requests are four keys.
LEMMA KeysApart ==
  \A q, r : /\ SettleKey(q) # RefundKey(r)
            /\ q # r => SettleKey(q) # SettleKey(r) /\ RefundKey(q) # RefundKey(r)
BY DEF SettleKey, RefundKey

\* Settling the hold of r writes its one charge, which is not zero.
LEMMA SettleRow ==
  ASSUME WalletTypeOK, HoldsOfRequests, NEW r \in Requests, NEW c \in Costs,
         SettleHold(r, c, SettleKey(r))
  PROVE  /\ \E h \in HoldsKeyed(r) : holds' = (holds \ {h}) \cup {Ended(h, "settled")}
         /\ \E row : /\ row.key = SettleKey(r) /\ row.user = Owner[r]
                     /\ row.charged \in Costs
                     /\ ledger' = ledger \cup {row}
         /\ RowsKeyed(SettleKey(r)) = {}
         /\ UNCHANGED <<accounts, now>>
<1> PICK h \in HoldsKeyed(r) :
      /\ holds' = (holds \ {h}) \cup {Ended(h, "settled")}
      /\ ledger' = ledger \cup
           {[key |-> SettleKey(r), user |-> h.user, hold |-> r, kind |-> "chat",
             charged |-> Debit(h, c), day |-> Today]}
  BY DEF SettleHold
<1>1. h.user = Owner[r] /\ h.credits \in Costs
  BY DEF HoldsKeyed, HoldsOfRequests
<1>2. Debit(h, c) \in Costs
  BY <1>1 DEF Debit
<1>3. QED
  BY <1>1, <1>2 DEF SettleHold

LEMMA RefundRow ==
  ASSUME NEW r \in Requests, NEW c, Refund(Owner[r], r, c, RefundKey(r))
  PROVE  /\ \E row : /\ row.key = RefundKey(r) /\ row.user = Owner[r]
                     /\ row.charged = -c
                     /\ ledger' = ledger \cup {row}
         /\ RowsKeyed(RefundKey(r)) = {}
         /\ UNCHANGED <<holds, accounts, now>>
BY DEF Refund

LEMMA PlaceRow ==
  ASSUME WalletTypeOK, NEW r \in Requests,
         PlaceHold(Owner[r], r, GenerationHold(Owner[r]))
  PROVE  /\ \E h : /\ h.key = r /\ h.user = Owner[r] /\ h.credits \in Costs
                   /\ h.status = "active"
                   /\ holds' = holds \cup {h}
         /\ UNCHANGED <<ledger, accounts, now>>
<1>1. GenerationHold(Owner[r]) \in Costs
  <2>1. Available(Owner[r]) \in Int
    BY RequestKeys DEF Available, WalletTypeOK
  <2>2. GenerationHold(Owner[r]) \in MinToStart .. MaxHold
    BY <2>1, PaywallAssumption DEF GenerationHold
  <2>3. QED
    BY <2>2, PaywallAssumption DEF Costs
<1>2. QED
  BY <1>1 DEF PlaceHold

\* Ended rows stand where the rows stood.
LEMMA ReleaseRows ==
  ASSUME WalletTypeOK, NEW H, ReleaseAll(H)
  PROVE  /\ \A h \in holds : h \notin H \/ h.status # "active" => h \in holds'
         /\ \A h \in holds : h \in H /\ h.status = "active" => Ended(h, "released") \in holds'
         /\ \A g \in holds' : \/ g \in holds
                              \/ \E h \in holds : /\ h \in H /\ h.status = "active"
                                                  /\ g = Ended(h, "released")
         /\ \A h \in holds : /\ Ended(h, "released").key = h.key
                             /\ Ended(h, "released").user = h.user
                             /\ Ended(h, "released").credits = h.credits
                             /\ Ended(h, "released").status = "released"
                             /\ Ended(h, "released").expiresAt = h.expiresAt
         /\ UNCHANGED <<ledger, accounts, now>>
<1>1. \A h \in holds : /\ Ended(h, "released").key = h.key
                       /\ Ended(h, "released").user = h.user
                       /\ Ended(h, "released").credits = h.credits
                       /\ Ended(h, "released").status = "released"
                       /\ Ended(h, "released").expiresAt = h.expiresAt
  BY DEF WalletTypeOK, Hold, Ended
<1>2. QED
  BY <1>1 DEF ReleaseAll

\* An operation of r writes no row of q.
LEMMA MoneyFrame ==
  ASSUME WalletTypeOK, HoldsOfRequests, NEW r \in Requests, NEW q \in Requests, q # r,
         MoneyOp(r)
  PROVE  /\ HoldsKeyed(q)' = HoldsKeyed(q)
         /\ RowsKeyed(SettleKey(q))' = RowsKeyed(SettleKey(q))
         /\ RowsKeyed(RefundKey(q))' = RowsKeyed(RefundKey(q))
         /\ UNCHANGED <<accounts, now>>
<1>1. CASE UNCHANGED walletVars \/ EnsureWallet(Owner[r])
  BY <1>1 DEF walletVars, EnsureWallet, HoldsKeyed, RowsKeyed
<1>2. CASE PlaceHold(Owner[r], r, GenerationHold(Owner[r]))
  BY <1>2, PlaceRow DEF HoldsKeyed, RowsKeyed
<1>3. CASE ReleaseHold(r)
  <2>1. ReleaseAll(HoldsKeyed(r))
    BY <1>3 DEF ReleaseHold
  <2>2. QED
    BY <2>1, ReleaseRows DEF HoldsKeyed, RowsKeyed
<1>4. CASE \E c \in Costs : SettleHold(r, c, SettleKey(r))
  <2>1. PICK h \in HoldsKeyed(r) : holds' = (holds \ {h}) \cup {Ended(h, "settled")}
    BY <1>4, SettleRow
  <2>2. PICK row : row.key = SettleKey(r) /\ ledger' = ledger \cup {row}
    BY <1>4, SettleRow
  <2>3. UNCHANGED <<accounts, now>>
    BY <1>4, SettleRow
  <2>4. h.key = r /\ Ended(h, "settled").key = r
    BY EndedHold DEF HoldsKeyed, WalletTypeOK
  <2>5. QED
    BY <2>1, <2>2, <2>3, <2>4, KeysApart DEF HoldsKeyed, RowsKeyed
<1>5. CASE \E c \in Costs : Refund(Owner[r], r, c, RefundKey(r))
  BY <1>5, RefundRow, KeysApart DEF HoldsKeyed, RowsKeyed
<1>6. QED
  BY <1>1, <1>2, <1>3, <1>4, <1>5 DEF MoneyOp

\* Every operation writes rows of its own request, under a fresh key.
LEMMA MoneyTablesStep ==
  ASSUME RequestsInv, MoneyTables, [PaywallNext]_paywallVars
  PROVE  MoneyTables'
<1> USE DEF MoneyTables, RequestsInv
<1>1. ASSUME UNCHANGED <<holds, ledger>>
      PROVE  MoneyTables'
  BY <1>1 DEF HoldsOfRequests, RowsOfRequests, LedgerKeysUnique
<1>2. ASSUME NEW H, ReleaseAll(H)
      PROVE  MoneyTables'
  BY <1>2, ReleaseRows DEF HoldsOfRequests, RowsOfRequests, LedgerKeysUnique
<1>3. ASSUME NEW r \in Requests, RequestStep(r)
      PROVE  MoneyTables'
  <2>1. CASE UNCHANGED walletVars \/ EnsureWallet(Owner[r])
    BY <1>1, <2>1 DEF walletVars, EnsureWallet
  <2>2. CASE PlaceHold(Owner[r], r, GenerationHold(Owner[r]))
    BY <2>2, PlaceRow DEF HoldsOfRequests, RowsOfRequests, LedgerKeysUnique
  <2>3. CASE ReleaseHold(r)
    BY <1>2, <2>3 DEF ReleaseHold
  <2>4. CASE \E c \in Costs : SettleHold(r, c, SettleKey(r))
    <3>1. PICK h \in HoldsKeyed(r) : holds' = (holds \ {h}) \cup {Ended(h, "settled")}
      BY <2>4, SettleRow
    <3>2. PICK row : /\ row.key = SettleKey(r) /\ row.user = Owner[r]
                     /\ row.charged \in Costs
                     /\ ledger' = ledger \cup {row}
      BY <2>4, SettleRow
    <3>3. RowsKeyed(SettleKey(r)) = {}
      BY <2>4, SettleRow
    <3>4. h \in holds /\ h \in Hold
      BY DEF HoldsKeyed, WalletTypeOK
    <3>5. HoldsOfRequests'
      BY <3>1, <3>4, EndedHold DEF HoldsOfRequests
    <3>6. RowsOfRequests' /\ LedgerKeysUnique'
      BY <3>2, <3>3, KeysApart DEF RowsOfRequests, LedgerKeysUnique, RowsKeyed
    <3>7. QED
      BY <3>5, <3>6
  <2>5. CASE \E c \in Costs : Refund(Owner[r], r, c, RefundKey(r))
    <3>1. PICK row : /\ row.key = RefundKey(r) /\ row.user = Owner[r]
                     /\ ledger' = ledger \cup {row}
      BY <2>5, RefundRow
    <3>2. RowsKeyed(RefundKey(r)) = {} /\ holds' = holds
      BY <2>5, RefundRow
    <3>3. QED
      BY <3>1, <3>2, KeysApart
      DEF HoldsOfRequests, RowsOfRequests, LedgerKeysUnique, RowsKeyed
  <2>6. QED
    BY <1>3, <2>1, <2>2, <2>3, <2>4, <2>5, RequestMoney DEF MoneyOp
<1>4. CASE Crash \/ TopUp \/ Clock \/ UNCHANGED paywallVars
  BY <1>1, <1>4 DEF Crash, TopUp, CreditBalance, Clock, Tick, paywallVars, walletVars
<1>5. CASE Reap
  BY <1>2, <1>5 DEF Reap, ReapExpiredHolds, ReapCutShort
<1>6. CASE Erase
  BY <1>6 DEF Erase, EraseUser, HoldsOfRequests, RowsOfRequests, LedgerKeysUnique
<1>7. QED
  BY <1>3, <1>4, <1>5, <1>6 DEF PaywallNext

\* What a step may change around a request that is not its own.
Undisturbed(q) ==
  /\ stage'[q] = stage[q] /\ pay'[q] = pay[q]
  /\ q \in metered' <=> q \in metered
  /\ q \in delivered' <=> q \in delivered
  /\ q \in denied' <=> q \in denied
  /\ Owner[q] \in accounts' => Owner[q] \in accounts
  /\ HoldsKeyed(q) = {} => HoldsKeyed(q)' = {}
  /\ Unbilled(q) => Unbilled(q)'
  /\ Owner[q] \in accounts' =>
       /\ RowsKeyed(SettleKey(q))' = RowsKeyed(SettleKey(q))
       /\ RowsKeyed(RefundKey(q))' = RowsKeyed(RefundKey(q))
       /\ Reserved(q) => Reserved(q)'
       /\ Reaped(q) => Reaped(q)'
       /\ claim[Owner[q]] = q => claim'[Owner[q]] = q

LEMMA SoundFrame ==
  ASSUME NEW q \in Requests, Undisturbed(q), StageSound(q), FreeSound(q), MoneySound(q)
  PROVE  StageSound(q)' /\ FreeSound(q)' /\ MoneySound(q)'
<1> USE DEF Undisturbed
<1>1. StageSound(q)' /\ FreeSound(q)'
  BY DEF StageSound, FreeSound
<1>2. Owner[q] \in accounts' =>
        /\ \A c : Charged(q, c)' <=> Charged(q, c)
        /\ Billed(q)' <=> Billed(q)
        /\ Unbilled(q)' <=> Unbilled(q)
        /\ Repaid(q)' <=> Repaid(q)
  BY DEF Charged, Billed, Unbilled, Repaid, Refunded
<1>3. Paid(q)' => Paid(q) /\ Owner[q] \in accounts'
  BY DEF Paid
<1>4. QED
  BY <1>1, <1>2, <1>3 DEF MoneySound

\* The reaper takes a hold only after it expired.
LEMMA ReapFrame ==
  ASSUME WalletTypeOK, NEW q \in Requests, NEW H \in SUBSET Expired, ReleaseAll(H)
  PROVE  /\ HoldsKeyed(q) = {} => HoldsKeyed(q)' = {}
         /\ Reserved(q) => Reserved(q)'
         /\ Reaped(q) => Reaped(q)'
<1>1. HoldsKeyed(q) = {} => HoldsKeyed(q)' = {}
  BY ReleaseRows DEF HoldsKeyed
<1>2. Reaped(q) => Reaped(q)'
  <2> SUFFICES ASSUME NEW h \in HoldsKeyed(q), h.status = "released", h.expiresAt < now
               PROVE  h \in HoldsKeyed(q)' /\ h.expiresAt < now'
    BY DEF Reaped
  <2>1. h \in holds' /\ now' = now
    BY ReleaseRows DEF HoldsKeyed
  <2>2. QED
    BY <2>1 DEF HoldsKeyed
<1>3. ASSUME NEW h \in HoldsKeyed(q), h.status = "active"
      PROVE  Reserved(q)'
  <2>1. CASE h \in H
    <3>1. h.expiresAt < now /\ h \in holds /\ h.key = q
      BY <2>1 DEF Expired, HoldsKeyed
    <3>2. /\ Ended(h, "released") \in holds' /\ Ended(h, "released").key = q
          /\ Ended(h, "released").status = "released"
          /\ Ended(h, "released").expiresAt < now'
      BY <1>3, <2>1, <3>1, ReleaseRows
    <3>3. QED
      BY <3>2 DEF Reserved, Reaped, HoldsKeyed
  <2>2. CASE h \notin H
    <3>1. h \in holds' /\ h.key = q
      BY <2>2, ReleaseRows DEF HoldsKeyed
    <3>2. QED
      BY <1>3, <3>1 DEF Reserved, HoldsKeyed
  <2>3. QED
    BY <2>1, <2>2
<1>4. Reserved(q) => Reserved(q)'
  BY <1>2, <1>3 DEF Reserved
<1>5. QED
  BY <1>1, <1>2, <1>4

LEMMA MoneyAround ==
  ASSUME MoneyInv, NEW q \in Requests,
         \/ Crash \/ TopUp \/ Erase \/ Reap \/ Clock \/ UNCHANGED paywallVars
  PROVE  StageSound(q)' /\ FreeSound(q)' /\ MoneySound(q)'
<1> USE DEF MoneyInv, RequestsInv
<1>0. StageSound(q) /\ FreeSound(q) /\ MoneySound(q) /\ Owner[q] \in Users
  BY RequestKeys
<1>1. CASE Crash
  <2>1. /\ stage' = [r \in Requests |-> IF stage[r] \in InFlight THEN "lost" ELSE stage[r]]
        /\ UNCHANGED <<holds, ledger, accounts, now, pay, claim, metered, delivered, denied>>
    BY <1>1 DEF Crash, walletVars
  <2>2. /\ HoldsKeyed(q)' = HoldsKeyed(q) /\ Unbilled(q)' = Unbilled(q)
        /\ Billed(q)' = Billed(q) /\ Reaped(q)' = Reaped(q) /\ Repaid(q)' = Repaid(q)
        /\ Paid(q)' = Paid(q)
    BY <2>1 DEF HoldsKeyed, Unbilled, Billed, Reaped, Repaid, Paid, Charged, Refunded, RowsKeyed
  <2>3. (stage'[q] = stage[q] /\ stage[q] \notin InFlight) \/ stage'[q] = "lost"
    BY <2>1
  <2>4. StageSound(q)' /\ FreeSound(q)'
    BY <1>0, <2>1, <2>3 DEF StageSound, FreeSound, InFlight
  <2>5. MoneySound(q)'
    BY <1>0, <2>1, <2>2, <2>3 DEF MoneySound, InFlight, Working
  <2>6. QED
    BY <2>4, <2>5
<1>2. CASE TopUp \/ UNCHANGED paywallVars
  <2>1. UNCHANGED <<holds, ledger, accounts, now, stage, pay, claim, metered, delivered, denied>>
    BY <1>2 DEF TopUp, CreditBalance, requestVars, paywallVars, walletVars
  <2>2. Undisturbed(q)
    BY <2>1 DEF Undisturbed, HoldsKeyed, RowsKeyed, Unbilled, Reserved, Reaped
  <2>3. QED
    BY <1>0, <2>2, SoundFrame
<1>3. CASE Clock
  <2>1. /\ UNCHANGED <<holds, ledger, accounts, stage, pay, claim, metered, delivered, denied>>
        /\ now' = now + 1 /\ now \in Nat
    BY <1>3 DEF Clock, Tick, requestVars, WalletTypeOK
  <2>2. \A h \in holds : h.expiresAt \in Nat
    BY DEF WalletTypeOK, Hold
  <2>3. Reaped(q) => Reaped(q)'
    BY <2>1, <2>2 DEF Reaped, HoldsKeyed
  <2>4. Undisturbed(q)
    BY <2>1, <2>3 DEF Undisturbed, HoldsKeyed, RowsKeyed, Unbilled, Reserved
  <2>5. QED
    BY <1>0, <2>4, SoundFrame
<1>4. CASE Reap
  <2>1. PICK H \in SUBSET Expired : ReleaseAll(H)
    BY <1>4 DEF Reap, ReapExpiredHolds, ReapCutShort
  <2>2. UNCHANGED <<ledger, accounts, now, stage, pay, claim, metered, delivered, denied>>
    BY <1>4, <2>1 DEF Reap, ReleaseAll, requestVars
  <2>3. /\ HoldsKeyed(q) = {} => HoldsKeyed(q)' = {}
        /\ Reserved(q) => Reserved(q)'
        /\ Reaped(q) => Reaped(q)'
    BY <2>1, ReapFrame
  <2>4. Undisturbed(q)
    BY <2>2, <2>3 DEF Undisturbed, RowsKeyed, Unbilled
  <2>5. QED
    BY <1>0, <2>4, SoundFrame
<1>5. CASE Erase
  <2>1. PICK u \in Users : EraseUser(u) /\ claim' = [claim EXCEPT ![u] = NoClaim]
    BY <1>5 DEF Erase
  <2>2. /\ accounts' = accounts \ {u} /\ now' = now
        /\ holds' = {h \in holds : h.user # u}
        /\ ledger' = {row \in ledger : row.user # u}
        /\ UNCHANGED <<stage, pay, metered, delivered, denied>>
    BY <1>5, <2>1 DEF Erase, EraseUser
  <2>3. /\ \A h \in HoldsKeyed(q) : h.user = Owner[q]
        /\ \A row \in RowsKeyed(SettleKey(q)) \cup RowsKeyed(RefundKey(q)) :
             row.user = Owner[q]
    BY KeysApart DEF MoneyTables, HoldsOfRequests, RowsOfRequests, HoldsKeyed, RowsKeyed
  <2>4. CASE Owner[q] # u
    <3>1. /\ HoldsKeyed(q)' = HoldsKeyed(q)
          /\ RowsKeyed(SettleKey(q))' = RowsKeyed(SettleKey(q))
          /\ RowsKeyed(RefundKey(q))' = RowsKeyed(RefundKey(q))
      BY <2>2, <2>3, <2>4 DEF HoldsKeyed, RowsKeyed
    <3>2. claim'[Owner[q]] = claim[Owner[q]]
      BY <1>0, <2>1, <2>4 DEF PaywallTypeOK
    <3>3. Undisturbed(q)
      BY <2>2, <3>1, <3>2 DEF Undisturbed, Unbilled, Reserved, Reaped
    <3>4. QED
      BY <1>0, <3>3, SoundFrame
  <2>5. CASE Owner[q] = u
    <3>1. Owner[q] \notin accounts'
      BY <2>2, <2>5
    <3>2. /\ HoldsKeyed(q) = {} => HoldsKeyed(q)' = {}
          /\ Unbilled(q) => Unbilled(q)'
      BY <2>2 DEF HoldsKeyed, RowsKeyed, Unbilled
    <3>3. Undisturbed(q)
      BY <2>2, <3>1, <3>2 DEF Undisturbed
    <3>4. QED
      BY <1>0, <3>3, SoundFrame
  <2>6. QED
    BY <2>4, <2>5
<1>6. QED
  BY <1>1, <1>2, <1>3, <1>4, <1>5

\* A request touches no other: not its stage, not its rows, not its claim.
LEMMA MoneyOther ==
  ASSUME MoneyInv, NEW r \in Requests, NEW q \in Requests, q # r, RequestStep(r)
  PROVE  StageSound(q)' /\ FreeSound(q)' /\ MoneySound(q)'
<1> USE DEF MoneyInv, RequestsInv
<1>0. StageSound(q) /\ FreeSound(q) /\ MoneySound(q) /\ Owner[q] \in Users
  BY RequestKeys
<1>1. /\ HoldsKeyed(q)' = HoldsKeyed(q)
      /\ RowsKeyed(SettleKey(q))' = RowsKeyed(SettleKey(q))
      /\ RowsKeyed(RefundKey(q))' = RowsKeyed(RefundKey(q))
      /\ UNCHANGED <<accounts, now>>
  BY MoneyFrame, RequestMoney DEF MoneyTables
<1>2. \/ UNCHANGED stage \/ \E s : stage' = [stage EXCEPT ![r] = s]
  BY DEF RequestStep, AdmitFree, AdmitPaid, OutOfCredits, Rejected, RunFails,
     RunReturns, ConverseNeverOpens, ResultInvalid, ResultSettles, ResultSettleRefused,
     ScoreSpends, ScoreSettles, ScoreFails, Persists, PersistFails,
     ConverseWriteThrows, ConverseFails, ConverseStops, Disconnect, Goto
<1>3. \/ UNCHANGED pay \/ \E s : pay' = [pay EXCEPT ![r] = s]
  BY DEF RequestStep, AdmitFree, AdmitPaid, OutOfCredits, Rejected, RunFails,
     RunReturns, ConverseNeverOpens, ResultInvalid, ResultSettles, ResultSettleRefused,
     ScoreSpends, ScoreSettles, ScoreFails, Persists, PersistFails,
     ConverseWriteThrows, ConverseFails, ConverseStops, Disconnect
<1>4. /\ metered' \in {metered, metered \cup {r}}
      /\ delivered' \in {delivered, delivered \cup {r}}
      /\ denied' \in {denied, denied \cup {r}}
  BY DEF RequestStep, AdmitFree, AdmitPaid, OutOfCredits, Rejected, RunFails,
     RunReturns, ConverseNeverOpens, ResultInvalid, ResultSettles, ResultSettleRefused,
     ScoreSpends, ScoreSettles, ScoreFails, Persists, PersistFails,
     ConverseWriteThrows, ConverseFails, ConverseStops, Disconnect
<1>5. \/ UNCHANGED claim
      \/ FreeAgain(r)
      \/ claim[Owner[r]] = NoClaim /\ claim' = [claim EXCEPT ![Owner[r]] = r]
  BY DEF RequestStep, AdmitFree, AdmitPaid, OutOfCredits, Rejected, RunFails,
     RunReturns, ConverseNeverOpens, ResultInvalid, ResultSettles, ResultSettleRefused,
     ScoreSpends, ScoreSettles, ScoreFails, Persists, PersistFails,
     ConverseWriteThrows, ConverseFails, ConverseStops, Disconnect
<1>6. claim[Owner[q]] = q => claim'[Owner[q]] = q
  BY <1>0, <1>5, PaywallAssumption DEF FreeAgain, PaywallTypeOK
<1>7. Undisturbed(q)
  BY <1>1, <1>2, <1>3, <1>4, <1>6
  DEF Undisturbed, Unbilled, Reserved, Reaped, PaywallTypeOK
<1>8. QED
  BY <1>0, <1>7, SoundFrame

LEMMA StageSelf ==
  ASSUME MoneyInv, NEW r \in Requests, RequestStep(r)
  PROVE  StageSound(r)' /\ FreeSound(r)'
<1> USE DEF MoneyInv, RequestsInv, PaywallTypeOK, Goto, InFlight, StageSound
<1>0. StageSound(r) /\ FreeSound(r) /\ Owner[r] \in Users
  BY RequestKeys
<1>1. UNCHANGED accounts
  BY RequestMoney DEF MoneyOp, EnsureWallet, PlaceHold, ReleaseHold, ReleaseAll,
     SettleHold, Refund, walletVars
<1>2. CASE AdmitFree(r) \/ AdmitPaid(r)
  BY <1>0, <1>1, <1>2 DEF AdmitFree, AdmitPaid, FreeSound
<1>3. CASE OutOfCredits(r) \/ Rejected(r)
  BY <1>0, <1>1, <1>3 DEF OutOfCredits, Rejected, FreeSound
<1>4. CASE RunFails(r) \/ ScoreFails(r)
  BY <1>0, <1>1, <1>4 DEF RunFails, ScoreFails, FreeSound
<1>5. CASE RunReturns(r) \/ ConverseNeverOpens(r) \/ Disconnect(r)
  BY <1>0, <1>1, <1>5 DEF RunReturns, ConverseNeverOpens, Disconnect, FreeSound
<1>6. CASE ResultInvalid(r) \/ ResultSettles(r) \/ ResultSettleRefused(r)
  BY <1>0, <1>1, <1>6 DEF ResultInvalid, ResultSettles, ResultSettleRefused, FreeSound
<1>7. CASE ScoreSpends(r) \/ ScoreSettles(r)
  BY <1>0, <1>1, <1>7 DEF ScoreSpends, ScoreSettles, FreeSound
<1>8. CASE Persists(r) \/ PersistFails(r)
  BY <1>0, <1>1, <1>8 DEF Persists, PersistFails, FreeSound
<1>9. CASE ConverseWriteThrows(r) \/ ConverseFails(r) \/ ConverseStops(r)
  BY <1>0, <1>1, <1>9 DEF ConverseWriteThrows, ConverseFails, ConverseStops, FreeSound
<1>10. QED
  BY <1>2, <1>3, <1>4, <1>5, <1>6, <1>7, <1>8, <1>9 DEF RequestStep

\* A settle bills a request that was not billed.
LEMMA SettleBills ==
  ASSUME MoneyInv, NEW r \in Requests, NEW c \in Costs, SettleHold(r, c, SettleKey(r)),
         Unbilled(r)
  PROVE  Billed(r)'
<1>1. PICK row : /\ row.key = SettleKey(r) /\ row.charged \in Costs
                 /\ ledger' = ledger \cup {row}
  BY SettleRow DEF MoneyInv, RequestsInv, MoneyTables
<1>2. row \in RowsKeyed(SettleKey(r))'
  BY <1>1 DEF RowsKeyed
<1>3. RowsKeyed(RefundKey(r))' = {}
  BY <1>1, KeysApart DEF RowsKeyed, Unbilled
<1>4. QED
  BY <1>1, <1>2, <1>3 DEF Billed, Charged, Refunded

\* Only a hold that was reaped refuses to be settled.
LEMMA RefusedIsReaped ==
  ASSUME NEW r, SettleRefused(r, SettleKey(r)), Reserved(r)
  PROVE  Reaped(r)
BY DEF SettleRefused, Reserved

\* A refund of the charge gives it back.
LEMMA RefundRepays ==
  ASSUME MoneyInv, NEW r \in Requests, NEW c \in Costs, Charged(r, c),
         Refund(Owner[r], r, c, RefundKey(r))
  PROVE  Repaid(r)'
<1>1. PICK row : /\ row.key = RefundKey(r) /\ row.charged = -c
                 /\ ledger' = ledger \cup {row}
  BY RefundRow
<1>2. RowsKeyed(SettleKey(r))' = RowsKeyed(SettleKey(r))
  BY <1>1, KeysApart DEF RowsKeyed
<1>3. row \in RowsKeyed(RefundKey(r))'
  BY <1>1 DEF RowsKeyed
<1>4. \A d : Charged(r, d)' => d = c
  BY <1>2 DEF Charged, RowsKeyed, MoneyInv, MoneyTables, LedgerKeysUnique
<1>5. QED
  BY <1>1, <1>3, <1>4 DEF Repaid

LEMMA MoneySelf ==
  ASSUME MoneyInv, NEW r \in Requests, RequestStep(r)
  PROVE  MoneySound(r)'
<1> USE DEF RequestsInv, PaywallTypeOK, Goto, InFlight, Working
<1>0. /\ StageSound(r) /\ MoneySound(r) /\ Owner[r] \in Users
      /\ RequestsInv /\ MoneyTables
  BY RequestKeys DEF MoneyInv
<1> DEFINE Same == UNCHANGED <<holds, ledger, accounts, now>>
<1>1. ASSUME Same
      PROVE  /\ HoldsKeyed(r)' = HoldsKeyed(r) /\ Unbilled(r)' = Unbilled(r)
             /\ Reserved(r)' = Reserved(r) /\ Reaped(r)' = Reaped(r)
             /\ Billed(r)' = Billed(r) /\ Repaid(r)' = Repaid(r)
  BY <1>1 DEF HoldsKeyed, Unbilled, Reserved, Reaped, Billed, Repaid, Charged,
              Refunded, RowsKeyed
<1>2. Unbilled(r) => Repaid(r)
  BY DEF Unbilled, Repaid, Charged
<1>3. CASE AdmitFree(r)
  <2>1. Same
    BY <1>3 DEF AdmitFree, walletVars
  <2>2. pay[r] = "none" /\ pay'[r] = "free"
    BY <1>0, <1>3 DEF AdmitFree, StageSound
  <2>3. HoldsKeyed(r)' = {} /\ Unbilled(r)'
    BY <1>0, <1>1, <2>1, <2>2 DEF MoneySound
  <2>4. QED
    BY <2>2, <2>3 DEF MoneySound, Paid
<1>4. CASE AdmitPaid(r)
  <2>1. PICK h : h.key = r /\ h.status = "active" /\ holds' = holds \cup {h}
    BY <1>0, <1>4, PlaceRow DEF AdmitPaid
  <2>2. ledger' = ledger
    BY <1>0, <1>4, PlaceRow DEF AdmitPaid
  <2>3. Reserved(r)'
    BY <2>1 DEF Reserved, HoldsKeyed
  <2>4. Unbilled(r) /\ Unbilled(r)'
    BY <1>0, <1>4, <2>2 DEF AdmitPaid, MoneySound, StageSound, Unbilled, RowsKeyed
  <2>5. QED
    BY <1>0, <1>4, <2>3, <2>4 DEF AdmitPaid, MoneySound, StageSound
<1>5. CASE OutOfCredits(r) \/ Rejected(r)
  <2>1. Same
    BY <1>5 DEF OutOfCredits, EnsureWallet, Rejected, walletVars
  <2>2. stage[r] = "new" /\ UNCHANGED <<pay, delivered, denied>>
    BY <1>5 DEF OutOfCredits, Rejected
  <2>3. pay[r] = "none" /\ pay'[r] = "none"
    BY <1>0, <2>2 DEF StageSound
  <2>4. HoldsKeyed(r)' = {} /\ Unbilled(r)'
    BY <1>0, <1>1, <2>1, <2>3 DEF MoneySound
  <2>5. QED
    BY <2>3, <2>4 DEF MoneySound, Paid
<1>6. CASE \/ RunFails(r) \/ ResultInvalid(r) \/ ScoreFails(r)
           \/ ConverseWriteThrows(r) \/ ConverseFails(r)
  <2>1. /\ SafeRelease(r)
        /\ stage[r] \in Working /\ stage' = [stage EXCEPT ![r] = "ended"]
        /\ UNCHANGED <<pay, delivered, denied>>
    BY <1>6 DEF RunFails, ResultInvalid, ScoreFails, ConverseWriteThrows, ConverseFails
  <2>2. /\ ledger' = ledger /\ accounts' = accounts
        /\ HoldsKeyed(r) = {} => HoldsKeyed(r)' = {}
    BY <2>1 DEF SafeRelease, ReleaseHold, ReleaseAll, HoldsKeyed, walletVars
  <2>3. Unbilled(r)' = Unbilled(r) /\ Repaid(r)' = Repaid(r)
    BY <2>2 DEF Unbilled, Repaid, Charged, RowsKeyed
  <2>4. QED
    BY <1>0, <1>2, <2>1, <2>2, <2>3 DEF MoneySound, StageSound, Paid
<1>7. CASE RunReturns(r) \/ ConverseNeverOpens(r)
  <2>1. Same
    BY <1>7 DEF RunReturns, ConverseNeverOpens, walletVars
  <2>2. /\ stage[r] = "running"
        /\ stage'[r] \in {"result", "score", "converse", "failed"}
        /\ UNCHANGED <<pay, delivered, denied>>
    BY <1>0, <1>7 DEF RunReturns, ConverseNeverOpens
  <2>3. QED
    BY <1>0, <1>1, <2>1, <2>2 DEF MoneySound, StageSound, Paid
<1>8. CASE ScoreSpends(r) \/ Disconnect(r)
  <2>1. Same
    BY <1>8 DEF ScoreSpends, Disconnect, walletVars
  <2>2. QED
    BY <1>0, <1>1, <1>8, <2>1 DEF ScoreSpends, Disconnect, MoneySound, Paid
<1>9. CASE ResultSettles(r) \/ ScoreSettles(r) \/ ConverseStops(r)
  <2>1. /\ stage[r] \in {"result", "score", "converse"}
        /\ UNCHANGED <<pay, denied>>
        /\ \/ stage'[r] \in {"settled", "unsettled"} /\ UNCHANGED delivered
           \/ stage'[r] = "ended" /\ delivered' = delivered \cup {r}
    BY <1>0, <1>9 DEF ResultSettles, ScoreSettles, ConverseStops
  <2>2. CASE \E c \in Costs : SettleHold(r, c, SettleKey(r))
    <3>1. accounts' = accounts
      BY <2>2 DEF SettleHold
    <3>2. HoldsKeyed(r) # {}
      BY <2>2 DEF SettleHold
    <3>3. pay[r] = "paid" /\ stage'[r] # "unsettled"
      <4>1. pay[r] = "paid"
        BY <1>0, <3>2 DEF MoneySound
      <4>2. ~SettleRefused(r, SettleKey(r))
        BY <2>2 DEF SettleHold, SettleRefused
      <4>4. CASE ResultSettles(r) \/ ConverseStops(r)
        BY <1>0, <4>1, <4>4 DEF ResultSettles, ConverseStops
      <4>5. CASE ScoreSettles(r)
        BY <1>0, <4>1, <4>2, <4>5 DEF ScoreSettles
      <4>6. QED
        BY <1>9, <4>1, <4>4, <4>5
    <3>4. Paid(r)' => Billed(r)'
      BY <1>0, <2>1, <2>2, <3>1, <3>3, SettleBills DEF MoneySound, Paid
    <3>5. QED
      BY <1>0, <2>1, <3>1, <3>3, <3>4 DEF MoneySound, StageSound
  <2>3. CASE pay[r] = "free" /\ UNCHANGED walletVars
    <3>1. Same
      BY <2>3 DEF walletVars
    <3>2. QED
      BY <1>0, <1>1, <2>1, <2>3, <3>1 DEF MoneySound, Paid
  <2>4. CASE /\ SettleRefused(r, SettleKey(r)) /\ UNCHANGED walletVars
             /\ stage'[r] \in {"unsettled", "ended"}
    <3>1. Same
      BY <2>4 DEF walletVars
    <3>2. Paid(r) => Unbilled(r) /\ Reaped(r)
      BY <1>0, <2>1, <2>4, RefusedIsReaped DEF MoneySound
    <3>3. Paid(r)' = Paid(r)
      BY <2>1, <3>1 DEF Paid
    <3>4. QED
      BY <1>0, <1>1, <2>1, <2>4, <3>1, <3>2, <3>3 DEF MoneySound, StageSound
  <2>5. QED
    BY <1>0, <1>9, <2>2, <2>3, <2>4 DEF ResultSettles, ScoreSettles, ConverseStops
<1>10. CASE ResultSettleRefused(r)
  <2>1. Same
    BY <1>10 DEF ResultSettleRefused, walletVars
  <2>2. QED
    BY <1>0, <1>1, <1>2, <1>10, <2>1 DEF ResultSettleRefused, MoneySound, StageSound, Paid
<1>11. CASE Persists(r)
  <2>1. Same
    BY <1>11 DEF Persists, walletVars
  <2>2. QED
    BY <1>0, <1>1, <1>11, <2>1 DEF Persists, MoneySound, StageSound, Paid
<1>12. CASE PersistFails(r)
  <2>1. /\ stage[r] \in {"settled", "unsettled"} /\ stage'[r] = "ended"
        /\ UNCHANGED <<pay, delivered>>
    BY <1>0, <1>12 DEF PersistFails
  <2>2. CASE \E c \in Costs : Charged(r, c) /\ Refund(Owner[r], r, c, RefundKey(r))
    <3>1. accounts' = accounts /\ Repaid(r)'
      BY <2>2, RefundRepays DEF Refund
    <3>2. pay[r] = "paid"
      BY <1>0, <2>2 DEF MoneySound, Unbilled, Charged
    <3>3. QED
      BY <1>0, <2>1, <3>1, <3>2 DEF MoneySound, StageSound, Paid
  <2>3. CASE UNCHANGED walletVars /\ denied' = denied \cup {r}
    <3>1. Same
      BY <2>3 DEF walletVars
    <3>2. QED
      BY <1>0, <1>1, <2>1, <2>3, <3>1 DEF MoneySound, StageSound, Paid
  <2>4. CASE /\ ~\E c \in Costs : Charged(r, c)
             /\ UNCHANGED <<walletVars, denied>>
    <3>1. Same /\ Repaid(r)
      BY <2>4 DEF walletVars, Repaid
    <3>2. QED
      BY <1>0, <1>1, <2>1, <2>4, <3>1 DEF MoneySound, StageSound, Paid
  <2>5. QED
    BY <1>12, <2>2, <2>3, <2>4 DEF PersistFails
<1>13. QED
  BY <1>3, <1>4, <1>5, <1>6, <1>7, <1>8, <1>9, <1>10, <1>11, <1>12 DEF RequestStep

THEOREM MoneyInvariant == PaywallSpec => []MoneyInv
<1>1. PaywallInit => MoneyTables /\ \A q \in Requests :
        StageSound(q) /\ FreeSound(q) /\ MoneySound(q)
  BY DEF PaywallInit, WalletInit, MoneyTables, HoldsOfRequests, RowsOfRequests,
     LedgerKeysUnique, StageSound, FreeSound, MoneySound, HoldsKeyed, Unbilled,
     RowsKeyed, Paid
<1>2. RequestsInv /\ RequestsInv' /\ MoneyInv /\ [PaywallNext]_paywallVars => MoneyInv'
  <2> SUFFICES ASSUME RequestsInv', MoneyInv, [PaywallNext]_paywallVars
               PROVE  MoneyInv'
    OBVIOUS
  <2>1. MoneyTables'
    BY MoneyTablesStep DEF MoneyInv
  <2>2. ASSUME NEW q \in Requests
        PROVE  StageSound(q)' /\ FreeSound(q)' /\ MoneySound(q)'
    <3>1. CASE \E r \in Requests : RequestStep(r)
      BY <3>1, MoneyOther, StageSelf, MoneySelf
    <3>2. CASE ~\E r \in Requests : RequestStep(r)
      BY <3>2, MoneyAround DEF PaywallNext
    <3>3. QED
      BY <3>1, <3>2
  <2>3. QED
    BY <2>1, <2>2 DEF MoneyInv
<1>3. QED
  BY <1>1, <1>2, RequestsInvariant, PTL DEF PaywallSpec, MoneyInv

\* A paid turn that reached the conversation was charged and the charge kept,
\* unless the reaper had its hold.
THEOREM PaywallChargesDelivered == PaywallSpec => []DeliveredIsCharged
<1>1. MoneyInv => DeliveredIsCharged
  BY DEF MoneyInv, RequestsInv, PaywallTypeOK, MoneySound, Billed, DeliveredIsCharged
<1>2. QED
  BY <1>1, MoneyInvariant, PTL

\* A paid turn that ended short of the conversation costs nothing, unless its
\* refund was denied.
THEOREM PaywallChargesNothingElse == PaywallSpec => []UndeliveredIsFree
<1>1. MoneyInv => UndeliveredIsFree
  BY DEF MoneyInv, MoneySound, Repaid, UndeliveredIsFree
<1>2. QED
  BY <1>1, MoneyInvariant, PTL

\* The free piece of a user is in one hand at a time, and kept once it cost
\* something.
THEOREM PaywallGivesOnePiece == PaywallSpec => []FreePieceOnce
<1>1. MoneyInv => FreePieceOnce
  BY DEF MoneyInv, FreeSound, FreePieceOnce
<1>2. QED
  BY <1>1, MoneyInvariant, PTL

\* What was shown of the ledgers of a wallet holds whatever requests do.
COROLLARY PaywallLedgers ==
  PaywallSpec => [](ChargedOncePerHold /\ Reconciles /\ RefundCeiling)
BY PaywallUsesWallet, WalletChargesOnce, WalletReconciles, WalletRefundCeiling, PTL
DEF UsesWallet

=============================================================================
