------------------------------- MODULE Paywall ------------------------------
(***************************************************************************)
(* The money path of a chat request: handleChat and its three responders   *)
(* in src/src/app/api/chat/route.ts, over the wallet engine and the free   *)
(* full piece (src/src/lib/billing/freePiece.ts).                          *)
(*                                                                         *)
(* A request is one run of handleChat.  The code between two awaits is one *)
(* step: admission (free-piece claim, quota, wallet, hold) is a single     *)
(* step because nothing in it awaits, and so is a settle with what leads   *)
(* to it.  Every await in between (the orchestrator, the next event of a   *)
(* stream, the persistence of the turn) is a place where other requests,   *)
(* the reaper, an erasure, a client disconnect or a crash can come first.  *)
(*                                                                         *)
(* Requests off the money path (free tier, anonymous, own provider key)    *)
(* never touch the state below and are left out.                           *)
(***************************************************************************)
EXTENDS CreditWallet

CONSTANTS
  Requests,    \* the requests that may arrive
  Owner,       \* the user of each request
  Verified,    \* the users with a verified e-mail address
  NoClaim,
  MinToStart,  \* worstCaseHoldCredits
  MaxHold      \* maxGenerationHoldCredits

SettleKey(r) == <<"settle", r>>
RefundKey(r) == <<"refund", r>>

ASSUME PaywallAssumption ==
  /\ HoldKeys = Requests                          \* gen:<requestId>
  /\ LedgerKeys = {"settle", "refund"} \X Requests
  /\ Owner \in [Requests -> Users]
  /\ Verified \subseteq Users
  /\ NoClaim \notin Requests
  /\ MinToStart \in Nat \ {0}
  /\ MaxHold \in Nat /\ MinToStart <= MaxHold
  /\ MinToStart .. MaxHold \subseteq Amounts

VARIABLES
  stage,      \* where the run of handleChat is
  pay,        \* how it was admitted
  claim,      \* users.free_full_piece_claim_token
  metered,    \* requests whose stream has cost something
  gone,       \* requests whose client closed the connection
  broken,     \* requests the provider or the validator failed
  delivered,  \* requests whose result is in the conversation
  denied      \* requests whose refund did not go through

requestVars == <<stage, pay, claim, metered, gone, broken, delivered, denied>>
paywallVars == <<walletVars, requestVars>>

\* "result", "converse" and "score" are the three responders; "settled" and
\* "unsettled" wait for the turn to be persisted; "lost" died with the
\* process; "failed" left handleChat by an exception outside its handlers.
InFlight == {"running", "result", "converse", "score", "settled", "unsettled"}
Over == {"ended", "failed", "lost"}

PaywallInit ==
  /\ WalletInit
  /\ stage = [r \in Requests |-> "new"]
  /\ pay = [r \in Requests |-> "none"]
  /\ claim = [u \in Users |-> NoClaim]
  /\ metered = {}
  /\ gone = {}
  /\ broken = {}
  /\ delivered = {}
  /\ denied = {}

-----------------------------------------------------------------------------
(* Shared steps *)

Goto(r, s) == stage' = [stage EXCEPT ![r] = s]

\* Bug: the hold's row ends and the wallet keeps the reservation.
SafeReleaseRowOnly(r) ==
  /\ holds' = {IF h.key = r /\ h.status = "active" THEN Ended(h, "released") ELSE h :
                 h \in holds}
  /\ UNCHANGED <<accounts, opened, balance, held, ledger, purchases, refunds, now>>

\* safeReleaseHold: nothing happens unless the hold is still active.
SafeRelease(r) ==
  \/ ReleaseHold(r)
  \/ /\ \A h \in HoldsKeyed(r) : h.status # "active"
     /\ UNCHANGED walletVars

\* safeReleaseFreePiece: only the claim that carries the request's token.
FreeAgain(r) == claim' = [u \in Users |-> IF claim[u] = r THEN NoClaim ELSE claim[u]]

\* generationHoldCredits: the available balance between the floor and the cap.
GenerationHold(u) ==
  IF Available(u) <= MinToStart THEN MinToStart
  ELSE IF Available(u) <= MaxHold THEN Available(u) ELSE MaxHold

\* What a delivered turn costs; an unreadable cost is charged a fallback.
Costs == Amounts \ {0}

-----------------------------------------------------------------------------
(* Admission *)

\* Bug: the claim carries the user instead of the request's token.
AdmitFreeByUser(r) ==
  /\ stage[r] = "new"
  /\ Owner[r] \in accounts \cap Verified
  /\ claim[Owner[r]] = NoClaim
  /\ claim' = [claim EXCEPT ![Owner[r]] = Owner[r]]
  /\ pay' = [pay EXCEPT ![r] = "free"]
  /\ Goto(r, "running")
  /\ UNCHANGED <<walletVars, metered, gone, broken, delivered, denied>>

\* Bug: the claim is taken without the "IS NULL" guard.
AdmitFreeUnguarded(r) ==
  /\ stage[r] = "new"
  /\ Owner[r] \in accounts \cap Verified
  /\ claim' = [claim EXCEPT ![Owner[r]] = r]
  /\ pay' = [pay EXCEPT ![r] = "free"]
  /\ Goto(r, "running")
  /\ UNCHANGED <<walletVars, metered, gone, broken, delivered, denied>>

\* A from-scratch request of a verified user takes the one free piece.
AdmitFree(r) ==
  /\ stage[r] = "new"
  /\ Owner[r] \in accounts \cap Verified
  /\ claim[Owner[r]] = NoClaim
  /\ claim' = [claim EXCEPT ![Owner[r]] = r]
  /\ pay' = [pay EXCEPT ![r] = "free"]
  /\ Goto(r, "running")
  /\ UNCHANGED <<walletVars, metered, gone, broken, delivered, denied>>

\* ensureWallet finds the row: only a wallet has credits available.
AdmitPaid(r) ==
  /\ stage[r] = "new"
  /\ Available(Owner[r]) >= MinToStart
  /\ PlaceHold(Owner[r], r, GenerationHold(Owner[r]))
  /\ pay' = [pay EXCEPT ![r] = "paid"]
  /\ Goto(r, "running")
  /\ UNCHANGED <<claim, metered, gone, broken, delivered, denied>>

\* 402: the wallet was opened and cannot pay.
OutOfCredits(r) ==
  /\ stage[r] = "new"
  /\ Available(Owner[r]) < MinToStart
  /\ EnsureWallet(Owner[r])
  /\ Goto(r, "ended")
  /\ UNCHANGED <<pay, claim, metered, gone, broken, delivered, denied>>

\* The daily quota, or an account erased meanwhile.  A free piece claimed on
\* the way is given back in the same step.
Rejected(r) ==
  /\ stage[r] = "new"
  /\ Goto(r, "ended")
  /\ UNCHANGED <<walletVars, pay, claim, metered, gone, broken, delivered, denied>>

-----------------------------------------------------------------------------
(* The orchestrator returns *)

\* It throws, refuses, falls through or was switched off: releasePreDispatch.
RunFails(r) ==
  /\ stage[r] = "running"
  /\ SafeRelease(r)
  /\ FreeAgain(r)
  /\ broken' = broken \cup {r}
  /\ Goto(r, "ended")
  /\ UNCHANGED <<pay, metered, gone, delivered, denied>>

\* A conversation needs a score, a free piece starts without one.
RunReturns(r) ==
  /\ stage[r] = "running"
  /\ \/ \E s \in {"result", "score"} : Goto(r, s)
     \/ pay[r] = "paid" /\ Goto(r, "converse")
  /\ UNCHANGED <<walletVars, pay, claim, metered, gone, broken, delivered, denied>>

\* appendStreamingAssistant throws before the converse stream exists.
ConverseNeverOpens(r) ==
  /\ stage[r] = "running"
  /\ pay[r] = "paid"
  /\ broken' = broken \cup {r}
  /\ Goto(r, "failed")
  /\ UNCHANGED <<walletVars, pay, claim, metered, gone, delivered, denied>>

-----------------------------------------------------------------------------
(* respondWithOrchestratorResult *)

\* Bug: the early return of an invalid result forgets the hold.
ResultInvalidKeepsHold(r) ==
  /\ stage[r] = "result"
  /\ broken' = broken \cup {r}
  /\ Goto(r, "ended")
  /\ UNCHANGED <<walletVars, pay, claim, metered, gone, delivered, denied>>

\* validateScore or validateAbc.  A claimed free piece stays used.
ResultInvalid(r) ==
  /\ stage[r] = "result"
  /\ SafeRelease(r)
  /\ broken' = broken \cup {r}
  /\ Goto(r, "ended")
  /\ UNCHANGED <<pay, claim, metered, gone, delivered, denied>>

ResultSettles(r) ==
  /\ stage[r] = "result"
  /\ \/ pay[r] = "free" /\ UNCHANGED walletVars
     \/ pay[r] = "paid" /\ \E c \in Costs : SettleHold(r, c, SettleKey(r))
  /\ Goto(r, "settled")
  /\ UNCHANGED <<pay, claim, metered, gone, broken, delivered, denied>>

\* hold_not_active: refuse to deliver.
ResultSettleRefused(r) ==
  /\ stage[r] = "result"
  /\ pay[r] = "paid"
  /\ SettleRefused(r, SettleKey(r))
  /\ Goto(r, "ended")
  /\ UNCHANGED <<walletVars, pay, claim, metered, gone, broken, delivered, denied>>

-----------------------------------------------------------------------------
(* respondWithScoreStream *)

\* A provider call of the pump: the planner, a seed, an extension.
ScoreSpends(r) ==
  /\ stage[r] = "score"
  /\ r \notin metered
  /\ metered' = metered \cup {r}
  /\ UNCHANGED <<walletVars, stage, pay, claim, gone, broken, delivered, denied>>

\* Bug: a stream whose client left is persisted without a settle.
ScoreSettlesIfHeard(r) ==
  /\ stage[r] = "score"
  /\ r \in metered
  /\ IF pay[r] = "paid" /\ r \notin gone
     THEN /\ \E c \in Costs : SettleHold(r, c, SettleKey(r))
          /\ Goto(r, "settled")
     ELSE UNCHANGED walletVars /\ Goto(r, "unsettled")
  /\ UNCHANGED <<pay, claim, metered, gone, broken, delivered, denied>>

\* finishStream, at the end of the piece or at an early stop: a refused
\* settle is logged and the piece is delivered all the same.
ScoreSettles(r) ==
  /\ stage[r] = "score"
  /\ r \in metered
  /\ \/ /\ pay[r] = "paid"
        /\ \E c \in Costs : SettleHold(r, c, SettleKey(r))
        /\ Goto(r, "settled")
     \/ /\ pay[r] = "free"
        /\ UNCHANGED walletVars
        /\ Goto(r, "settled")
     \/ /\ pay[r] = "paid"
        /\ SettleRefused(r, SettleKey(r))
        /\ UNCHANGED walletVars
        /\ Goto(r, "unsettled")
  /\ UNCHANGED <<pay, claim, metered, gone, broken, delivered, denied>>

\* An error event or an exception: the hold is released, and the free piece
\* is given back if the stream cost nothing.
ScoreFails(r) ==
  /\ stage[r] = "score"
  /\ SafeRelease(r)
  /\ IF r \in metered THEN UNCHANGED claim ELSE FreeAgain(r)
  /\ broken' = broken \cup {r}
  /\ Goto(r, "ended")
  /\ UNCHANGED <<pay, metered, gone, delivered, denied>>

-----------------------------------------------------------------------------
(* Persisting the turn (result and score) *)

Persists(r) ==
  /\ stage[r] \in {"settled", "unsettled"}
  /\ Owner[r] \in accounts
  /\ delivered' = delivered \cup {r}
  /\ Goto(r, "ended")
  /\ UNCHANGED <<walletVars, pay, claim, metered, gone, broken, denied>>

\* What the settle charged, which the responder remembers.
Charged(r, c) == \E row \in RowsKeyed(SettleKey(r)) : row.charged = c

\* Bug: the turn is lost and its charge kept.
PersistFailsKeepsCharge(r) ==
  /\ stage[r] \in {"settled", "unsettled"}
  /\ broken' = broken \cup {r}
  /\ Goto(r, "ended")
  /\ UNCHANGED <<walletVars, pay, claim, metered, gone, delivered, denied>>

\* The charge goes back.  A refund that throws (the account is gone) or is
\* denied (the daily ceiling) leaves the user charged.
PersistFails(r) ==
  /\ stage[r] \in {"settled", "unsettled"}
  /\ \/ /\ \E c \in Costs : Charged(r, c) /\ Refund(Owner[r], r, c, RefundKey(r))
        /\ UNCHANGED denied
     \/ /\ \E c \in Costs :
             /\ Charged(r, c)
             /\ RefundDenied(Owner[r], c, RefundKey(r))
        /\ denied' = denied \cup {r}
        /\ UNCHANGED walletVars
     \/ /\ ~\E c \in Costs : Charged(r, c)
        /\ UNCHANGED <<walletVars, denied>>
  /\ broken' = broken \cup {r}
  /\ Goto(r, "ended")
  /\ UNCHANGED <<pay, claim, metered, gone, delivered>>

-----------------------------------------------------------------------------
(* respondWithConverseStream *)

\* A text delta for a client that left: the unguarded write throws, the pump
\* ends and its finally releases the hold.
ConverseWriteThrows(r) ==
  /\ stage[r] = "converse"
  /\ r \in gone
  /\ SafeRelease(r)
  /\ Goto(r, "ended")
  /\ UNCHANGED <<pay, claim, metered, gone, broken, delivered, denied>>

ConverseFails(r) ==
  /\ stage[r] = "converse"
  /\ SafeRelease(r)
  /\ broken' = broken \cup {r}
  /\ Goto(r, "ended")
  /\ UNCHANGED <<pay, claim, metered, gone, delivered, denied>>

\* message-stop: the text was already sent, a refused settle is only logged.
ConverseStops(r) ==
  /\ stage[r] = "converse"
  /\ \/ \E c \in Costs : SettleHold(r, c, SettleKey(r))
     \/ SettleRefused(r, SettleKey(r)) /\ UNCHANGED walletVars
  /\ delivered' = delivered \cup {r}
  /\ Goto(r, "ended")
  /\ UNCHANGED <<pay, claim, metered, gone, broken, denied>>

-----------------------------------------------------------------------------
(* Around the requests *)

Disconnect(r) ==
  /\ stage[r] \in InFlight
  /\ r \notin gone
  /\ gone' = gone \cup {r}
  /\ UNCHANGED <<walletVars, stage, pay, claim, metered, broken, delivered, denied>>

\* The process dies and starts again: only the database is left.
Crash ==
  /\ \E r \in Requests : stage[r] \in InFlight
  /\ stage' = [r \in Requests |-> IF stage[r] \in InFlight THEN "lost" ELSE stage[r]]
  /\ UNCHANGED <<walletVars, pay, claim, metered, gone, broken, delivered, denied>>

TopUp ==
  /\ \E u \in Users, d \in Deltas, ref \in Refs : CreditBalance(u, d, ref)
  /\ UNCHANGED requestVars

\* The claim is a column of the users row.
Erase ==
  /\ \E u \in Users : EraseUser(u) /\ claim' = [claim EXCEPT ![u] = NoClaim]
  /\ UNCHANGED <<stage, pay, metered, gone, broken, delivered, denied>>

Reap == (ReapExpiredHolds \/ ReapCutShort) /\ UNCHANGED requestVars

Clock == Tick /\ UNCHANGED requestVars

RequestStep(r) ==
  \/ AdmitFree(r) \/ AdmitPaid(r) \/ OutOfCredits(r) \/ Rejected(r)
  \/ RunFails(r) \/ RunReturns(r) \/ ConverseNeverOpens(r)
  \/ ResultInvalid(r) \/ ResultSettles(r) \/ ResultSettleRefused(r)
  \/ ScoreSpends(r) \/ ScoreSettles(r) \/ ScoreFails(r)
  \/ Persists(r) \/ PersistFails(r)
  \/ ConverseWriteThrows(r) \/ ConverseFails(r) \/ ConverseStops(r)
  \/ Disconnect(r)

PaywallNext ==
  \/ \E r \in Requests : RequestStep(r)
  \/ Crash \/ TopUp \/ Erase \/ Reap \/ Clock

PaywallSpec == PaywallInit /\ [][PaywallNext]_paywallVars

\* The scheduler's interval and the clock never stop (scheduler.ts); a request
\* may stop anywhere.
PaywallFairSpec ==
  /\ PaywallSpec
  /\ WF_paywallVars(ReapExpiredHolds /\ UNCHANGED requestVars)
  /\ WF_paywallVars(Clock)

-----------------------------------------------------------------------------
(* Properties *)

Paid(r) == pay[r] = "paid" /\ Owner[r] \in accounts

\* The reaper took the hold away from under the request.
Reaped(r) == \E h \in HoldsKeyed(r) : h.status = "released" /\ h.expiresAt < now

Refunded(r) == RowsKeyed(RefundKey(r)) # {}

PaywallTypeOK ==
  /\ stage \in [Requests -> {"new"} \cup InFlight \cup Over]
  /\ pay \in [Requests -> {"none", "paid", "free"}]
  /\ claim \in [Users -> Requests \cup {NoClaim}]
  /\ \A S \in {metered, gone, broken, delivered, denied} : S \subseteq Requests

\* A paid turn that reached the conversation was charged and its charge was
\* kept; the only way round it is a hold that expired and was reaped while
\* the request ran.
DeliveredIsCharged ==
  \A r \in delivered :
    Paid(r) => \/ (\E c \in Costs : Charged(r, c)) /\ ~Refunded(r)
               \/ Reaped(r)

\* A paid turn that ended and did not reach the conversation costs nothing:
\* its hold was released, or its charge refunded in full.
UndeliveredIsFree ==
  \A r \in Requests \ (delivered \cup denied) :
    Paid(r) /\ stage[r] = "ended" =>
      \A c \in Costs : Charged(r, c) => \E row \in RowsKeyed(RefundKey(r)) : row.charged = -c

\* No exit of a responder forgets its hold: an active hold has a request
\* that will still settle or release it, or one that died without a chance
\* to.
HoldsHaveRequests ==
  \A h \in holds : h.status = "active" => stage[h.key] \in InFlight \cup {"lost", "failed"}

\* The free piece of a user is in one hand at a time and given once: two
\* requests of a user never both run free unless the first gave it back, and
\* a claim that is kept was paid for with provider cost or is in use.
FreePieceOnce ==
  \A r \in Requests :
    pay[r] = "free" /\ Owner[r] \in accounts =>
      /\ stage[r] \in InFlight \/ r \in delivered => claim[Owner[r]] = r
      /\ stage[r] = "ended" /\ r \in metered => claim[Owner[r]] = r

\* Every step of the money path is one of the wallet's operations or leaves
\* the wallet alone, so what is shown of the wallet holds here.
UsesWallet == WalletSpec

\* settleHeldGeneration: a refused settle is "a hard error - never deliver
\* an uncharged generation".  Said here of a streamed score, whose responder
\* settles before it persists and could still refuse.
NeverDeliverUncharged ==
  \A r \in delivered \cap metered : Paid(r) => \E c \in Costs : Charged(r, c)

\* MONEY INVARIANT of the converse responder: the hold "is SETTLED at
\* message-stop even on disconnect (a real user abort is charged)".
DisconnectIsCharged ==
  \A r \in gone \ broken :
    Paid(r) /\ stage[r] = "ended" /\ ~Reaped(r) => \E c \in Costs : Charged(r, c)

=============================================================================
