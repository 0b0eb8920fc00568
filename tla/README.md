# Formal models of sheet-llm

sheet-llm is a music-notation editor with a chat: a user asks for a piece or an
edit, language models answer, and the hosted edition sells credits for the
expensive requests.  The program is one long-lived Node process (Next.js,
TypeScript) over better-sqlite3.  Paths below are relative to the repository,
whose root is `src/`.

Two facts about that deployment decide what an atomic step of the models is:

* every `db.transaction` is synchronous, and so is every single statement: code
  between two `await`s is never interleaved with another request;
* the process can die at any point, and only the database survives it.

## 1. Inventory

| Component | State | Operations | Interacts with | Hard behaviour | Correct when |
|---|---|---|---|---|---|
| Credit wallet (`lib/billing/wallet.ts`, `lib/db/schema.ts`) | `credit_wallets`, `credit_holds`, `usage_ledger`, `credit_purchases`, `refund_counters` | place, settle, release a hold; grant/reverse; refund; reap; erase | paywall, stripe inbox, scheduler, erasure | concurrent holds, retries, late settles, crashes | never overdrawn; `held` = active holds; balance = ledgers; one charge a hold; ceiling kept; no stranded hold |
| Chat paywall (`app/api/chat/route.ts`) | local variables of a request, its hold | admission, three responders, settle/release/refund | wallet, free piece, orchestrator, conversations | disconnects, failed persistence, holds reaped under a running stream | delivered = charged; not delivered = free; every hold has an owner |
| Free piece (`lib/billing/freePiece.ts`) | two columns of `users` | claim, release by token | paywall | two claims at once, a late release | one free piece a user |
| Stripe inbox (`lib/billing/webhookProcess.ts`) | `stripe_events` | deliver, process, mark, reconcile, prune | Stripe, wallet, scheduler | redelivery, crash between statements, backlog | one grant a payment, none forgotten, true audit trail |
| Billing scheduler (`lib/billing/scheduler.ts`, `reap.ts`) | a timer | reap, reconcile, prune | all of the above | the only healing there is | runs for ever |
| Sectional generation (`lib/orchestrator/handlers/generateSectional.ts`) | work queue, growing score | seed, extend, split, stop | paywall's budget abort | retries and splits against a budget | charge within the hold, every bar once |
| Orchestrator, providers (`lib/orchestrator`, `lib/providers`, `lib/llm`) | deadlines, provider health | classify, dispatch, retry, fail over | model APIs | timeouts, truncation | bounded work |
| Sessions and score versions (`lib/llm/conversations.ts`, `app/api/chat/{revert,fork,confirm-replacement}`) | `sessions`, `messages`, `score_versions` | append, confirm, revert, fork, batch | client queue, paywall | stale heads, gaps between check and write | one head, chained versions, no lost edit |
| Client persistence queue (`lib/chat/persistenceQueue.ts`) | a queue of edits | enqueue, flush, retry, beacon | versions endpoint | 409 and retry, two tabs, unload | no edit lost or doubled |
| Chat store (`lib/chat/state.ts`) | undo stacks, proposals, chats | edit, undo, redo, submit, switch | queue, streams | answers for another session | edits reach the right session |
| Messages and streaming rows (`lib/llm/conversations.ts`, `lib/db/janitor.ts`) | `messages`, their `stream_status` | ask, answer, open, finalise, reap, revert | converse responder, the model's context | turns that overlap, finalise against janitor | a prompt the provider accepts; one final status; no row partial for ever |
| Daily quota (`lib/orchestrator/dailyQuota.ts`) | `request_quota` | admit | chat route | two buckets, day boundary | both or neither charged |
| Auth (`lib/auth`) | sessions, tokens, recovery codes | log in, consume, revoke | every route | a token used twice, revocation | single use |
| Music model, edits (`lib/music`) | the score | balanced edits, measures, clipboard, voices, entries | chat store, orchestrator | references to measures and events under edits | bars stay full, voices aligned, references alive |
| Transport (`components/transport`) | play state, cursor | play, seek, loop | synthesiser callbacks | late callbacks | one sound at a time |
| Formatting, import, export, UI, pages, deployment, evals | - | - | - | pure I/O, wording, layout | not modelled |

`PROJECT.json` lists these components with their status and, under `hazards`,
every place in the code where something hard to test can go wrong.

## 2. Modules

```
CreditTally ------- sums over rows, without recursion
  |-- EscrowAccount      what the wallet promises (abstract)
  |-- CreditWallet       wallet.ts, erasure and the clock  -- refines --> EscrowAccount
        |-- Paywall      one chat request from admission to delivery, x Requests
        |-- StripeInbox  purchases from Stripe to the wallet
Sectional                a piece generated section by section, against its budget
ScoreVersions            versions and heads of the sessions, the batch route
  |-- EditSync           the tabs of the editor over it: store, queue, turns
Transcript               the messages of one session and what is made of them
Measures ----------- the arithmetic of one measure
  |-- BalancedOps        the balanced edits of one voice
        |-- Scores       a whole score and the server's validation
              |-- StructuralOps   edits of whole measures
                    |-- ScoreEdits   a score under its edits
CreditWalletProofs, PaywallProofs, StripeInboxProofs, TranscriptProofs,
SectionalProofs, EditSyncProofs, MeasureProofs, ScoreEditsProofs            theorems
MC...                                                                     instances for TLC
```

A definition whose comment begins with `Bug:` is not the code.  It is a
plausible mistake in the definition that follows it, kept to show which property
would notice it; nothing uses it.

### CreditWallet

A table is the set of its rows; the mutable wallet row is `opened`, `balance`
and `held`.  Each exported function of `wallet.ts` is one transaction and one
action, `EraseUser` is `hardDeleteUser` with its cascades, `Tick` the clock.  An
action is an outcome that writes; the outcomes that only answer (`HoldReused`,
`SettleRefused`, `RefundDenied`) are predicates for the callers.  The CHECK
constraint `credit_wallets_solvent` is left out on purpose: `Solvent` shows that
the guards alone keep it, so that it never turns a call into an exception.
Row ids are the unique keys themselves; token counts, costs and time stamps that
nothing reads are left out.  `Reconciles` states the comment of `schema.ts`
that the balance is the difference of the two append-only ledgers.

`EscrowAccount` has only spendable credits and escrows.  The mapping is
`spendable[u] = balance[u] - held[u]`, `escrow` = the active holds.

### Paywall

`stage[r]` says where the run of `handleChat` is.  Admission (free piece, quota,
wallet, hold) awaits nothing and is one step; so is a settle with what decided
it.  Every `await` between is a place where other requests, the reaper, an
erasure, a disconnect or a crash come first.  What the orchestrator and the
streams answer is nondeterministic.  The stages `result`, `converse` and `score`
are the three responders; `settled`/`unsettled` wait for the turn to be
persisted; `lost` died with the process, `failed` left by an exception outside
every handler.  `delivered`, `broken`, `gone`, `metered` and `denied` remember
what happened to a request for the properties.

Left out: requests off the money path (free tier, anonymous, own key), the
legacy path (it refuses paid requests), the wording of answers, and errors of
the database inside `settleHold` or `releaseHold` (`safeReleaseHold` swallows
them and leaves the hold to the reaper).  A hold is 900 s and the reaper's
interval 300 s, while the only wall-clock test of a stream lies between two
sections, so a hold may expire under a running request: the model lets it.

### StripeInbox

`handleStripeEvent` is three transactions without an `await`: only an exception
or the death of the process separates them (`DeliverCutShort`, `SweepCutShort`).
`unanswered` are the events Stripe did not get a 200 for; delivery of any event
stays possible for ever, which covers duplicates and reordering.  A reconcile
pass selects (`SweepStart`) and then works row by row (`SweepRow`); nothing else
of the process comes between.  The SELECT has a LIMIT and no ORDER BY, so which
rows it takes is nondeterministic.

### Sectional

The generator (`sectionalEvents`) runs only while `respondWithScoreStream` asks
it for an event, so both are one thread with one `stage`.  Open are the answer
of each provider call, what it costs, and when the deadline passes.  A bar is
its place in the plan and a chunk a stretch of them; `music` are the chunks of
the score, `shown` those the last frame told the client of, `saved` those of the
persisted piece.  Who pays (`payer`) was decided before the stream.  A chunk
counts as the bars it was planned for, because `extendComposition` keeps a
surplus or a lack of measures with a warning; the total of bars is therefore not
a limit on what is really written.

### ScoreVersions and EditSync

`ScoreVersions` is the server: `rows` is `score_versions` (a row's id is its
place), `head` the head pointers, and a request to `versions/batch` a record
that goes through a stage per `await` (session read, keys read, transaction).
The other writers of a head are `appendMessages` and `confirm-replacement`, in
two steps where it awaits.

`EditSync` puts tabs over it.  An entry of the undo stack is an object with an
identity, because the client's gates compare references.  A change and the
effects of its render are one step; each fetch, timer and beacon is one of its
own.  `acts`, `faults`, `minted`, `latest`, `dropped` and `retried` number what
happened and remember what the properties need.  Left out: the deletion of a
session, more than one turn at a time in a tab, backoff times, and a session
switch between the arrival of a transcript and its parsing.

### Transcript

`rows` are the messages of one session in the order of `seq`; a turn is a run of
`handleChat` which reads the messages, awaits, writes its prompt, awaits and
writes its answer.  `PrepareMessages` (what the model is sent), `AnsweredTurns`
(what the limit counts) and `Shown` (what a reload shows) are three readings of
the same rows.  An id is a provider's (the number of the turn), a synthetic one
(`Synth`), or the fork seed's, which has neither form (`Seed`).  Since rows are
never deleted, a turn only remembers how many it read.  Of ages there are two:
a partial row is past ten minutes (`old`), a lone message past half an hour
(`idle`).  The ownership check of an append and its insert are one step: a row
inserted in a session deleted in between is never read.

### Measures, BalancedOps, Scores, StructuralOps, ScoreEdits

The editor's algorithms as operators, and one state machine over them.  An event
is its length, whether it is a rest or in a triplet, and its id; a measure is its
events and the `isFinalPartial` flag, and carries a `uid` that the code does not
have, so that a property can follow it.  What stands at a measure is a *point*,
a *range* or a *jump*; what stands over events is a *span*.  A kind of entry that
the code treats like another (slurs, pedals and ottavas like hairpins) is one
kind.  Edits of the user are applied unvalidated, as `applyEdit` does; those of
the model pass `Valid` first, and get event ids when they were shown as a
proposal.

Left out: pitches, ties and the marks of a note; undo (in `EditSync`); tuplets
other than triplets; more than one extra voice; changes of meter or key;
`pasteEvents`; edits of the document's fields; what a marker carries (any two
markers at one measure count as conflicting, where `validateCrossRefs.ts:316-345`
refuses only overlapping ones, so some answers the code accepts are left out).

## 3. Runs

| Run | Instance | Shows |
|---|---|---|
| `mc_wallet` | 2 users, 2 holds, 2 ledger keys, 2 references, amounts 0..2, grants of 2 and reversals of 1, 3 ticks (2 days) | the six invariants, `HoldsEndOnce`, `ImplementsEscrow` |
| `paywall` | 2 requests of 1 verified user, a top-up of 3, floor 1, cap 2, costs 1..3, fairness | `DeliveredIsCharged`, `UndeliveredIsFree`, `HoldsHaveRequests`, `FreePieceOnce`, `UsesWallet`, `StrandedHoldsReturn` |
| `paywall_reap` | 1 request | violation of `NeverDeliverUncharged` |
| `paywall_disconnect` | 1 request | violation of `DisconnectIsCharged` |
| `stripe_inbox` | 2 events of one payment, 1 other, LIMIT 3, fairness | the four invariants, `TerminalStays`, `PurchasesHeal` |
| `stripe_inbox_full` | 1 purchase, 1 malformed event, LIMIT 1, fairness | violation of `PurchasesHeal` |
| `sectional` | plans of 9 and of 3+8 bars, fallback of 8, chunks of 4, at most 10 bars, 2 calls a chunk, costs 0..2, budget 18, margin 2, fairness | `PieceInOrder`, `SpendBounded`, `EndsSquare`, `StreamEnds` |
| `edit_sync` | 1 tab, 2 sessions, 3 acts of user or model, 1 fault, 2 attempts, undo stack of 2, 2 requests at a time, fairness | `EditsReachTheServer`, `KeysAreAccountedFor`, `ChainsStaySeparate`, `SavesBuildOnTheHead`, `QueuesDrain` |
| `edit_switch` | the same, 2 acts, no fault | violation of `EditsStayInTheirChat` |
| `transcript` | 3 turns, 2 at once, limit 3, 1 revert, a new, an imported and a forked session, fairness | `PromptsWellFormed`, `TurnsCapped`, `RowsEndOnce`, `PartialRowsEnd` |
| `transcript_reload` | 1 turn | violation of `PromptsReappear` |
| `score_edits` | 3/8; four scores of three measures with 2 edits, one of one measure with 3 | `EntriesStand`, `VoicesAligned`, `BarsFit`, `BarsKeepTheirTime`, `EntriesFollowTheirBars`, `SpansAnchored` |

Why these bounds are enough for the cases of interest.

*Money.*  Two holds of one user compete for one balance and two users show that
they do not mix; two ledger keys are what a retry under another key needs, two
references what a grant and its reversal need; an amount below, at and above a
reservation covers the cap; three ticks with a TTL of 1 and days of 2 let a hold
expire and the refund day turn.  Two requests suffice for each race of the money
path, since it always has one request and one other actor; `MaxRefundCredits`
lies below what two refunds are worth, so that a refund is denied.  In the inbox
two events of one payment are the duplicate case, and Retention 1 with 2 ticks
lets a row be pruned and delivered once more.  `PlaceHold` is disabled when the
clock's bound would not leave the hold time to expire.

*Sectional.*  A chunk of 4 splits twice, a chunk of 3 into unequal halves; a plan
of 11 bars is cut at 10; 18 credits are passed in the middle of a chunk as well
as between two.

*Edits and sync.*  A conflict needs a save and one other writer of the head, which
a turn of the model is; three acts make an edit, a coalesced edit or a switch, and
a turn.  Two attempts are one retry, two sessions one switch.  One tab suffices,
since another tab is to it one more writer of the head.

*Transcript.*  Three turns let two overlap after a third has left its trace (an
answer, a synthetic one, a failure, a cut stream).  A limit of 3 lets a score, a
question about it and another prompt follow each other, after which two
tool_results answer one call, and is still run into: a seed and two answers, or a
revert and two, bring a turn to it.

*Scores.*  A bar of three units is the smallest that holds a triplet and a note, and
a note can be split over one or two bar lines (`MaxCascade` 2).  Three measures
have a first, a middle and a last; two edits are what it takes for one to leave
what the other trips over, and the one-measure score takes three.  A larger
instance (two measures with three edits, scores of up to five measures, 1.3
million states) was run once and holds too.

Deadlock is not checked: clocks, keys, acts and edits are bounded, and a system
without callers stands still.

The five expected violations are disagreements between the code and its own
comments; `PROJECT.json` quotes both sides under `findings`:

* `paywall_reap`: a score stream that is refused its settle is delivered;
* `paywall_disconnect`: a client that leaves a paid conversation is not charged,
  although the comment in `cancel()` promises it;
* `stripe_inbox_full`: permanently failing events can starve the sweep;
* `edit_switch`: the user switches sessions and edits the old score, which stays on
  the screen until the transcript of the new session arrives; the edit is saved
  into the session that was opened;
* `transcript_reload`: the first prompt after an import, or after a score with a
  synthetic id, is stored and missing after a reload.

### Fairness

`PaywallFairSpec` asks that an enabled reap is taken and that the clock goes on:
`startBillingScheduler` runs the reaper at boot and on an interval that nothing
cancels.  Nothing is assumed of the requests.  `InboxFairSpec` asks that sweeps
start and proceed (the same interval), and, strongly, that an attempt at a row
which is made again and again succeeds at last: a transient database error does
not come back for ever.  Webhook deliveries have no fairness, Stripe stops
retrying once it was answered.

`StreamSpec` asks that the stream goes on: a provider call returns or throws and
the pump, a loop that nothing else holds up, reads on.  `SyncFairSpec` asks
that the server works on the requests it has, that a fetch answers or throws, and
that a flush is started once the queue stays filled: the user's acts are bounded,
so the idle timer, which every edit restarts, does fire.  `TranscriptFairSpec`
asks that time passes and that sweeps happen.  A sweep comes with a request to
the chat route, so this says that requests keep coming, to any session; on an
instance nobody uses, a row cut off by a crash stays partial until the next one.
No turn has to go on.

## 4. Proofs

The theorems hold for every number of users, holds, keys, requests, events, tabs,
sessions and sections and every value of the constants, under the `ASSUME`s of the
modules (amounts are naturals, a floor of at least one credit, events of one
payment have one buyer, ...), which TLC evaluates on every run.  TLC checked each
inductive invariant on a small instance before it was proved.

* `CreditTally` defines a sum as the cardinality of the set of units of its
  rows, so that what splitting a table, inserting a row or renaming the rows does to
  a sum follows from the library's facts on finite sets, with no recursion.
* `CreditWalletProofs`.  Lemmas on `CreditTally` come first.  `HeldIsActiveHolds` is not inductive without the
  finiteness of the tables (`FiniteTables`), and `Solvent` not without
  `HeldIsActiveHolds`: a settle takes `h.credits` off `held`, which only stays
  natural because `h` is one of the summands.  `WalletInv` is the conjunction;
  `WalletHeld` and `WalletSolvent` follow.  `WalletHoldsEndOnce` rests on
  `HoldKeysUnique`.  `WalletReconciles` splits both ledgers by the sign of their
  rows and follows each operation through four sums.  `ChargedOncePerHold` needs that a charge names an existing hold (`ChargeInv`), or a hold placed under
  a key that a charge already names would be born charged.  `RefundCeiling`
  speaks of the rows while the guard reads a counter: `RefundInv` adds that the
  counter of a day is the count and the sum of its rows.  `WalletImplementsEscrow`
  maps each transaction to a step of `EscrowAccount` or to a stutter; a settle is
  one step of the account although it moves the charge and gives back the rest.
* `PaywallProofs`.  `PaywallUsesWallet` is a refinement: every step of the money
  path is a step of the wallet or leaves it alone, which carries every wallet
  theorem over (`PaywallSolvent`, `PaywallLedgers`).  `PaywallHoldsHaveRequests`
  needs `RequestsInv`: the type invariant, the uniqueness of hold keys, and that a
  request that has an active hold is in flight, lost or failed.  `MoneyInv` says
  for each stage what the ledger holds of the request: `Unbilled`, `Billed`,
  `Repaid` or still `Reserved`.  A step of one request is shown to disturb no
  other (`MoneyAround`, `MoneyOther`: keys of two requests differ), the reaper,
  erasure and the clock each have their own frame, and the request's own step is
  `MoneySelf`.  `DeliveredIsCharged`, `UndeliveredIsFree` and `FreePieceOnce` follow.
* `StripeInboxProofs`.  `InboxInv` adds to the two properties that a processed
  event is of a kind that can be processed and that every grant belongs to the
  buyer of its payment; `InboxTellsTheTruth` and `InboxForgetsNothing` follow, and
  `InboxKeepsOutcomes` as an action property.  `CreditInv` compares the sum a user
  was granted with the payments granted to them, one row each (`GrantsOnce`):
  `InboxCreditsOnce`.
* `TranscriptProofs`.  `TranscriptTypeOK` says above all that the seq of a row is
  its place, without which neither `RowsEndOnce` nor a bound on turns can be
  proved.  `PromptsUnderLimit` needs that what a turn has read was below the limit
  (`ReadBelowLimit`), which is where turns that overlap are excused.
  `PromptsWellFormed` needs what every row may answer (`AllStand`), and of the loop
  that builds the prompt that it keeps every tool call of the provider before what
  answers it and the last prompt (`PreparedSound`), for a transcript of any length.
  `Owned` says whose row is whose: a turn asks before it answers and answers once,
  its prompt answers the last call it has read, and what no turn wrote comes in
  pairs.  From it every answer that counts has a prompt of its own, which is an
  injection (`OnlyAnswersCount`, the other half of `TurnsCapped`); and each call
  stands once, so that the loop, which keeps the last call the last (`CallsSound`),
  puts two prompts behind one call only where no other call stands between.
* `SectionalProofs`.  What is written, in work and queued tiles the plan
  (`Tiled`), each stage has what the stages before it left (`Followed`), and hold,
  charge and free piece agree with the stage (`Squared`).  `SegmentsTile` proves that
  `sectionalSegments` cuts any plan into chunks that tile it up to the limit of
  bars.  `SpendInv` is the real bound under `SpendBounded`: the calls a chunk may
  still take, dearest first, are counted in, so that splitting a chunk spends
  nothing.  The proof showed that the constants' assumption was too weak (an empty
  plan, costs without a greatest); it was strengthened to what the code gives.
* `EditSyncProofs`, in five layers.  `VersionsInv`: every key has the session it
  was made for, along queue, flush, call and row, and what the batch route's loop
  writes is sound after any number of rounds (`ChainSound`); `SyncChainsSeparate`
  follows.  `HandsInv`: no two tabs hold one key, a call is linked to the flush
  that waits for it, and key sets that meet agree on everything before what they
  share (`Prefixed`), which is why a retry repeats a prefix.  `StoredInv`: a stored
  key has those before it stored (`RowsBelow`), a head never returns to a version it
  has been at (`UsedExist`, `OffersFresh`), and therefore a key that the look-up
  did not find is unstored or the compare-and-set fails (`UnknownUnstored`):
  no key is stored twice without the unique index, `SyncKeysAccounted`.
  `NewestInv`: of a key that was never sent unheard, the queue has the user's last
  score, only the waiting call carries it, and it is stored only if the answer is to
  come; `SyncEditsReachServer` follows.  `OnceInv`: what the look-up of a batch can
  find stored was sent a second time; with the elements of a parent chain (`ChainsRun`,
  `ChainHolds`) and where the rows of a batch hang (`Hung`), `SyncSavesBuildOnHead`.
* `MeasureProofs`, for any set of written lengths and any meter.  A sum over
  a sequence is what its partial sums step to (`TotalAdds`); sequences put together,
  cut, reversed or written differently follow (`TotalConcat`, `TotalReversed`).
  `WholeIsThrees` turns the loop of `validateMeasureTuplets` into a statement that can be cut
  and joined: each member of a triplet is the first, second or third of one.
  `Decomposed`, `MergingRests`, and what `MakeRoom` takes and leaves (`TakenIs`, `RoomMade`)
  are proved of measures of any length.  A note put in at a place (`PlaceCut`,
  `DroppedHere`), at the end of a measure (`DroppedLast`), grown (`Grown`) or run on into
  the next measures (`RunInto`) then keeps each measure in time, `RemoveInTime`,
  `MoveInTime` and `ChangeDurationInTime`: the triplet that would be cut refuses the edit,
  because a cut between two members of a closed triplet is found blocked (`ClosedAt`).
* `ScoreEditsProofs`.  `ScoreInv` is that the score is `Whole`: its voices are
  `Matched`, its entries stand in as many measures as there are (`Standing`), its jumps
  refer to segnos and codas that are there, and no id is one that an edit to come may
  mint (without which a new entry could share the id of an old one).  Every edit
  of whole measures is shown to splice each voice alike (`Splices`, `InsertedLaid`,
  `ReplacedLaid`); between the splice and the remap the entries still stand in the
  old number of measures, so `Laid` counts the two apart.  The remap is monotone
  (`InsertMaps`, `ReplaceMaps`), which is why a volta keeps its ends in order
  (`RemappedLaid`), and its sweep restores the references.  A move is two splices and
  two remaps with the entries of the moved measures taken out and put back
  (`StrippedLaid`, `Reattaching`).  A balanced edit only ever writes notes
  (`MoveWrites`, `ChangeWrites`).  `ScoreVoicesAligned` and `ScoreEntriesStand` follow.

  `TimeInv` adds that every measure of the score and of the clipboard is music in
  time, and `Apart`: no measure is there twice or is one that an edit to come will bring
  in.  After an edit of whole measures each measure either was there with the same
  notes or is new (`Follows`, from `Came`, `NewBar` and `TurnedSpliced`); new ones are
  rests, copies of measures in time, or an answer that `Valid` has let through.
  `ScoreBarsFit` and `ScoreBarsKeepTheirTime` follow, with `MeasureProofs` for the balanced
  edits.

  For `ScoreEntriesFollowTheirBars`, `Homes` says of an edit where each measure of a
  voice is afterwards (`SitsBefore`, `SitsBehind`) or that it is gone for good, which is where
  `Apart` is needed: were the measure that replaces it the same one, the entry would
  have to follow it.  `Tracks` says that the entries are where the remap puts them, and
  the two agree for every edit (`Tracked`); a move composes two maps and a shift
  (`Across`, `MoveFollowed`).

  `SpanInv`, for `ScoreSpansAnchored`, adds that the id of an event is of the voice the
  event is in, that a span is over events of its own voice, and that what was copied is
  the same stretch of every voice with the spans inside it.  An id is then found in one
  voice only (`Found`, `AnchoredIs`), so that a first and a last place of it exist.  `Formed` says what an
  edit of whole measures makes of every voice and which spans it leaves: the events of
  the measures that stay keep their ids (`PlaceStays`), and a span stays exactly when both of its
  ends do (`Trims`).  A pasted span is on pasted events, because the copies and the span are
  given the same new ids (`FreshIs`, `ClipCarries`, `CarriedHeard`).

  These theorems say what edits do to a score that is in order: a score to start from
  is assumed to be (`ScoreEditsAssumption`), as the blank score and what the edits make
  of it are, and an answer to be music of the schema, with ids of its own voices.  `validateScore` sees to the lengths of the
  voices and to the references of a D.S., but not to where a marker, a volta or a note
  stands.

Recursive definitions.  The library's induction theorems take an operator, which no
installed prover can instantiate.  Four modules prove induction over the sets of
naturals instead (`SetInduction`, `NumbersInduction`, from the least element of a set) and
with it that the function a `CHOOSE` defines exists.  So what `Segments`,
`CallsPerLook`, `PrepareMessages`, `Chained`, `Chain`, `Total`, `Decompose`, `MergeRests` and
`WholeTriplets` compute is proved for every input.

Only model-checked so far: the liveness
properties (`StrandedHoldsReturn`, `PurchasesHeal`, `StreamEnds`, `QueuesDrain`,
`PartialRowsEnd`), which are out of the prover's reach.

## 5. Known gaps

Gaps of the code that the models show or allow, and that no property forbids.

Money:

* A crash between settle and persist leaves a charge for a turn that was not
  delivered; the code has no recovery for it and the properties speak only of
  requests that ended.
* A refund denied by the daily ceiling leaves the user charged; the code logs it
  for manual reconciliation (`denied`).
* `refund()` given the key of a zero-credit settle answers `reused` and moves no
  money, where its comment says it throws; no caller in the repository does it.
* `appendStreamingAssistant` is awaited (`route.ts:1671`) outside every handler:
  if it throws, the converse stream never exists and the hold stays active until
  the reaper takes it.  `HoldsHaveRequests` allows it (`failed`), and
  `StrandedHoldsReturn` shows that it ends.
* The margin of a sectional piece is that of one call, but a chunk may take six
  before the budget is looked at again; `SpendBounded` states that bound.  The
  usage of a stream that is stopped is not recorded in the orchestrator's log.

Edits and sessions:

* An undo to the model's score, a redo to the head of a hydrated session and a
  reset to the model's score are not saved (`Persist` finds the baseline).
* An attempt whose answer was lost may have stored the key's older score; a newer
  one coalesced into the same job is then answered as already stored, and lost
  (the `retried` of `EditsReachTheServer`).  A batch that starts with a stored job
  hangs the rest under the old row, whatever came since.
* What is on the screen when the user switches sessions stays there, and belongs to
  the new chat id, until the transcript arrives: an edit made in between is saved
  in the new session (`edit_switch`), and one made before is queued for it as well,
  for the effect of `useEditPersistence` starts over with the chat id.
* A flush carries the head of the open session, whatever session its jobs are
  for, and a late answer sets that head across sessions; the compare-and-set of
  the server turns both into retries (`ChainsStaySeparate`).
* An edit made while a turn is under way is saved on top of the model's answer
  and hides it; a rejected replacement puts the head back to a copy of the one it
  read, which leaves a version saved in between out of the chain.

Transcript:

* Turns that overlap make prompts with two answers in a row, or one that begins
  with an answer; `PromptsWellFormed` excuses them by `InTurn`.
* Two prompts answer the same tool call exactly where only texts were answered
  between them, no overlap needed: a score, a question about it, another prompt.
  `PromptsWellFormed` says so, and the `transcript` run reaches it.  The comment at
  `route.ts:292-295` says of several `tool_result`s with one id that they are
  rejected; `prepareMessagesForLLM` prevents them for prompts in a row only.
* Reverts and the seeds of an import or a fork count for the limit of turns like
  answers of the model, since each comes with a prompt of its own.  The comment at
  `route.ts:482-483` says that synthetic turns from edits do not count;
  `TurnsCapped` counts them.
* Empty rows of cut streams are sent to the model.  A stream of more than ten
  minutes may be reaped, and its text is lost.

Scores (all reachable in `ScoreEdits`; an invalid score is refused by the save
queue's endpoint, which drops the whole batch):

* The balanced edits count a triplet at its written length, so a measure they
  touch may end too short (`BarsKeepTheirTime` speaks of measures without one).
  They drop the `isFinalPartial` flag of the measure they write, and the events
  they write have no id, which leaves spans dangling.
* `remapScoreReferences` looks for a D.S. al Coda's `toCodaRef`, the id of a jump,
  among the codas, so a remap drops such a jump; the validator looks among the
  jumps.
* A move drops jumps whose segno or coda moves, can reverse a span, and can leave
  a `toCodaRef` behind; a replaced region may pin several markers to one measure;
  an append clears the flag of a measure that is really short.
* `deleteMeasure`, `duplicateMeasure` and `insertMeasureAfter` before the last
  measure, which only the model of `edit_intra_measure` emits, remap nothing that
  stands at a measure (`editIntraMeasure.ts:126` knows it of the first).  They are
  not among the actions, so `EntriesStand` and `EntriesFollowTheirBars` say nothing
  of them; nor is the rest of that handler, which changes single events and then
  validates.
* The ids of events are not always their own.  `ensureEventIds` runs on every
  proposal shown (`orchestrator/index.ts:252`) and derives an id from content and
  place; a measure that got its ids so keeps them when measures put in before it
  move it, and an equal measure then put at the place it left gets the same ones.
  `eventIds.ts:20-22` says that the place tells equal events apart.  Two proposals
  are enough (a measure of rest after the first, then another there), and the
  score `Echo` of `MCScoreEdits` is one such.  Where an id is found twice a span
  goes when either place goes (`LastPlace` of the one, `FirstPlace` of the other
  decide), so the last part of `SpansAnchored` speaks of spans none of whose
  places went.
* The edits of voices and of staves leave the spans and techniques of the voice
  that went; a measure pasted over a missing voice brings spans without it.

Gaps of the models: what each section above lists as left out, and the hazards of
`PROJECT.json` that carry a note.  In `PROJECT.json`, line ranges of the large
files name the part of a function a definition stands for.

## 6. Not modelled

* **Daily quota, auth, checkout**: small transactions on tables of their own.  In
  `Paywall` the quota is the choice `Rejected`; the tokens of `lib/auth` are
  consumed by one conditional UPDATE each.
* **Provider failover, the rest of the orchestrator**: `Paywall` takes every
  outcome of the orchestrator for possible, which is coarser than the code.
* **Transport and playback**: play, seek and loop against the callbacks of the
  synthesiser library; planned last.
* **Rendering, import and export, the editor's interface, pages, deployment,
  evals, logging**: formatting and I/O; no state that outlives a call.

## 7. Plan

1. `DailyQuota` and `AuthSessions`, then `ProviderFailover` and `Transport`.
