------------------------------ MODULE Sectional ------------------------------
(***************************************************************************)
(* A piece generated section by section and streamed to the client:        *)
(* sectionalEvents (src/src/lib/orchestrator/handlers/                     *)
(* generateSectional.ts) plans the piece, works through a queue of chunks  *)
(* and splits those the model cannot write, and respondWithScoreStream     *)
(* (src/src/app/api/chat/route.ts) pulls its events, stops it at the       *)
(* budget or at the deadline, settles the hold and persists the piece.     *)
(*                                                                         *)
(* The generator runs only while it is asked for an event, so the two are  *)
(* one thread of control; what is open is what each provider call gives,   *)
(* what it costs, and when the deadline passes.  A bar is its place in the *)
(* plan.  A chunk counts as the bars it was planned for: extendComposition *)
(* keeps a surplus or a lack of measures with a warning.                   *)
(***************************************************************************)
EXTENDS Integers, Sequences

CONSTANTS
  Plans,          \* the section lengths a planner may answer with
  FallbackBars,   \* bars of fallbackPlan
  ChunkBars,      \* GENERATION_CHUNK_BARS
  MaxTotalBars,   \* MAX_TOTAL_BARS
  CallTries,      \* provider calls for one chunk: one, and one with feedback
  CallCosts,      \* the credits one call may be metered at
  Budget,         \* credits of the hold, or the ceiling of a free piece
  Margin          \* sectionAbortMarginCredits

ASSUME SectionalAssumption ==
  /\ Plans \subseteq Seq(Nat \ {0}) \ {<<>>}     \* ScorePlanSchema: min(1)
  /\ FallbackBars \in Nat \ {0} /\ ChunkBars \in Nat \ {0}
  /\ MaxTotalBars \in Nat \ {0} /\ CallTries \in Nat \ {0}
  /\ CallCosts \subseteq Nat                      \* its tokens are capped
  /\ \E c \in CallCosts : \A d \in CallCosts : d <= c
  /\ Budget \in Nat /\ Margin \in Nat

VARIABLES
  payer,     \* "hold", "free" or "none": who pays, chosen before the stream
  stage,     \* where the generator or the responder stands
  plan,      \* bars in the plan, 0 before it is made
  queue,     \* the chunks left
  item,      \* the chunk at work
  tries,     \* provider calls made for it
  music,     \* the chunks of the score so far
  shown,     \* chunks in the last section frame
  spent,     \* credits metered on this stream
  metered,   \* some provider call was metered
  late,      \* the deadline has passed
  hold,      \* the hold: "none", "active", "settled" or "released"
  charged,   \* credits charged and not given back
  freeGrant, \* the free piece: "none", "claimed" or "released"
  saved,     \* chunks of the persisted piece
  ending     \* the last frame: "none", "done" or "error"

generatorVars == <<plan, queue, item, tries, music>>
moneyVars == <<hold, charged, freeGrant>>
meterVars == <<spent, metered>>
streamVars == <<payer, stage, generatorVars, shown, meterVars, late, moneyVars, saved, ending>>

Chunk(first, bars) == [first |-> first, bars |-> bars]
NoItem == Chunk(0, 0)

Least(a, b) == IF a < b THEN a ELSE b

\* planToSegments: each section is cut into chunks of at most ChunkBars bars,
\* until the piece has MaxTotalBars.
Segments(sections) ==
  LET Cut[at \in [s : 1 .. Len(sections), left : Nat, total : Nat]] ==
        IF at.total >= MaxTotalBars THEN <<>>
        ELSE IF at.left = 0
          THEN IF at.s = Len(sections) THEN <<>>
               ELSE Cut[[s |-> at.s + 1, left |-> sections[at.s + 1], total |-> at.total]]
          ELSE LET bars == Least(ChunkBars, Least(at.left, MaxTotalBars - at.total))
               IN  <<Chunk(at.total + 1, bars)>>
                     \o Cut[[s |-> at.s, left |-> at.left - bars, total |-> at.total + bars]]
  IN  Cut[[s |-> 1, left |-> sections[1], total |-> 0]]

BarsOf(chunks) ==
  LET sum[i \in 0 .. Len(chunks)] == IF i = 0 THEN 0 ELSE sum[i - 1] + chunks[i].bars
  IN  sum[Len(chunks)]

StreamInit ==
  /\ payer \in {"hold", "free", "none"}
  /\ stage = "planning"
  /\ plan = 0 /\ queue = <<>> /\ item = NoItem /\ tries = 0 /\ music = <<>>
  /\ shown = 0 /\ spent = 0 /\ metered = FALSE /\ late = FALSE
  /\ hold = IF payer = "hold" THEN "active" ELSE "none"
  /\ freeGrant = IF payer = "free" THEN "claimed" ELSE "none"
  /\ charged = 0 /\ saved = <<>> /\ ending = "none"

Goes(s) == stage' = s
Meters == metered' = TRUE /\ \E c \in CallCosts : spent' = spent + c

-----------------------------------------------------------------------------
(* The generator *)

\* A call is metered when an answer comes, usable or not, and not when the
\* provider fails; then the plan is the fallback.
PlanMade ==
  /\ stage = "planning"
  /\ \/ Meters /\ \E p \in Plans : queue' = Segments(p)
     \/ /\ Meters \/ UNCHANGED meterVars
        /\ queue' = Segments(<<FallbackBars>>)
  /\ plan' = BarsOf(queue')
  /\ Goes("working")
  /\ UNCHANGED <<payer, item, tries, music, shown, late, moneyVars, saved, ending>>

TakesChunk ==
  /\ stage = "working" /\ queue # <<>>
  /\ item' = Head(queue)
  /\ queue' = Tail(queue)
  /\ tries' = 0
  /\ Goes("calling")
  /\ UNCHANGED <<payer, plan, music, shown, meterVars, late, moneyVars, saved, ending>>

\* A valid chunk: the section is yielded.
ChunkWritten ==
  /\ stage = "calling"
  /\ Meters
  /\ music' = Append(music, item)
  /\ item' = NoItem
  /\ tries' = 0
  /\ Goes("section")
  /\ UNCHANGED <<payer, plan, queue, shown, late, moneyVars, saved, ending>>

\* Bug: the feedback is given twice.
MayTryOnceMore == tries + 1 <= CallTries
MayTryAgain == tries + 1 < CallTries

\* Bars that do not add up: once more with feedback.
ChunkInvalid ==
  /\ stage = "calling" /\ MayTryAgain
  /\ Meters
  /\ tries' = tries + 1
  /\ UNCHANGED <<payer, stage, plan, queue, item, music, shown, late, moneyVars, saved, ending>>

\* Bug: the chunk is tried again as it is.
HalvesNot(b) == b
\* Math.ceil(bars / 2)
Halves(b) == (b + 1) \div 2

\* Bug: the second half goes first.
HalvedSwapped(it) ==
  <<Chunk(it.first + Halves(it.bars), it.bars - Halves(it.bars)),
    Chunk(it.first, Halves(it.bars))>>
\* The rest is queued again only if there is one.
Halved(it) ==
  LET first == Halves(it.bars) IN
  <<Chunk(it.first, first)>>
    \o (IF it.bars > first THEN <<Chunk(it.first + first, it.bars - first)>> ELSE <<>>)

\* The answer is truncated, malformed, or invalid for the last time: the chunk
\* is halved, the halves go to the front.
ChunkSplit ==
  /\ stage = "calling" /\ item.bars > 1
  /\ Meters
  /\ queue' = Halved(item) \o queue
  /\ item' = NoItem
  /\ tries' = 0
  /\ Goes("working")
  /\ UNCHANGED <<payer, plan, music, shown, late, moneyVars, saved, ending>>

\* The same for a single bar, or an error of another kind at any size: with no
\* score yet the stream fails, else the score so far is the piece.
ChunkGivenUp ==
  /\ stage = "calling"
  /\ Meters \/ UNCHANGED meterVars
  /\ queue' = <<>>
  /\ item' = NoItem
  /\ tries' = 0
  /\ IF music = <<>>
       THEN Goes("closing") /\ ending' = "error"
       ELSE Goes("finishing") /\ UNCHANGED ending
  /\ UNCHANGED <<payer, plan, music, shown, late, moneyVars, saved>>

QueueDone ==
  /\ stage = "working" /\ queue = <<>>
  /\ Goes("finishing")
  /\ UNCHANGED <<payer, generatorVars, shown, meterVars, late, moneyVars, saved, ending>>

-----------------------------------------------------------------------------
(* The responder *)

\* Bug: the margin is forgotten.
OverBudgetLate == payer \in {"hold", "free"} /\ spent >= Budget + Margin
OverBudget == payer \in {"hold", "free"} /\ spent >= Budget - Margin
OverTime == payer \in {"hold", "free"} /\ late

\* A section frame is written, then sectionalAbortReason decides.
SectionSent ==
  /\ stage = "section"
  /\ shown' = Len(music)
  /\ Goes(IF OverBudget \/ OverTime THEN "finishing" ELSE "working")
  /\ UNCHANGED <<payer, generatorVars, meterVars, late, moneyVars, saved, ending>>

\* finishStream settles before it persists; the debit is capped by the hold.
Settles ==
  /\ stage = "finishing"
  /\ IF hold = "active"
       THEN hold' = "settled" /\ charged' = Least(spent, Budget)
       ELSE UNCHANGED <<hold, charged>>
  /\ Goes("persisting")
  /\ UNCHANGED <<payer, generatorVars, shown, meterVars, late, freeGrant, saved, ending>>

Persists ==
  /\ stage = "persisting"
  /\ saved' = music
  /\ ending' = "done"
  /\ Goes("closing")
  /\ UNCHANGED <<payer, generatorVars, shown, meterVars, late, moneyVars>>

\* Bug: no refund.
PersistFailsKeepsCharge ==
  /\ stage = "persisting"
  /\ ending' = "error"
  /\ Goes("closing")
  /\ UNCHANGED <<payer, generatorVars, shown, meterVars, late, moneyVars, saved>>
\* The score is invalid, or the database fails: the charge goes back.
PersistFails ==
  /\ stage = "persisting"
  /\ charged' = 0
  /\ ending' = "error"
  /\ Goes("closing")
  /\ UNCHANGED <<payer, generatorVars, shown, meterVars, late, hold, freeGrant, saved>>

\* An exception inside the pump: no provider can be selected for the plan or
\* after it, or the database fails under the settle, which rolls back.
PumpThrows ==
  /\ \/ stage = "planning" /\ (Meters \/ UNCHANGED meterVars)
     \/ stage = "finishing" /\ UNCHANGED meterVars
  /\ ending' = "error"
  /\ Goes("closing")
  /\ UNCHANGED <<payer, generatorVars, shown, late, moneyVars, saved>>

\* meterStreamCost() is null only if no call was metered.
NothingMetered == ending # "done" /\ ~metered

\* The finally block.
Closes ==
  /\ stage = "closing"
  /\ hold' = IF hold = "active" THEN "released" ELSE hold
  /\ freeGrant' = IF freeGrant = "claimed" /\ NothingMetered THEN "released" ELSE freeGrant
  /\ Goes("over")
  /\ UNCHANGED <<payer, generatorVars, shown, meterVars, late, charged, saved, ending>>

DeadlinePasses ==
  /\ ~late /\ stage # "over"
  /\ late' = TRUE
  /\ UNCHANGED <<payer, stage, generatorVars, shown, meterVars, moneyVars, saved, ending>>

StreamStep ==
  \/ PlanMade \/ TakesChunk \/ ChunkWritten \/ ChunkInvalid \/ ChunkSplit
  \/ ChunkGivenUp \/ QueueDone \/ SectionSent \/ Settles \/ Persists
  \/ PersistFails \/ PumpThrows \/ Closes

StreamNext == StreamStep \/ DeadlinePasses

\* A provider call returns or throws, and the pump goes on.
StreamSpec == StreamInit /\ [][StreamNext]_streamVars /\ WF_streamVars(StreamStep)

-----------------------------------------------------------------------------
(* Properties *)

Chunks == [first : 1 .. MaxTotalBars, bars : 1 .. ChunkBars]

\* Chunks hold 1 to ChunkBars bars each, no split yields an empty one, and no
\* chunk gets more calls than it may.
StreamTypeOK ==
  /\ \A i \in DOMAIN queue : queue[i] \in Chunks
  /\ \A i \in DOMAIN music : music[i] \in Chunks
  /\ stage = "calling" => item \in Chunks /\ tries \in 0 .. CallTries - 1
  /\ plan \in 0 .. MaxTotalBars /\ shown \in 0 .. Len(music)
  /\ spent \in Nat /\ charged \in 0 .. Budget
  /\ hold \in {"none", "active", "settled", "released"}
  /\ freeGrant \in {"none", "claimed", "released"}

\* Each chunk begins where the one before it ends.
InOrder(chunks) ==
  \A i \in DOMAIN chunks :
    chunks[i].first = IF i = 1 THEN 1 ELSE chunks[i - 1].first + chunks[i - 1].bars

\* However chunks are split and tried again, the bars written, at work and
\* waiting are the bars of the plan, each once and in order; a piece that was
\* cut short is a beginning of the plan.
PieceInOrder ==
  LET work == music \o (IF stage = "calling" THEN <<item>> ELSE <<>>) \o queue IN
  /\ InOrder(work)
  /\ stage \in {"working", "calling", "section"} => BarsOf(work) = plan
  /\ ending = "done" => saved = music /\ shown = Len(saved) /\ saved # <<>>

\* The most calls between two looks at the budget: a chunk that fails at every
\* size down to a bar.
CallsPerLook ==
  LET calls[b \in 1 .. ChunkBars] ==
        CallTries + (IF b = 1 THEN 0 ELSE calls[(b + 1) \div 2])
  IN  calls[ChunkBars]
DearestCall == CHOOSE c \in CallCosts : \A d \in CallCosts : d <= c

\* What a stream with a budget can cost: it stops at Budget - Margin, but only
\* looks after a section, and the margin is that of one call.  So the excess
\* over the hold, which the house pays, is at most that of CallsPerLook calls.
SpendBounded ==
  payer # "none" =>
    \/ spent <= (CallsPerLook + 1) * DearestCall
    \/ spent < Budget - Margin + CallsPerLook * DearestCall

\* Whatever ended the stream: a delivered piece was charged up to its hold, an
\* undelivered one costs nothing and leaves no hold, and the free piece is
\* spent once a call was made for it.
EndsSquare ==
  stage = "over" =>
    /\ ending \in {"done", "error"} /\ hold # "active"
    /\ ending = "done" /\ payer = "hold" => hold = "settled" /\ charged = Least(spent, Budget)
    /\ ending = "error" => charged = 0 /\ saved = <<>>
    /\ payer = "free" => (freeGrant = "released" <=> ~metered)

\* Splitting ends: every stream closes with a last frame.
StreamEnds == <>(stage = "over")

=============================================================================
