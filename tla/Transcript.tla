------------------------------ MODULE Transcript ----------------------------
(***************************************************************************)
(* The messages of one chat session: what the turns of a chat, reverts and *)
(* crashes write to the messages table (src/src/lib/llm/conversations.ts), *)
(* what handleChat makes of it for the model and for the turn limit        *)
(* (src/src/app/api/chat/route.ts), what a reload shows of it, and the     *)
(* janitor (src/src/lib/db/janitor.ts).                                    *)
(*                                                                         *)
(* A turn is one run of handleChat; several may run at once, from two tabs *)
(* or from one that gave up waiting, since a client that leaves does not   *)
(* stop its run.  Rows are only ever appended, so a turn remembers how     *)
(* many it read.  Scores, texts and money are left out.                    *)
(***************************************************************************)
EXTENDS Integers, FiniteSets, SequencesExt

CONSTANTS
  Turns,         \* the turns that may come, in this order; a turn is also the
                 \* id of the provider's tool call that answers it, if any
  MaxUserTurns,  \* MAX_USER_TURNS
  MaxAtOnce,     \* bound on the turns that run at once
  MaxReverts,    \* bound on the reverts of a behaviour
  NoTool,        \* a row without a tool_use (a tool_result)
  Synth          \* the ids toolu_orch_...

\* The fork's seed, whose id toolu_fork_... passes for a provider's.
Seed == 0

ASSUME TranscriptAssumption ==
  /\ Turns \subseteq Nat \ {Seed}
  /\ MaxUserTurns \in Nat \ {0}
  /\ MaxAtOnce \in Nat \ {0}
  /\ MaxReverts \in Nat
  /\ NoTool # Synth /\ {NoTool, Synth} \cap (Turns \cup {Seed}) = {}

VARIABLES
  rows,     \* the session's messages in the order of seq
  partial,  \* those with stream_status 'partial'
  errored,  \* those with stream_status 'errored'
  stage,    \* where each turn is
  read,     \* how many messages the turn read
  old,      \* the partial ones older than ten minutes
  idle,     \* a lone message is older than half an hour
  deleted   \* sessions.deleted_at is set

vars == <<rows, partial, errored, stage, read, old, idle, deleted>>

\* A prompt, whose tool_result answers tool call a, and an answer with tool
\* call a; turn Seed stands for the rows no turn wrote.
Prompt(t, a) == [role |-> "user", turn |-> t, tool |-> NoTool, answers |-> a]
Reply(t, a) == [role |-> "assistant", turn |-> t, tool |-> a, answers |-> NoTool]

\* A new chat, one seeded by an import, one seeded by a fork.
Histories ==
  {<<>>, <<Prompt(Seed, NoTool), Reply(Seed, Synth)>>, <<Prompt(Seed, NoTool), Reply(Seed, Seed)>>}

Init ==
  /\ rows \in Histories
  /\ partial = {} /\ errored = {}
  /\ stage = [t \in Turns |-> "new"]
  /\ read = [t \in Turns |-> 0]
  /\ old = {}
  /\ idle = FALSE
  /\ deleted = FALSE

-----------------------------------------------------------------------------
(* What is read from the messages *)

Scored(m) == m.tool # NoTool

\* Bug: a synthetic id passes for one of the provider.
LastToolUseAny(s) ==
  LET at == {i \in DOMAIN s : Scored(s[i])}
  IN IF at = {} THEN NoTool ELSE s[Max(at)].tool

\* findLastToolUseId: synthetic ids never went to the provider.
LastToolUse(s) ==
  LET at == {i \in DOMAIN s : Scored(s[i]) /\ s[i].tool # Synth}
  IN IF at = {} THEN NoTool ELSE s[Max(at)].tool

EndsWithPrompt(s) == s # <<>> /\ Last(s).role = "user"

\* One message more for the model: a synthetic answer goes with the prompt
\* before it, of prompts in a row only the last one stays.
Prepared(out, m) ==
  IF m.tool = Synth THEN IF EndsWithPrompt(out) THEN Front(out) ELSE out
  ELSE IF m.role = "user" /\ EndsWithPrompt(out) THEN Append(Front(out), m)
  ELSE Append(out, m)

PrepareMessages(s) ==
  LET out[i \in 0 .. Len(s)] == IF i = 0 THEN <<>> ELSE Prepared(out[i - 1], s[i])
  IN  out[Len(s)]

\* Bug: every prompt counts.
AskedTurns(s) == Cardinality({i \in DOMAIN s : s[i].role = "user"})

\* countUserTextTurns: the prompts with an answer before the next prompt.
AnsweredTurns(s) ==
  Cardinality({i \in DOMAIN s :
    s[i].role = "assistant" /\ i > 1 /\ s[i - 1].role = "user"})

Seen(t) == SubSeq(rows, 1, read[t])

UserTurn(t) == Prompt(t, LastToolUse(Seen(t)))

\* messagesForLLM.
Messages(t) == PrepareMessages(Append(Seen(t), UserTurn(t)))

\* mapTranscriptToTurns: after the first score only a prompt with a
\* tool_result becomes a turn of the panel.
Shown(i) ==
  \/ rows[i].answers # NoTool
  \/ \A j \in 1 .. i - 1 : ~Scored(rows[j])

-----------------------------------------------------------------------------
(* A turn *)

Goto(t, s) == stage' = [stage EXCEPT ![t] = s]

Writes(ms) ==
  /\ ~deleted
  /\ rows' = rows \o ms
  /\ idle' = FALSE
  /\ UNCHANGED deleted

Running == {t \in Turns : stage[t] \in {"read", "asked", "streaming"}}

Comes(t) ==
  /\ stage[t] = "new" /\ \A s \in Turns : s < t => stage[s] # "new"
  /\ Cardinality(Running) < MaxAtOnce

Full == AnsweredTurns(rows) >= MaxUserTurns

Reads(t) ==
  /\ Comes(t)
  /\ ~deleted /\ ~Full
  /\ read' = [read EXCEPT ![t] = Len(rows)]
  /\ Goto(t, "read")
  /\ UNCHANGED <<rows, partial, errored, old, idle, deleted>>

\* No such chat, a full chat, an invalid or stale edit.
Refused(t) ==
  /\ \/ Comes(t) /\ (deleted \/ Full)
     \/ stage[t] = "read" /\ LastToolUse(Seen(t)) # NoTool
  /\ Goto(t, "over")
  /\ UNCHANGED <<rows, partial, errored, read, old, idle, deleted>>

\* The prompt is kept before anything that can fail.
Asks(t) ==
  /\ stage[t] = "read"
  /\ Writes(<<UserTurn(t)>>)
  /\ Goto(t, "asked")
  /\ UNCHANGED <<partial, errored, read, old>>

\* A score with the provider's id or a synthetic one: a result of the
\* orchestrator, the end of a score stream, the legacy path.
Answers(t) ==
  /\ stage[t] = "asked"
  /\ \E a \in {t, Synth} : Writes(<<Reply(t, a)>>)
  /\ Goto(t, "over")
  /\ UNCHANGED <<partial, errored, read, old>>

\* A quota, a refusal, an error of the provider; a session deleted meanwhile.
Fails(t) ==
  /\ \/ stage[t] = "asked"
     \/ stage[t] = "read" /\ deleted
  /\ Goto(t, "over")
  /\ UNCHANGED <<rows, partial, errored, read, old, idle, deleted>>

\* appendStreamingAssistant, for a question about the score there is.
Opens(t) ==
  /\ stage[t] = "asked"
  /\ \E i \in 1 .. read[t] : Scored(rows[i])
  /\ Writes(<<Reply(t, NoTool)>>)
  /\ partial' = partial \cup {Len(rows) + 1}
  /\ Goto(t, "streaming")
  /\ UNCHANGED <<errored, read, old>>

\* Bug: whoever comes last wins.
FinalizedAnyway(i, status) ==
  /\ partial' = partial \ {i} /\ old' = old \ {i}
  /\ errored' = IF status = "errored" THEN errored \cup {i} ELSE errored \ {i}

\* finalizeStreamingMessage of row i.
Finalized(i, status) ==
  /\ partial' = partial \ {i} /\ old' = old \ {i}
  /\ errored' = IF i \in partial /\ status = "errored" THEN errored \cup {i} ELSE errored

StreamRow(t) == {i \in DOMAIN rows : rows[i].turn = t /\ rows[i].role = "assistant"}

\* message-stop; an error event, an exception, or a client that left.  What
\* the pump does afterwards changes nothing.
StreamEnds(t) ==
  /\ stage[t] = "streaming"
  /\ \E i \in StreamRow(t), status \in {"complete", "errored"} : Finalized(i, status)
  /\ Goto(t, "over")
  /\ UNCHANGED <<rows, read, idle, deleted>>

\* The UPDATE throws, which is logged.
FinalizeFails(t) ==
  /\ stage[t] = "streaming"
  /\ Goto(t, "over")
  /\ UNCHANGED <<rows, partial, errored, read, old, idle, deleted>>

-----------------------------------------------------------------------------
(* Around the turns *)

Reverts == Cardinality({i \in 3 .. Len(rows) : rows[i].turn = Seed /\ rows[i].tool = Synth})

\* The revert of a score: a prompt and a synthetic answer at once.
Revert ==
  /\ Reverts < MaxReverts
  /\ \E i \in DOMAIN rows : Scored(rows[i])
  /\ Writes(<<Prompt(Seed, NoTool), Reply(Seed, Synth)>>)
  /\ UNCHANGED <<partial, errored, stage, read, old>>

Delete ==
  /\ ~deleted
  /\ deleted' = TRUE
  /\ UNCHANGED <<rows, partial, errored, stage, read, old, idle>>

\* Bug: the rows of a deleted session are forgotten.
ReapedIfLive == IF deleted THEN UNCHANGED <<partial, errored, old>>
                ELSE partial' = partial \ old /\ errored' = errored \cup old /\ old' = {}

\* reapStalePartials.
Reaped == partial' = partial \ old /\ errored' = errored \cup old /\ old' = {}

\* A prompt nobody answered in half an hour and nobody repeated.
Orphaned == idle /\ Len(rows) = 1 /\ rows[1].role = "user"

\* The sweep after a POST: reapStalePartials, then reapOrphanSessions.
Sweep ==
  /\ Reaped
  /\ deleted' = (deleted \/ Orphaned)
  /\ UNCHANGED <<rows, stage, read, idle>>

\* The process dies and starts again, with a sweep unless the database is
\* locked.
Crash ==
  /\ Running # {}
  /\ stage' = [t \in Turns |-> IF stage[t] = "new" THEN "new" ELSE "over"]
  /\ Reaped \/ UNCHANGED <<partial, errored, old>>
  /\ UNCHANGED <<rows, read, idle, deleted>>

\* Time passes where a sweep would notice.
TenMinutes ==
  /\ old' = partial
  /\ UNCHANGED <<rows, partial, errored, stage, read, idle, deleted>>

HalfHour ==
  /\ Len(rows) = 1
  /\ idle' = TRUE
  /\ UNCHANGED <<rows, partial, errored, stage, read, old, deleted>>

Next ==
  \/ \E t \in Turns :
       \/ Reads(t) \/ Refused(t) \/ Asks(t) \/ Answers(t) \/ Fails(t)
       \/ Opens(t) \/ StreamEnds(t) \/ FinalizeFails(t)
  \/ Revert \/ Delete \/ Sweep \/ Crash \/ TenMinutes \/ HalfHour

TranscriptSpec == Init /\ [][Next]_vars

\* Time passes, and requests keep coming that bring the sweep with them; no
\* turn has to go on.
TranscriptFairSpec == TranscriptSpec /\ WF_vars(TenMinutes) /\ WF_vars(Sweep)

-----------------------------------------------------------------------------
(* Properties *)

\* Each answer but a synthetic one stands right after its own prompt: no two
\* turns of the session overlapped.
InTurn ==
  \A i \in DOMAIN rows :
    rows[i].role = "assistant" /\ rows[i].tool # Synth =>
      i > 1 /\ rows[i - 1].role = "user" /\ rows[i - 1].turn = rows[i].turn

\* Each turn wrote its prompt on the messages it had read.
Undisturbed ==
  \A i \in DOMAIN rows :
    rows[i].role = "user" /\ rows[i].turn # Seed => read[rows[i].turn] = i - 1

\* What goes to the model ends with the prompt of the turn; a tool_result in
\* it answers a tool call that comes before it, never a synthetic one or one
\* that was dropped; prompts and answers alternate from the first prompt on,
\* whatever failed, was reverted or was cut off before, unless turns
\* overlapped; and while each turn wrote on what it had read, two tool_results
\* answer the same call only where every answer between them is a text
\* (findLastToolUseId, prepareMessagesForLLM).  That case is reached: a score,
\* a question about it, another prompt.
PromptsWellFormed ==
  \A t \in Turns : stage[t] \in {"read", "asked"} =>
    LET p == Messages(t) IN
      /\ Last(p).turn = t
      /\ \A i \in DOMAIN p : p[i].answers # NoTool =>
           \E j \in 1 .. i - 1 : p[j].tool = p[i].answers
      /\ InTurn => \A i \in DOMAIN p : p[i].role = IF i % 2 = 1 THEN "user" ELSE "assistant"
      /\ Undisturbed => \A i, j \in DOMAIN p :
           i < j /\ p[i].answers = p[j].answers /\ p[i].answers # NoTool =>
             \A k \in i .. j : p[k].tool = NoTool

\* The prompts that got an answer of their own.
AnsweredPrompts ==
  {i \in DOMAIN rows : rows[i].role = "user" /\
     \E j \in DOMAIN rows : i < j /\ rows[j].role = "assistant" /\ rows[j].turn = rows[i].turn}

\* A turn that failed or is still under way does not count, not even when turns
\* overlap and the answer of one is taken for another's.
OnlyAnswersCount == AnsweredTurns(rows) <= Cardinality(AnsweredPrompts)

\* Unless turns overlapped, no prompt has as many answers before it as the limit
\* allows, be they the model's, an import's, a fork's or a revert's.
PromptsUnderLimit ==
  Undisturbed /\ (\A i \in DOMAIN rows : rows[i].role = "assistant" =>
                    i > 1 /\ rows[i - 1].role = "user")
  => \A i \in DOMAIN rows : rows[i].role = "user" /\ rows[i].turn # Seed =>
       Cardinality({j \in 1 .. i - 1 : rows[j].role = "assistant"}) < MaxUserTurns

\* The limit of a conversation is not passed, although it is checked before the
\* prompt is written and counts answers by their place, and is never used up by
\* turns that got no answer (handleChat, countUserTextTurns).
TurnsCapped == PromptsUnderLimit /\ OnlyAnswersCount

\* A row that ended stays as it ended: of a stream's end, a client that
\* leaves and the janitor the first one wins, and no message is lost or
\* changes its place.
RowsEndOnce ==
  [][/\ IsPrefix(rows, rows')
     /\ \A i \in DOMAIN rows \ partial :
          i \notin partial' /\ (i \in errored' <=> i \in errored)]_vars

\* A row left partial by a crash, a failed UPDATE or a stream that hangs is
\* closed in the end, in a deleted session too: again and again there is no
\* such row, since turns to come may only open so many.
PartialRowsEnd == []<>(partial = {})

\* handleChat: whatever fails, "the user's prompt survives in the DB and
\* reappears on transcript hydration".
PromptsReappear ==
  \A i \in DOMAIN rows : rows[i].role = "user" /\ rows[i].turn # Seed => Shown(i)

=============================================================================
