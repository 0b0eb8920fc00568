------------------------------ MODULE EditSync ------------------------------
(***************************************************************************)
(* How an edit gets from the screen to the server: the score fields and    *)
(* the undo history of the chat store (src/src/lib/chat/state.ts), the     *)
(* effect that queues edits (useEditPersistence.ts), the save queue        *)
(* (persistenceQueue.ts), the hydration of a session                       *)
(* (useTranscriptSync.ts) and the turns of the model (useSubmitPrompt.ts,  *)
(* ReplacementConfirmModal.tsx), over the server of ScoreVersions.         *)
(*                                                                         *)
(* A tab is one browser tab with its own store and queue.  A render and    *)
(* the effects that follow it are one step with the change that caused     *)
(* them; every fetch and every timer is a step of its own.                 *)
(***************************************************************************)
EXTENDS ScoreVersions

CONSTANTS
  Tabs,
  FirstChat,     \* the session every tab opens with
  MaxAttempts,   \* MAX_ATTEMPTS of a flush
  HistoryCap,    \* HISTORY_CAP of the undo stack
  MaxActs,       \* bound: what users and models do
  MaxFaults,     \* bound: what the network and the server do wrong
  MaxCalls       \* bound: batch requests at work at one time

ASSUME EditSyncAssumption ==
  /\ FirstChat \in Chats
  /\ MaxAttempts \in Nat \ {0, 1} /\ HistoryCap \in Nat \ {0}
  /\ MaxActs \in Nat /\ MaxFaults \in Nat /\ MaxCalls \in Nat
  /\ NoKey \notin Nat

VARIABLES
  chat,      \* the session open in each tab
  belief,    \* currentHeadVersionId
  baseline,  \* scoreJson
  history,   \* the undo stack
  pointer,   \* historyPointer; the screen shows history[pointer]
  merging,   \* lastCoalesceKey is set
  enqueued,  \* lastEnqueuedRef
  queue,     \* the save queue
  flush,     \* the flush under way
  loading,   \* the transcript fetch under way
  turn,      \* the turn the tab waits for, and its confirmation
  acts,      \* what users and models have done so far; also the serial numbers
  faults,    \* what went wrong so far
  minted,    \* idempotency keys made so far
  latest,    \* the score enqueued last under each key
  dropped,   \* keys of jobs a queue has given up or left to a beacon
  retried    \* keys of jobs with an attempt whose answer was not heard

tabVars == <<chat, belief, baseline, history, pointer, merging, enqueued>>
queueVars == <<queue, flush, minted, latest, dropped, retried>>
syncVars == <<versionVars, tabVars, queueVars, loading, turn, acts, faults>>

Elems(q) == {q[i] : i \in DOMAIN q}

\* An entry of the undo stack is a score object: the gates of the client
\* compare references, so a version loaded from the server is not the local
\* object with the same content.
Object(s, v) == [score |-> s, id |-> v]
NoObject == Object(Score(NoKey, 0), 0)
Screen(t) == history[t][pointer[t]]

Job(c, s, k) == [chat |-> c, score |-> s, key |-> k]

NoFlush == [jobs |-> <<>>, base |-> 0, attempt |-> 0, call |-> 0]
Flushing(t) == flush[t] # NoFlush

NoLoad == [stage |-> "none", id |-> 0]
NoTurn(t) == [stage |-> "none", chat |-> chat[t], id |-> 0, other |-> 0]

Loaded(v) == Object(rows[v].score, v)
LoadedChain(v) == [i \in DOMAIN Chain(v) |-> Loaded(Chain(v)[i])]

SyncInit ==
  /\ VersionsInit
  /\ chat = [t \in Tabs |-> FirstChat]
  /\ belief = [t \in Tabs |-> head[chat[t]]]
  /\ baseline = [t \in Tabs |-> Loaded(head[chat[t]])]
  /\ history = [t \in Tabs |-> <<baseline[t]>>]
  /\ pointer = [t \in Tabs |-> 1]
  /\ merging = [t \in Tabs |-> FALSE]
  /\ enqueued = [t \in Tabs |-> NoObject]
  /\ queue = [t \in Tabs |-> <<>>]
  /\ flush = [t \in Tabs |-> NoFlush]
  /\ loading = [t \in Tabs |-> NoLoad]
  /\ turn = [t \in Tabs |-> NoTurn(t)]
  /\ acts = 0 /\ faults = 0 /\ minted = 0 /\ latest = <<>>
  /\ dropped = {} /\ retried = {}

-----------------------------------------------------------------------------
(* The effect of useEditPersistence, run after every change of the chat or
   the screen: o is the object on the screen, b the baseline. *)

\* enqueue: the tail job of the same session takes the new score and keeps
\* its key.
Enqueue(t, c, s) ==
  LET n == Len(queue[t]) IN
  IF n > 0 /\ queue[t][n].chat = c
    THEN /\ queue' = [queue EXCEPT ![t][n].score = s]
         /\ latest' = [latest EXCEPT ![queue[t][n].key] = s]
         /\ UNCHANGED minted
    ELSE /\ minted' = minted + 1
         /\ latest' = Append(latest, s)
         /\ queue' = [queue EXCEPT ![t] = Append(@, Job(c, s, minted + 1))]

\* last is what lastEnqueuedRef holds when the effect runs.
Persist(t, c, o, b, last) ==
  IF o = b \/ o = last
    THEN /\ enqueued' = [enqueued EXCEPT ![t] = last]
         /\ UNCHANGED <<queue, minted, latest>>
    ELSE /\ enqueued' = [enqueued EXCEPT ![t] = o]
         /\ Enqueue(t, c, o.score)

\* The bounds: an act of a user or a model, a fault, anything else.
Acts == acts < MaxActs /\ acts' = acts + 1 /\ UNCHANGED faults
Faulty == faults < MaxFaults /\ faults' = faults + 1 /\ UNCHANGED acts
Normal == UNCHANGED <<acts, faults>>

Quiet == UNCHANGED <<flush, dropped, retried>>

-----------------------------------------------------------------------------
(* Editing *)

\* The undo stack after an edit: the redo branch goes, a coalesced edit takes
\* the place of the top, and the oldest entry falls off at the cap.
Pushed(t, o) ==
  LET kept == Append(SubSeq(history[t], 1, pointer[t]), o)
  IN  IF Len(kept) > HistoryCap THEN Tail(kept) ELSE kept
CoalescedTop(t, o) == Append(SubSeq(history[t], 1, pointer[t] - 1), o)

\* applyEdit and its siblings.
Edit(t) ==
  LET o == Object(Score(Screen(t).score.piece, acts + 1), 0) IN
  /\ Acts
  /\ \/ history' = [history EXCEPT ![t] = Pushed(t, o)]
     \/ /\ merging[t] /\ pointer[t] = Len(history[t])
        /\ history' = [history EXCEPT ![t] = CoalescedTop(t, o)]
  /\ pointer' = [pointer EXCEPT ![t] = Len(history'[t])]
  /\ merging' = [merging EXCEPT ![t] = TRUE]
  /\ Persist(t, chat[t], o, baseline[t], enqueued[t])
  /\ Quiet
  /\ UNCHANGED <<versionVars, chat, belief, baseline, loading, turn>>

MoveTo(t, p) ==
  /\ pointer' = [pointer EXCEPT ![t] = p]
  /\ merging' = [merging EXCEPT ![t] = FALSE]
  /\ Persist(t, chat[t], history[t][p], baseline[t], enqueued[t])
  /\ Quiet
  /\ Acts
  /\ UNCHANGED <<versionVars, chat, belief, baseline, history, loading, turn>>

Undo(t) == pointer[t] > 1 /\ MoveTo(t, pointer[t] - 1)
Redo(t) == pointer[t] < Len(history[t]) /\ MoveTo(t, pointer[t] + 1)

\* A score from the model or the server: baseline, screen and history are the
\* same object, so the effect finds nothing to save.
Shows(t, chain, o) ==
  /\ baseline' = [baseline EXCEPT ![t] = o]
  /\ history' = [history EXCEPT ![t] = chain]
  /\ pointer' = [pointer EXCEPT ![t] = Len(chain)]
  /\ merging' = [merging EXCEPT ![t] = FALSE]

\* resetEditsToLLM
ResetToLLM(t) ==
  /\ Screen(t) # baseline[t]
  /\ Shows(t, <<baseline[t]>>, baseline[t])
  /\ Acts
  /\ UNCHANGED <<versionVars, chat, belief, enqueued, queueVars, loading, turn>>

-----------------------------------------------------------------------------
(* Switching sessions *)

\* SessionSidebar.handleSelect: the turns are cleared and the chat id changes;
\* the old score stays on the screen until the transcript is there, and the
\* effect runs with the new chat id and the old score.
Switch(t, c) ==
  /\ c # chat[t]
  /\ chat' = [chat EXCEPT ![t] = c]
  /\ loading' = [loading EXCEPT ![t] = [stage |-> "asked", id |-> 0]]
  /\ Persist(t, c, Screen(t), baseline[t], NoObject)
  /\ Quiet
  /\ Acts
  /\ UNCHANGED <<versionVars, belief, baseline, history, pointer, merging, turn>>

\* GET /api/chat: the head and its chain, as they are when it is answered.
TranscriptRead(t) ==
  /\ loading[t].stage = "asked"
  /\ loading' = [loading EXCEPT ![t] = [stage |-> "answered", id |-> head[chat[t]]]]
  /\ Normal
  /\ UNCHANGED <<versionVars, tabVars, queueVars, turn>>

\* seedHistoryFromServer and setCurrentHeadVersionId
TranscriptShown(t) ==
  LET v == loading[t].id IN
  /\ loading[t].stage = "answered"
  /\ Shows(t, LoadedChain(v), Loaded(v))
  /\ belief' = [belief EXCEPT ![t] = v]
  /\ loading' = [loading EXCEPT ![t] = NoLoad]
  /\ Normal
  /\ UNCHANGED <<versionVars, chat, enqueued, queueVars, turn>>

\* The fetch fails; the old score stays until the user retries.
TranscriptFails(t) ==
  /\ loading[t].stage # "none"
  /\ loading' = [loading EXCEPT ![t] = NoLoad]
  /\ Faulty
  /\ UNCHANGED <<versionVars, tabVars, queueVars, turn>>

-----------------------------------------------------------------------------
(* The save queue *)

\* The leading run of jobs for one session.
Run(t) ==
  LET n == CHOOSE i \in 1 .. Len(queue[t]) :
             /\ \A j \in 1 .. i : queue[t][j].chat = queue[t][1].chat
             /\ i < Len(queue[t]) => queue[t][i + 1].chat # queue[t][1].chat
  IN  SubSeq(queue[t], 1, n)
AfterRun(t) == SubSeq(queue[t], Len(Run(t)) + 1, Len(queue[t]))

FreeNumbers(C) == 1 .. MaxCalls \ {q.n : q \in C}
NextNumber(C) == CHOOSE n \in FreeNumbers(C) : \A m \in FreeNumbers(C) : n <= m

\* C are the calls that stay.
Sends(C, c, base, jobs, heard) ==
  /\ FreeNumbers(C) # {}
  /\ calls' = C \cup {Call(NextNumber(C), c, base, jobs, heard)}

\* flushOne up to its first fetch.  The base is the head of the open session,
\* whichever session the jobs are for.
FlushStarts(t) ==
  /\ ~Flushing(t)
  /\ queue[t] # <<>>
  /\ Sends(calls, Run(t)[1].chat, belief[t], Run(t), TRUE)
  /\ queue' = [queue EXCEPT ![t] = AfterRun(t)]
  /\ flush' = [flush EXCEPT ![t] =
       [jobs |-> Run(t), base |-> belief[t], attempt |-> 1, call |-> NextNumber(calls)]]
  /\ Normal
  /\ UNCHANGED <<rows, head, tabVars, minted, latest, dropped, retried, loading, turn>>

\* The next attempt of the same batch; rest are the calls without the old one.
TriesAgain(t, base, rest) ==
  /\ Sends(rest, flush[t].jobs[1].chat, base, flush[t].jobs, TRUE)
  /\ flush' = [flush EXCEPT ![t].attempt = @ + 1, ![t].base = base,
                            ![t].call = NextNumber(rest)]

\* Bug: the flag stays up when other jobs were queued meanwhile.
DoneIfIdle(t) == flush' = IF queue[t] = <<>> THEN [flush EXCEPT ![t] = NoFlush] ELSE flush
Done(t) == flush' = [flush EXCEPT ![t] = NoFlush]

\* Bug: the batch is forgotten.
PutBackNothing(t) == UNCHANGED queue
\* The batch goes back to the front of the queue.
PutBack(t) == queue' = [queue EXCEPT ![t] = flush[t].jobs \o @]

GivesUp(t) ==
  /\ Done(t)
  /\ dropped' = dropped \cup KeysOf(flush[t].jobs)

Awaited(t, q) == Flushing(t) /\ q.n = flush[t].call /\ q.stage = "answered"

\* 200: the store's head becomes the last row of the answer, whichever
\* session is open by now.
HearsSaved(t, q) ==
  /\ Awaited(t, q) /\ q.code = 200
  /\ Done(t)
  /\ belief' = [belief EXCEPT ![t] = q.seen]
  /\ calls' = calls \ {q}
  /\ Normal
  /\ UNCHANGED <<rows, head, chat, baseline, history, pointer, merging, enqueued,
                 queue, minted, latest, dropped, retried, loading, turn>>

\* 409 stale_parent: the first attempt is repeated on the server's head; a
\* later one puts the batch back and leaves it to the next flush.
HearsStale(t, q) ==
  /\ Awaited(t, q) /\ q.code = 409
  /\ \/ /\ flush[t].attempt = 1
        /\ TriesAgain(t, q.seen, calls \ {q})
        /\ UNCHANGED queue
     \/ /\ flush[t].attempt # 1
        /\ PutBack(t)
        /\ Done(t)
        /\ calls' = calls \ {q}
  /\ Normal
  /\ UNCHANGED <<rows, head, tabVars, minted, latest, dropped, retried, loading, turn>>

\* 4xx: the whole batch is dropped.
HearsRefused(t, q) ==
  /\ Awaited(t, q) /\ q.code = 400
  /\ GivesUp(t)
  /\ calls' = calls \ {q}
  /\ Normal
  /\ UNCHANGED <<rows, head, tabVars, queue, minted, latest, retried, loading, turn>>

MayRetry(t) == flush[t].attempt < MaxAttempts

Unheard(q) == [q EXCEPT !.heard = FALSE]

\* 5xx or an exception of fetch; in the second case the call may still be at
\* work.
AttemptFails(t, q) ==
  /\ Flushing(t) /\ q.n = flush[t].call
  /\ retried' = retried \cup KeysOf(q.jobs)
  /\ \E rest \in {calls \ {q}, (calls \ {q}) \cup {Unheard(q)}} :
       /\ \/ q.stage = "answered" /\ q.code = 500 /\ q \notin rest /\ Normal
          \/ q.stage # "answered" /\ Unheard(q) \in rest /\ Faulty
       /\ \/ /\ MayRetry(t)
             /\ TriesAgain(t, flush[t].base, rest)
             /\ UNCHANGED dropped
          \/ /\ ~MayRetry(t)
             /\ GivesUp(t)
             /\ calls' = rest
  /\ UNCHANGED <<rows, head, tabVars, queue, minted, latest, loading, turn>>

\* flushBeacon: the window is hidden or closed.  It does not wait for a flush
\* under way and hears no answer.
Beacon(t) ==
  /\ queue[t] # <<>>
  /\ queue' = [queue EXCEPT ![t] = AfterRun(t)]
  /\ Sends(calls, Run(t)[1].chat, belief[t], Run(t), FALSE)
  /\ dropped' = dropped \cup KeysOf(Run(t))
  /\ Acts
  /\ UNCHANGED <<rows, head, tabVars, flush, minted, latest, retried, loading, turn>>

QueueStep(t) ==
  \/ FlushStarts(t) \/ Beacon(t)
  \/ \E q \in calls :
       HearsSaved(t, q) \/ HearsStale(t, q) \/ HearsRefused(t, q) \/ AttemptFails(t, q)

-----------------------------------------------------------------------------
(* Turns of the model *)

TurnAt(t, s) == turn[t].stage = s
TurnGoes(t, r) == turn' = [turn EXCEPT ![t] = r]
TurnOver(t) == TurnGoes(t, [turn[t] EXCEPT !.stage = "none", !.id = 0, !.other = 0])

\* submit: flushSync drains the queue or runs into its timeout, so the request
\* goes out whatever the queue holds.
Submit(t) ==
  /\ TurnAt(t, "none")
  /\ acts < MaxActs
  /\ TurnGoes(t, [stage |-> "asked", chat |-> chat[t], id |-> 0, other |-> 0])
  /\ Normal
  /\ UNCHANGED <<versionVars, tabVars, queueVars, loading>>

\* The server's part: a score becomes the head or waits as a candidate; a turn
\* may also fail.
TurnAnswered(t) ==
  /\ TurnAt(t, "asked")
  /\ \/ \E bump \in BOOLEAN :
          /\ Acts
          /\ Appends(turn[t].chat, Score(turn[t].chat, acts + 1), bump)
          /\ TurnGoes(t, [turn[t] EXCEPT !.stage = IF bump THEN "answered" ELSE "offered",
                                         !.id = Len(rows) + 1])
     \/ /\ TurnOver(t)
        /\ Faulty
        /\ UNCHANGED versionVars
  /\ UNCHANGED <<tabVars, queueVars, loading>>

\* resolveRequest with the score of a version.
Resolves(t, v) ==
  /\ Shows(t, <<Object(rows[v].score, 0)>>, Object(rows[v].score, 0))
  /\ belief' = [belief EXCEPT ![t] = v]
  /\ loading' = [loading EXCEPT ![t] = NoLoad]

\* The JSON branch goes back to the session of the answer without asking; the
\* stream consumers drop an answer for another session.
TurnShown(t) ==
  /\ TurnAt(t, "answered")
  /\ \/ /\ Resolves(t, turn[t].id)
        /\ chat' = [chat EXCEPT ![t] = turn[t].chat]
        /\ enqueued' = [enqueued EXCEPT ![t] = IF chat[t] = turn[t].chat THEN @ ELSE NoObject]
     \/ /\ chat[t] # turn[t].chat
        /\ UNCHANGED <<tabVars, loading>>
  /\ TurnOver(t)
  /\ Normal
  /\ UNCHANGED <<versionVars, queueVars>>

\* The dialog opens over the session of the answer, whatever is on the screen.
OfferShown(t) ==
  /\ TurnAt(t, "offered")
  /\ TurnGoes(t, [turn[t] EXCEPT !.stage = "deciding"])
  /\ IF chat[t] = turn[t].chat
       THEN UNCHANGED <<chat, loading, enqueued, queue, minted, latest>>
       ELSE /\ chat' = [chat EXCEPT ![t] = turn[t].chat]
            /\ loading' = [loading EXCEPT ![t] =
                 IF @ = NoLoad THEN NoLoad ELSE [stage |-> "asked", id |-> 0]]
            /\ Persist(t, turn[t].chat, Screen(t), baseline[t], NoObject)
  /\ Quiet
  /\ Normal
  /\ UNCHANGED <<versionVars, belief, baseline, history, pointer, merging>>

\* The user takes the candidate ...
ReplacementAccepted(t) ==
  /\ TurnAt(t, "deciding")
  /\ Accepts(turn[t].chat, turn[t].id)
  /\ TurnGoes(t, [turn[t] EXCEPT !.stage = "accepted"])
  /\ Acts
  /\ UNCHANGED <<tabVars, queueVars, loading>>

\* ... or keeps the old version: the route reads the head, writes a row that
\* repeats it, and moves the head there, with an await between any two.
RejectionReads(t) ==
  /\ TurnAt(t, "deciding")
  /\ TurnGoes(t, [turn[t] EXCEPT !.stage = "rejecting", !.other = head[turn[t].chat]])
  /\ Acts
  /\ UNCHANGED <<versionVars, tabVars, queueVars, loading>>
RejectionInserts(t) ==
  /\ TurnAt(t, "rejecting")
  /\ RejectInserts(turn[t].chat, turn[t].other)
  /\ TurnGoes(t, [turn[t] EXCEPT !.stage = "reverting", !.id = Len(rows) + 1])
  /\ Normal
  /\ UNCHANGED <<tabVars, queueVars, loading>>
RejectionMoves(t) ==
  /\ TurnAt(t, "reverting")
  /\ RejectMoves(turn[t].chat, turn[t].id)
  /\ TurnGoes(t, [turn[t] EXCEPT !.stage = "rejected"])
  /\ Normal
  /\ UNCHANGED <<tabVars, queueVars, loading>>

\* The client's part of the decision; Escape only closes the dialog.
DecisionShown(t) ==
  /\ \/ TurnAt(t, "accepted") /\ Resolves(t, turn[t].id)
     \/ /\ TurnAt(t, "rejected")
        /\ belief' = [belief EXCEPT ![t] = turn[t].id]
        /\ UNCHANGED <<baseline, history, pointer, merging, loading>>
     \/ /\ TurnAt(t, "deciding")
        /\ UNCHANGED <<belief, baseline, history, pointer, merging, loading>>
  /\ TurnOver(t)
  /\ Normal
  /\ UNCHANGED <<versionVars, chat, enqueued, queueVars>>

TurnStep(t) ==
  \/ Submit(t) \/ TurnAnswered(t) \/ TurnShown(t) \/ OfferShown(t)
  \/ ReplacementAccepted(t) \/ RejectionReads(t) \/ RejectionInserts(t)
  \/ RejectionMoves(t) \/ DecisionShown(t)

UserStep(t) ==
  Edit(t) \/ Undo(t) \/ Redo(t) \/ ResetToLLM(t) \/ \E c \in Chats : Switch(t, c)

LoadStep(t) == TranscriptRead(t) \/ TranscriptShown(t) \/ TranscriptFails(t)

ServerStep ==
  /\ \E q \in calls : (BatchStep(q) /\ Normal) \/ (BatchFails(q) /\ Faulty)
  /\ UNCHANGED <<tabVars, queueVars, loading, turn>>

SyncNext ==
  \/ \E t \in Tabs : UserStep(t) \/ LoadStep(t) \/ QueueStep(t) \/ TurnStep(t)
  \/ ServerStep

SyncSpec == SyncInit /\ [][SyncNext]_syncVars

\* The idle timer fires once the user pauses, fetch answers or throws, and the
\* server works on what it was sent.
SyncFairSpec ==
  /\ SyncSpec
  /\ WF_syncVars(ServerStep)
  /\ \A t \in Tabs :
       /\ WF_syncVars(FlushStarts(t))
       /\ WF_syncVars(\E q \in calls : HearsSaved(t, q) \/ HearsStale(t, q)
                                        \/ HearsRefused(t, q) \/ AttemptFails(t, q))

-----------------------------------------------------------------------------
(* Properties *)

InHand(k) ==
  \E t \in Tabs : k \in KeysOf(queue[t]) \cup KeysOf(flush[t].jobs)

\* An edit that a queue took on is stored as the user left it, unless a queue
\* still has it, or gave it up (four failures, a 4xx, a beacon), or an attempt
\* with its key went unheard.  That last case is a gap of the code: the unheard
\* attempt may store the key's older score, and a newer one that was coalesced
\* into the job since is taken for a retry.
EditsReachTheServer ==
  \A k \in 1 .. minted \ (dropped \cup retried) :
    InHand(k) \/ \E v \in RowsWithKey(k) : rows[v].score = latest[k]

\* Not even an unheard attempt makes an edit vanish without a trace, and no
\* retry, beacon or second tab stores one job twice: the comparison of the head
\* is enough, the unique index never has to refuse a row.
KeysAreAccountedFor ==
  \A k \in 1 .. minted :
    /\ k \in dropped \/ InHand(k) \/ RowsWithKey(k) # {}
    /\ Cardinality(RowsWithKey(k)) <= 1

\* A session's versions hang together and stay its own, although a queue
\* flushes the jobs of one session on the head of another.
ChainsStaySeparate ==
  /\ \A v \in Ids : rows[v].parent # 0 =>
       rows[v].parent < v /\ rows[rows[v].parent].chat = rows[v].chat
  /\ \A c \in Chats : rows[head[c]].chat = c

\* A save or a turn that moves a head builds on it, so no version of another
\* writer falls out of the chain unseen.  Only a confirmation, which adds no
\* row in the step that moves the head, leaves versions behind, and a batch
\* that repeats a stored job whose answer was not heard: its new jobs hang
\* under the stored one, whatever came after it.
SavesBuildOnTheHead ==
  [][rows' # rows =>
       \/ \A c \in Chats : head[c] \in Elems(Chain(head[c])')
       \/ \E k \in retried : rows'[Len(rows) + 1].parent \in RowsWithKey(k)]_syncVars

\* The queue of a tab runs empty.
QueuesDrain ==
  \A t \in Tabs : (queue[t] # <<>>) ~> (queue[t] = <<>> /\ ~Flushing(t))

\* "A single live notation-editor session": the piece on the screen, the chat id
\* and the save queue belong together, so every saved edit is of the piece of
\* the session it is saved in (useEditPersistence, handleSelect).
EditsStayInTheirChat ==
  \A v \in Ids : rows[v].score.piece = rows[v].chat

=============================================================================
