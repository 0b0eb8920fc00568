---------------------------- MODULE ScoreVersions ---------------------------
(***************************************************************************)
(* The server's side of a piece: the rows of score_versions, the head      *)
(* pointer of each session, and the handler of POST versions/batch         *)
(* (src/src/app/api/sessions/[id]/versions/batch/route.ts).                *)
(*                                                                         *)
(* A row's id is its place in rows, 0 is NULL.  A call of the handler is   *)
(* a record that goes through one stage per await: the SELECT of the       *)
(* session, the SELECT of the idempotency keys, the transaction.  Other    *)
(* calls, turns and confirmations come in between.  The unique index on    *)
(* idempotency_key is left out on purpose: KeysAreAccountedFor (EditSync) shows   *)
(* that the compare-and-set on the head alone keeps it.                    *)
(***************************************************************************)
EXTENDS Integers, Sequences, FiniteSets

CONSTANTS
  Chats,      \* the sessions of the user
  NoKey       \* a NULL idempotency key (rows not written by the batch route)

ASSUME VersionsAssumption == IsFiniteSet(Chats)

VARIABLES
  rows,   \* score_versions
  head,   \* sessions.head_version_id
  calls   \* the batch requests on their way, at work or answered

versionVars == <<rows, head, calls>>

\* A score is known by the piece it was made from and a serial number; the
\* piece a session opens with has number 0.
Score(c, n) == [piece |-> c, n |-> n]

Row(c, p, s, k) == [chat |-> c, parent |-> p, score |-> s, key |-> k]

\* Each session starts with the version of its first turn.
Opening == CHOOSE order \in [1 .. Cardinality(Chats) -> Chats] :
             \A c \in Chats : \E v \in DOMAIN order : order[v] = c
VersionsInit ==
  /\ rows = [v \in DOMAIN Opening |-> Row(Opening[v], 0, Score(Opening[v], 0), NoKey)]
  /\ head = [c \in Chats |-> CHOOSE v \in DOMAIN Opening : Opening[v] = c]
  /\ calls = {}

Ids == DOMAIN rows
RowsWithKey(k) == {v \in Ids : rows[v].key = k}
KeysOf(jobs) == {jobs[i].key : i \in DOMAIN jobs}

\* The parent chain of a version, oldest first (extractVersionChain).
Chain(v) ==
  LET up[w \in 0 .. Len(rows)] == IF w = 0 THEN <<>> ELSE Append(up[rows[w].parent], w)
  IN  up[v]

-----------------------------------------------------------------------------
(* POST /api/sessions/:id/versions/batch *)

\* A call as the client sends it.  Nobody hears the answer to a beacon, nor
\* to an attempt the client has given up.
Call(n, c, base, jobs, heard) ==
  [n |-> n, chat |-> c, base |-> base, jobs |-> jobs, heard |-> heard,
   stage |-> "sent", seen |-> 0, known |-> {}, code |-> 0]

Becomes(q, r) == calls' = (calls \ {q}) \cup {r}

\* seen doubles as the head a reply carries.
Answer(q, code, v) ==
  IF q.heard
    THEN Becomes(q, [q EXCEPT !.stage = "answered", !.code = code, !.seen = v, !.known = {}])
    ELSE calls' = calls \ {q}

\* The body is validated before the first await: shape, size, full bars.
BatchRefused(q) ==
  /\ q.stage = "sent"
  /\ Answer(q, 400, 0)
  /\ UNCHANGED <<rows, head>>

\* The session and its head are read.
BatchLoads(q) ==
  /\ q.stage = "sent"
  /\ Becomes(q, [q EXCEPT !.stage = "loaded", !.seen = head[q.chat]])
  /\ UNCHANGED <<rows, head>>

\* Bug: any parent will do.
NeverStale(q, v) == FALSE
\* The compare of the compare-and-set, made before and inside the transaction.
Stale(q, v) == q.base # v

\* Bug: one known key makes the whole batch a retry.
BatchResolvesAny(q) ==
  /\ q.stage = "loaded"
  /\ LET known == {k \in KeysOf(q.jobs) : RowsWithKey(k) # {}}
     IN  IF known # {}
           THEN Answer(q, 200, CHOOSE v \in UNION {RowsWithKey(k) : k \in known} : TRUE)
           ELSE IF Stale(q, q.seen)
             THEN Answer(q, 409, q.seen)
             ELSE Becomes(q, [q EXCEPT !.stage = "checked"])
  /\ UNCHANGED <<rows, head>>

\* The keys that already have a row; all of them: the old ids are the answer;
\* then the cheap check of the base against the head read before.
BatchResolves(q) ==
  /\ q.stage = "loaded"
  /\ LET known == {k \in KeysOf(q.jobs) : RowsWithKey(k) # {}}
         lastKey == q.jobs[Len(q.jobs)].key
     IN  IF known = KeysOf(q.jobs)
           THEN Answer(q, 200, CHOOSE v \in RowsWithKey(lastKey) : TRUE)
           ELSE IF Stale(q, q.seen)
             THEN Answer(q, 409, q.seen)
             ELSE Becomes(q, [q EXCEPT !.stage = "checked", !.known = known])
  /\ UNCHANGED <<rows, head>>

\* The loop of the transaction: a known entry only moves the chain pointer.
Chained(q) ==
  LET upTo[i \in 0 .. Len(q.jobs)] ==
        IF i = 0 THEN [table |-> rows, prev |-> q.base]
        ELSE LET done == upTo[i - 1]
                 job == q.jobs[i]
             IN  IF job.key \in q.known
                   THEN [done EXCEPT !.prev = CHOOSE v \in RowsWithKey(job.key) : TRUE]
                   ELSE [table |-> Append(done.table,
                                          Row(q.chat, done.prev, job.score, job.key)),
                         prev |-> Len(done.table) + 1]
  IN  upTo[Len(q.jobs)]

\* Bug: the head is not read again inside the transaction.
BatchWritesUnchecked(q) ==
  /\ q.stage = "checked"
  /\ rows' = Chained(q).table
  /\ head' = [head EXCEPT ![q.chat] = Chained(q).prev]
  /\ Answer(q, 200, Chained(q).prev)

\* The transaction: the head is compared again, the chain inserted, the head
\* moved to its last entry.
BatchWrites(q) ==
  /\ q.stage = "checked"
  /\ \/ /\ Stale(q, head[q.chat])
        /\ Answer(q, 409, head[q.chat])
        /\ UNCHANGED <<rows, head>>
     \/ /\ ~Stale(q, head[q.chat])
        /\ rows' = Chained(q).table
        /\ head' = [head EXCEPT ![q.chat] = Chained(q).prev]
        /\ Answer(q, 200, Chained(q).prev)

\* A request that never reaches the server, or one the server fails (5xx)
\* before its transaction: the client may still hope for an answer.
CallLost(q) ==
  /\ q.stage # "answered"
  /\ Answer(q, 500, 0)
  /\ UNCHANGED <<rows, head>>

BatchStep(q) == BatchLoads(q) \/ BatchResolves(q) \/ BatchWrites(q)
BatchFails(q) == BatchRefused(q) \/ CallLost(q)

-----------------------------------------------------------------------------
(* The other writers of the head *)

\* appendMessages with a score: the new version hangs under the head of the
\* moment; bump is ~skipHeadVersionBump.
Appends(c, s, bump) ==
  /\ rows' = Append(rows, Row(c, head[c], s, NoKey))
  /\ head' = IF bump THEN [head EXCEPT ![c] = Len(rows) + 1] ELSE head
  /\ UNCHANGED calls

\* confirm-replacement, accept: the head goes to the candidate, whatever it is.
Accepts(c, candidate) ==
  /\ head' = [head EXCEPT ![c] = candidate]
  /\ UNCHANGED <<rows, calls>>

\* confirm-replacement, reject: a row that repeats the head read before ...
RejectInserts(c, prior) ==
  /\ rows' = Append(rows, Row(c, prior, rows[prior].score, NoKey))
  /\ UNCHANGED <<head, calls>>

\* ... and, one await later, the head goes to that row.
RejectMoves(c, revert) ==
  /\ head' = [head EXCEPT ![c] = revert]
  /\ UNCHANGED <<rows, calls>>

=============================================================================
