--------------------------- MODULE TranscriptProofs -------------------------
(***************************************************************************)
(* What the messages of a session promise for any number of turns, reverts *)
(* and overlaps: the log is only appended to, a row ends once, turns that  *)
(* did not overlap cannot pass the limit of the conversation, which counts *)
(* only answers, and what is sent to the model ends with the prompt and    *)
(* answers the calls in it.                                                *)
(***************************************************************************)
EXTENDS Transcript, FiniteSetTheorems, SequenceTheorems, WellFoundedInduction, TLAPS

Tools == Turns \cup {Seed, NoTool, Synth}
Message == [role : {"user", "assistant"}, turn : Turns \cup {Seed},
            tool : Tools, answers : Tools]

Stages == {"new", "read", "asked", "streaming", "over"}

TranscriptTypeOK ==
  /\ rows \in Seq(Message)
  /\ partial \subseteq DOMAIN rows
  /\ errored \subseteq DOMAIN rows \ partial
  /\ old \subseteq partial
  /\ stage \in [Turns -> Stages]
  /\ read \in [Turns -> Nat]
  /\ \A t \in Turns : read[t] <= Len(rows)
  /\ idle \in BOOLEAN /\ deleted \in BOOLEAN

-----------------------------------------------------------------------------
(* Data *)

\* A bounded set of naturals has a greatest element.
LEMMA GreatestExists ==
  ASSUME NEW n \in Nat, NEW S \in SUBSET (0 .. n), S # {}
  PROVE  \E x \in S : \A y \in S : x >= y
<1> DEFINE T == {n - x : x \in S}
<1> DEFINE R == OpToRel(<, Nat)
<1>1. T \subseteq Nat /\ T # {}
  <2>1. \A x \in S : n - x \in Nat /\ n - x \in T
    OBVIOUS
  <2>2. PICK s \in S : TRUE
    OBVIOUS
  <2>3. QED
    BY <2>1, <2>2
<1>2. IsWellFoundedOn(R, Nat)
  BY NatLessThanWellFounded
<1>3. \A x, y \in Nat : y < x => <<y, x>> \in R
  BY DEF OpToRel
<1> HIDE DEF R
<1>4. PICK z \in T : \A y \in T : ~(<<y, z>> \in R)
  BY <1>1, <1>2, WFMin
<1>5. PICK x \in S : z = n - x
  OBVIOUS
<1>6. ASSUME NEW y \in S
      PROVE  x >= y
  <2>1. n - y \in T /\ n - y \in Nat /\ z \in Nat
    BY <1>1
  <2>2. ~(n - y < z)
    BY <1>3, <1>4, <2>1
  <2>3. x \in Int /\ y \in Int
    OBVIOUS
  <2>4. QED
    BY <1>5, <2>2, <2>3
<1>7. QED
  BY <1>6

\* The tool call a prompt answers is one of those in the messages.
LEMMA LastToolUseType ==
  ASSUME NEW s \in Seq(Message)
  PROVE  LastToolUse(s) \in Tools
<1> DEFINE at == {i \in DOMAIN s : Scored(s[i]) /\ s[i].tool # Synth}
<1>1. CASE at = {}
  BY <1>1 DEF LastToolUse, Tools
<1>2. CASE at # {}
  <2>1. DOMAIN s = 1 .. Len(s) /\ Len(s) \in Nat
    BY LenProperties
  <2>2. at \in SUBSET (0 .. Len(s))
    BY <2>1
  <2>3. \E x \in at : \A y \in at : x >= y
    BY <1>2, <2>1, <2>2, GreatestExists
  <2>4. Max(at) \in at
    BY <2>3 DEF Max
  <2>5. s[Max(at)] \in Message
    BY <2>1, <2>4, ElementOfSeq
  <2>6. LastToolUse(s) = s[Max(at)].tool
    BY <1>2 DEF LastToolUse
  <2>7. QED
    BY <2>5, <2>6 DEF Message
<1>3. QED
  BY <1>1, <1>2

-----------------------------------------------------------------------------
(* What is written *)

\* What a step appends, and when.
Appends(ms) ==
  \/ \E t \in Turns : stage[t] = "read" /\ stage'[t] = "asked" /\ ms = <<UserTurn(t)>>
  \/ \E t \in Turns : \E a \in {t, NoTool, Synth} :
       stage[t] = "asked" /\ stage'[t] # "asked" /\ ms = <<Reply(t, a)>>
  \/ rows # <<>> /\ ms = <<Prompt(Seed, NoTool), Reply(Seed, Synth)>>

LEMMA SeenType ==
  ASSUME TranscriptTypeOK, NEW t \in Turns
  PROVE  UserTurn(t) \in Message
<1>1. read[t] \in Nat /\ read[t] <= Len(rows)
  BY DEF TranscriptTypeOK
<1>2. \A i \in 1 .. read[t] : rows[i] \in Message
  BY <1>1, ElementOfSeq DEF TranscriptTypeOK
<1>3. Seen(t) \in Seq(Message)
  BY <1>1, <1>2, SubSeqProperties DEF Seen
<1>4. QED
  BY <1>3, LastToolUseType DEF UserTurn, Prompt, Message, Tools

LEMMA MessagesAppended ==
  ASSUME TranscriptTypeOK, NEW ms, Appends(ms)
  PROVE  ms \in Seq(Message) /\ Len(ms) \in 1 .. 2
<1>1. CASE \E t \in Turns : ms = <<UserTurn(t)>>
  BY <1>1, SeenType
<1>2. CASE \E t \in Turns : \E a \in {t, NoTool, Synth} : ms = <<Reply(t, a)>>
  <2>1. PICK t \in Turns, a \in Tools : ms = <<Reply(t, a)>>
    BY <1>2 DEF Tools
  <2>2. Reply(t, a) \in Message
    BY DEF Reply, Message, Tools
  <2>3. QED
    BY <2>1, <2>2
<1>3. CASE ms = <<Prompt(Seed, NoTool), Reply(Seed, Synth)>>
  <2>1. Prompt(Seed, NoTool) \in Message /\ Reply(Seed, Synth) \in Message
    BY DEF Prompt, Reply, Message, Tools
  <2>2. QED
    BY <1>3, <2>1
<1>4. QED
  BY <1>1, <1>2, <1>3 DEF Appends

\* The log is left alone or appended to.
LEMMA LogGrows ==
  ASSUME TranscriptTypeOK, [Next]_vars
  PROVE  rows' = rows \/ \E ms : Appends(ms) /\ rows' = rows \o ms
<1>1. ASSUME NEW t \in Turns, Asks(t)
      PROVE  Appends(<<UserTurn(t)>>) /\ rows' = rows \o <<UserTurn(t)>>
  BY <1>1 DEF Asks, Writes, Goto, Appends, TranscriptTypeOK
<1>2. ASSUME NEW t \in Turns, Answers(t) \/ Opens(t)
      PROVE  \E ms : Appends(ms) /\ rows' = rows \o ms
  BY <1>2 DEF Answers, Opens, Writes, Goto, Appends, TranscriptTypeOK
<1>3. ASSUME Revert
      PROVE  \E ms : Appends(ms) /\ rows' = rows \o ms
  <2>1. rows # <<>>
    BY <1>3 DEF Revert
  <2>2. QED
    BY <1>3, <2>1 DEF Revert, Writes, Appends
<1>4. ASSUME NEW t \in Turns,
             Reads(t) \/ Refused(t) \/ Fails(t) \/ StreamEnds(t) \/ FinalizeFails(t)
      PROVE  rows' = rows
  BY <1>4 DEF Reads, Refused, Fails, StreamEnds, FinalizeFails
<1>5. Delete \/ Sweep \/ Crash \/ TenMinutes \/ HalfHour \/ UNCHANGED vars => rows' = rows
  BY DEF Delete, Sweep, Crash, TenMinutes, HalfHour, vars
<1>6. QED
  BY <1>1, <1>2, <1>3, <1>4, <1>5 DEF Next

\* Appended messages leave the rows before them where they were.
LEMMA AppendedRows ==
  ASSUME TranscriptTypeOK, NEW ms, Appends(ms), rows' = rows \o ms
  PROVE  /\ rows' \in Seq(Message)
         /\ Len(rows) \in Nat /\ Len(rows') = Len(rows) + Len(ms)
         /\ DOMAIN rows = 1 .. Len(rows) /\ DOMAIN rows' = 1 .. Len(rows')
         /\ \A i \in 1 .. Len(rows) : rows'[i] = rows[i]
         /\ \A j \in 1 .. Len(ms) : rows'[Len(rows) + j] = ms[j]
<1>1. rows \in Seq(Message) /\ ms \in Seq(Message) /\ Len(ms) \in Nat
  BY MessagesAppended DEF TranscriptTypeOK
<1>2. /\ rows' \in Seq(Message)
      /\ Len(rows') = Len(rows) + Len(ms)
      /\ \A i \in 1 .. Len(rows) + Len(ms) : rows'[i] =
           IF i <= Len(rows) THEN rows[i] ELSE ms[i - Len(rows)]
  BY <1>1, ConcatProperties
<1>3. /\ Len(rows) \in Nat /\ DOMAIN rows = 1 .. Len(rows)
      /\ DOMAIN rows' = 1 .. Len(rows')
  BY <1>1, <1>2, LenProperties
<1>4. \A j \in 1 .. Len(ms) : /\ Len(rows) + j \in 1 .. Len(rows) + Len(ms)
                              /\ ~(Len(rows) + j <= Len(rows))
                              /\ (Len(rows) + j) - Len(rows) = j
  BY <1>1, <1>3
<1>5. QED
  BY <1>1, <1>2, <1>3, <1>4

-----------------------------------------------------------------------------
(* Types *)

LEMMA TranscriptTypeStep ==
  ASSUME TranscriptTypeOK, [Next]_vars
  PROVE  TranscriptTypeOK'
<1> USE DEF TranscriptTypeOK, Goto, Stages
<1>1. /\ rows' \in Seq(Message)
      /\ DOMAIN rows \subseteq DOMAIN rows'
      /\ \A t \in Turns : read[t] <= Len(rows')
  <2>1. CASE rows' = rows
    BY <2>1
  <2>2. CASE \E ms : Appends(ms) /\ rows' = rows \o ms
    <3>1. PICK ms : Appends(ms) /\ rows' = rows \o ms
      BY <2>2
    <3>2. /\ rows' \in Seq(Message) /\ Len(rows) \in Nat /\ Len(ms) \in 1 .. 2
          /\ Len(rows') = Len(rows) + Len(ms)
          /\ DOMAIN rows = 1 .. Len(rows) /\ DOMAIN rows' = 1 .. Len(rows')
      BY <3>1, AppendedRows, MessagesAppended
    <3>3. QED
      BY <3>2
  <2>3. QED
    BY <2>1, <2>2, LogGrows
<1>2. Len(rows) \in Nat
  BY LenProperties
<1>3. ASSUME NEW t \in Turns, Reads(t)
      PROVE  TranscriptTypeOK'
  BY <1>2, <1>3 DEF Reads
<1>4. ASSUME NEW t \in Turns, Refused(t) \/ Fails(t) \/ FinalizeFails(t)
      PROVE  TranscriptTypeOK'
  BY <1>4 DEF Refused, Fails, FinalizeFails
<1>5. ASSUME NEW t \in Turns, Asks(t) \/ Answers(t)
      PROVE  TranscriptTypeOK'
  <2>1. /\ UNCHANGED <<partial, errored, read, old, deleted>> /\ idle' = FALSE
        /\ \E s \in Stages : stage' = [stage EXCEPT ![t] = s]
    BY <1>5 DEF Asks, Answers, Writes
  <2>2. QED
    BY <1>1, <1>2, <2>1
<1>6. ASSUME NEW t \in Turns, Opens(t)
      PROVE  TranscriptTypeOK'
  <2>1. Len(rows) + 1 \in DOMAIN rows' /\ Len(rows) + 1 \notin DOMAIN rows
    <3>1. Appends(<<Reply(t, NoTool)>>) /\ rows' = rows \o <<Reply(t, NoTool)>>
      BY <1>6 DEF Opens, Writes, Appends, TranscriptTypeOK
    <3>2. Len(rows') = Len(rows) + 1 /\ DOMAIN rows = 1 .. Len(rows)
          /\ DOMAIN rows' = 1 .. Len(rows')
      BY <3>1, AppendedRows
    <3>3. QED
      BY <1>2, <3>2
  <2>2. /\ partial' = partial \cup {Len(rows) + 1}
        /\ UNCHANGED <<errored, read, old, deleted>> /\ idle' = FALSE
        /\ stage' = [stage EXCEPT ![t] = "streaming"]
    BY <1>6 DEF Opens, Writes
  <2>3. QED
    BY <1>1, <1>2, <2>1, <2>2
<1>7. ASSUME NEW t \in Turns, StreamEnds(t)
      PROVE  TranscriptTypeOK'
  BY <1>7 DEF StreamEnds, StreamRow, Finalized
<1>8. Revert => TranscriptTypeOK'
  BY <1>1, <1>2 DEF Revert, Writes
<1>9. Delete \/ TenMinutes \/ HalfHour \/ UNCHANGED vars => TranscriptTypeOK'
  BY DEF Delete, TenMinutes, HalfHour, vars
<1>10. Sweep => TranscriptTypeOK'
  BY DEF Sweep, Reaped, Orphaned
<1>11. Crash => TranscriptTypeOK'
  BY DEF Crash, Reaped
<1>12. QED
  BY <1>3, <1>4, <1>5, <1>6, <1>7, <1>8, <1>9, <1>10, <1>11 DEF Next

\* The rows are well-formed, and of the marks on them each is on a row there
\* is; a row is not partial and errored at once.
THEOREM TranscriptTypes == TranscriptSpec => []TranscriptTypeOK
<1>1. Init => TranscriptTypeOK
  <2>1. Histories \subseteq Seq(Message)
    <3>1. \A a \in Tools : Prompt(Seed, a) \in Message /\ Reply(Seed, a) \in Message
      BY DEF Prompt, Reply, Message, Tools
    <3>2. Seed \in Tools /\ NoTool \in Tools /\ Synth \in Tools
      BY DEF Tools
    <3>3. QED
      BY <3>1, <3>2 DEF Histories
  <2>2. Init => rows \in Seq(Message) /\ Len(rows) \in Nat
    BY <2>1, LenProperties DEF Init
  <2>3. ASSUME Init
        PROVE  TranscriptTypeOK
    <3>1. rows \in Seq(Message) /\ Len(rows) \in Nat
      BY <2>2, <2>3
    <3>2. /\ partial = {} /\ errored = {} /\ old = {}
          /\ stage = [t \in Turns |-> "new"] /\ read = [t \in Turns |-> 0]
          /\ idle = FALSE /\ deleted = FALSE
      BY <2>3 DEF Init
    <3>3. read \in [Turns -> Nat] /\ \A t \in Turns : read[t] <= Len(rows)
      BY <3>1, <3>2
    <3>4. stage \in [Turns -> Stages]
      BY <3>2 DEF Stages
    <3>5. QED
      BY <3>1, <3>2, <3>3, <3>4 DEF TranscriptTypeOK
  <2>4. QED
    BY <2>3
<1>2. TranscriptTypeOK /\ [Next]_vars => TranscriptTypeOK'
  BY TranscriptTypeStep
<1>3. QED
  BY <1>1, <1>2, PTL DEF TranscriptSpec

\* A row that ended stays as it ended, and no message is lost or moved: the
\* guard of finalizeStreamingMessage, and a sweep that takes partial rows only.
THEOREM TranscriptRowsEndOnce == TranscriptSpec => RowsEndOnce
<1> DEFINE Kept == /\ IsPrefix(rows, rows')
                   /\ \A i \in DOMAIN rows \ partial :
                        i \notin partial' /\ (i \in errored' <=> i \in errored)
<1>1. TranscriptTypeOK /\ Next => Kept
  <2> SUFFICES ASSUME TranscriptTypeOK, Next
               PROVE  Kept
    OBVIOUS
  <2>1. IsPrefix(rows, rows')
    <3>1. CASE rows' = rows
      BY <3>1, LenProperties DEF IsPrefix, TranscriptTypeOK
    <3>2. CASE \E ms : Appends(ms) /\ rows' = rows \o ms
      <4>1. PICK ms : Appends(ms) /\ rows' = rows \o ms
        BY <3>2
      <4>2. /\ rows' \in Seq(Message) /\ Len(rows) \in Nat /\ Len(ms) \in Nat
            /\ Len(rows') = Len(rows) + Len(ms)
            /\ \A i \in 1 .. Len(rows) : rows'[i] = rows[i]
        BY <4>1, AppendedRows, MessagesAppended
      <4>3. SubSeq(rows, 1, Len(rows)) = SubSeq(rows', 1, Len(rows))
        BY <4>2 DEF TranscriptTypeOK
      <4>4. QED
        BY <4>2, <4>3 DEF IsPrefix
    <3>3. QED
      BY <3>1, <3>2, LogGrows
  <2>2. ASSUME NEW i \in DOMAIN rows \ partial
        PROVE  i \notin partial' /\ (i \in errored' <=> i \in errored)
    <3> USE DEF TranscriptTypeOK
    <3>1. ASSUME NEW t \in Turns, Reads(t) \/ Refused(t) \/ Asks(t) \/ Answers(t)
                                  \/ Fails(t) \/ FinalizeFails(t)
          PROVE  UNCHANGED <<partial, errored>>
      BY <3>1 DEF Reads, Refused, Asks, Answers, Fails, FinalizeFails
    <3>2. ASSUME NEW t \in Turns, Opens(t)
          PROVE  i \notin partial' /\ errored' = errored
      <4>1. Len(rows) + 1 \notin DOMAIN rows
        BY LenProperties
      <4>2. QED
        BY <3>2, <4>1 DEF Opens
    <3>3. ASSUME NEW t \in Turns, StreamEnds(t)
          PROVE  i \notin partial' /\ (i \in errored' <=> i \in errored)
      BY <3>3 DEF StreamEnds, Finalized
    <3>4. Revert \/ Delete \/ TenMinutes \/ HalfHour => UNCHANGED <<partial, errored>>
      BY DEF Revert, Delete, TenMinutes, HalfHour
    <3>5. Sweep \/ Crash => i \notin partial' /\ (i \in errored' <=> i \in errored)
      BY DEF Sweep, Crash, Reaped
    <3>6. QED
      BY <3>1, <3>2, <3>3, <3>4, <3>5 DEF Next
  <2>3. QED
    BY <2>1, <2>2
<1>2. TranscriptTypeOK /\ [Next]_vars => [Kept]_vars
  BY <1>1
<1>3. QED
  BY <1>2, TranscriptTypes, PTL DEF TranscriptSpec, RowsEndOnce

-----------------------------------------------------------------------------
(* The limit of the conversation *)

\* The answered turns among the first n messages.
Answered(n) == {i \in 2 .. n : rows[i].role = "assistant" /\ rows[i - 1].role = "user"}

\* A turn starts only if what it read is below the limit.
ReadBelowLimit ==
  \A t \in Turns : Cardinality(Answered(read[t])) < MaxUserTurns

LEMMA AnsweredFinite ==
  ASSUME NEW n \in Nat
  PROVE  IsFiniteSet(Answered(n)) /\ Cardinality(Answered(n)) \in Nat
<1>1. IsFiniteSet(2 .. n)
  BY FS_Interval
<1>2. Answered(n) \in SUBSET (2 .. n)
  BY DEF Answered
<1>3. IsFiniteSet(Answered(n))
  BY <1>1, <1>2, FS_Subset
<1>4. QED
  BY <1>3, FS_CardinalityType

\* The route counts what Answered says.
LEMMA AnsweredCounted ==
  ASSUME TranscriptTypeOK
  PROVE  AnsweredTurns(rows) = Cardinality(Answered(Len(rows)))
<1>1. DOMAIN rows = 1 .. Len(rows) /\ Len(rows) \in Nat
  BY LenProperties DEF TranscriptTypeOK
<1>2. {i \in DOMAIN rows : rows[i].role = "assistant" /\ i > 1 /\ rows[i - 1].role = "user"}
        = Answered(Len(rows))
  BY <1>1 DEF Answered
<1>3. QED
  BY <1>2 DEF AnsweredTurns

LEMMA ReadBelowLimitStep ==
  ASSUME TranscriptTypeOK, ReadBelowLimit, [Next]_vars
  PROVE  ReadBelowLimit'
<1> SUFFICES ASSUME NEW t \in Turns
             PROVE  Cardinality(Answered(read[t])') < MaxUserTurns
  BY DEF ReadBelowLimit, Answered
<1>1. Len(rows) \in Nat /\ DOMAIN rows = 1 .. Len(rows)
      /\ \A i \in 1 .. Len(rows) : rows'[i] = rows[i]
  BY LogGrows, AppendedRows, LenProperties DEF TranscriptTypeOK
<1>2. \A n \in 0 .. Len(rows) :
        {i \in 2 .. n : rows'[i].role = "assistant" /\ rows'[i - 1].role = "user"} = Answered(n)
  BY <1>1 DEF Answered
<1>3. read[t] \in 0 .. Len(rows) /\ read \in [Turns -> Nat]
  BY <1>1 DEF TranscriptTypeOK
<1>4. read'[t] = read[t] \/ (read'[t] = Len(rows) /\ ~Full)
  <2>1. ASSUME NEW s \in Turns, Reads(s)
        PROVE  read'[t] = read[t] \/ (read'[t] = Len(rows) /\ ~Full)
    BY <1>3, <2>1 DEF Reads
  <2>2. ASSUME NEW s \in Turns, Refused(s) \/ Asks(s) \/ Answers(s) \/ Fails(s)
                 \/ Opens(s) \/ StreamEnds(s) \/ FinalizeFails(s)
        PROVE  read' = read
    BY <2>2 DEF Refused, Asks, Answers, Fails, Opens, StreamEnds, FinalizeFails
  <2>3. \/ Revert \/ Delete \/ Sweep \/ Crash \/ TenMinutes \/ HalfHour \/ UNCHANGED vars
        => read' = read
    BY DEF Revert, Delete, Sweep, Crash, TenMinutes, HalfHour, vars
  <2>4. QED
    BY <2>1, <2>2, <2>3 DEF Next
<1>5. ~Full => Cardinality(Answered(Len(rows))) < MaxUserTurns
  BY <1>1, AnsweredCounted, AnsweredFinite, TranscriptAssumption DEF Full
<1>6. read'[t] \in 0 .. Len(rows) /\ Cardinality(Answered(read'[t])) < MaxUserTurns
  BY <1>1, <1>3, <1>4, <1>5 DEF ReadBelowLimit
<1>7. Answered(read[t])' = Answered(read'[t])
  BY <1>2, <1>6 DEF Answered
<1>8. QED
  BY <1>6, <1>7

\* Where each answer follows a prompt, the answers before a prompt written on
\* what its turn had read are those the limit was checked against.
LEMMA LimitHolds ==
  ASSUME TranscriptTypeOK, ReadBelowLimit
  PROVE  PromptsUnderLimit
<1> SUFFICES ASSUME Undisturbed,
                    \A i \in DOMAIN rows : rows[i].role = "assistant" =>
                      i > 1 /\ rows[i - 1].role = "user",
                    NEW i \in DOMAIN rows, rows[i].role = "user", rows[i].turn # Seed
             PROVE  Cardinality({j \in 1 .. i - 1 : rows[j].role = "assistant"}) < MaxUserTurns
  BY DEF PromptsUnderLimit
<1>1. DOMAIN rows = 1 .. Len(rows) /\ Len(rows) \in Nat /\ rows[i] \in Message
  BY LenProperties, ElementOfSeq DEF TranscriptTypeOK
<1>2. rows[i].turn \in Turns /\ read[rows[i].turn] = i - 1
  BY <1>1 DEF Message, Undisturbed
<1>3. {j \in 1 .. i - 1 : rows[j].role = "assistant"} = Answered(i - 1)
  BY <1>1 DEF Answered
<1>4. QED
  BY <1>2, <1>3 DEF ReadBelowLimit

\* What a turn has read was below the limit when it read it, and messages are
\* never lost.
LEMMA ReadsBelowLimit == TranscriptSpec => []ReadBelowLimit
<1>1. Init => ReadBelowLimit
  <2>1. Answered(0) = {}
    BY DEF Answered
  <2>2. QED
    BY <2>1, FS_EmptySet, TranscriptAssumption DEF Init, ReadBelowLimit
<1>2. TranscriptTypeOK /\ ReadBelowLimit /\ [Next]_vars => ReadBelowLimit'
  BY ReadBelowLimitStep
<1>3. QED
  BY <1>1, <1>2, TranscriptTypes, PTL DEF TranscriptSpec

-----------------------------------------------------------------------------
(* What goes to the model *)

LEMMA SetInduction ==
  ASSUME NEW S, 0 \in S, \A n \in Nat : n \in S => n + 1 \in S
  PROVE  Nat \subseteq S
<1> DEFINE T == Nat \ S
<1> DEFINE R == OpToRel(<, Nat)
<1>1. SUFFICES ASSUME T # {} PROVE FALSE
  OBVIOUS
<1>2. T \subseteq Nat
  OBVIOUS
<1>3. IsWellFoundedOn(R, Nat)
  BY NatLessThanWellFounded
<1>4. \A x, y \in Nat : y < x => <<y, x>> \in R
  BY DEF OpToRel
<1> HIDE DEF R
<1>5. PICK x \in T : \A y \in T : ~(<<y, x>> \in R)
  BY <1>1, <1>2, <1>3, WFMin
<1>6. x # 0 /\ x \in Nat
  OBVIOUS
<1>7. x - 1 \in Nat /\ x - 1 < x /\ (x - 1) + 1 = x
  BY <1>6
<1>8. x - 1 \in S
  BY <1>4, <1>5, <1>6, <1>7
<1>9. QED
  BY <1>7, <1>8

\* A message that fits behind b: a prompt carries no tool call, and what it
\* answers stands in b.
HasTool(b, a) == \E j \in 1 .. Len(b) : b[j].tool = a
Fits(m, b) ==
  /\ m.role = "user" => m.tool = NoTool
  /\ m.answers # NoTool => HasTool(b, m.answers)
Grounded(b) ==
  /\ b \in Seq(Message)
  /\ \A i \in 1 .. Len(b) :
       /\ b[i].role = "user" => b[i].tool = NoTool
       /\ b[i].answers # NoTool => \E j \in 1 .. i - 1 : b[j].tool = b[i].answers
Alternates(b) == \A i \in 1 .. Len(b) : b[i].role = IF i % 2 = 1 THEN "user" ELSE "assistant"

LEMMA NextParity ==
  ASSUME NEW n \in Nat
  PROVE  (n + 1) % 2 = 1 <=> n % 2 # 1
OBVIOUS

LEMMA PromptParity ==
  ASSUME NEW b \in Seq(Message), Alternates(b)
  PROVE  EndsWithPrompt(b) <=> Len(b) % 2 = 1
<1>1. Len(b) \in Nat /\ (b = <<>> <=> Len(b) = 0)
  BY EmptySeq, LenProperties
<1>2. CASE Len(b) = 0
  BY <1>1, <1>2 DEF EndsWithPrompt
<1>3. CASE Len(b) # 0
  <2>1. Len(b) \in 1 .. Len(b)
    BY <1>1, <1>3
  <2>2. b[Len(b)].role = IF Len(b) % 2 = 1 THEN "user" ELSE "assistant"
    BY <2>1 DEF Alternates
  <2>3. QED
    BY <1>1, <1>3, <2>2 DEF EndsWithPrompt, Last
<1>4. QED
  BY <1>2, <1>3

\* The first k messages.
LEMMA FirstMessages ==
  ASSUME NEW s \in Seq(Message), NEW k \in Nat, k <= Len(s)
  PROVE  /\ SubSeq(s, 1, k) \in Seq(Message)
         /\ Len(SubSeq(s, 1, k)) = k
         /\ \A i \in 1 .. k : SubSeq(s, 1, k)[i] = s[i]
<1> DEFINE n == Len(s)
<1>1. n \in Nat
  BY LenProperties
<1> HIDE DEF n
<1>2. \A i \in 1 .. k : i \in 1 .. n
  BY <1>1 DEF n
<1>3. 1 \in Int /\ k \in Int /\ \A i \in 1 .. k : s[i] \in Message
  BY <1>2, ElementOfSeq DEF n
<1>4. /\ SubSeq(s, 1, k) \in Seq(Message)
      /\ Len(SubSeq(s, 1, k)) = IF 1 <= k THEN k - 1 + 1 ELSE 0
      /\ \A i \in 1 .. k - 1 + 1 : SubSeq(s, 1, k)[i] = s[1 + i - 1]
  BY <1>3, SubSeqProperties
<1>5. /\ (IF 1 <= k THEN k - 1 + 1 ELSE 0) = k
      /\ \A i \in 1 .. k : i \in 1 .. k - 1 + 1 /\ 1 + i - 1 = i
  OBVIOUS
<1>6. QED
  BY <1>4, <1>5

\* Dropping a prompt at the end drops no tool call.
LEMMA FrontGrounded ==
  ASSUME NEW b, Grounded(b), EndsWithPrompt(b)
  PROVE  /\ Grounded(Front(b))
         /\ \A a : a # NoTool /\ HasTool(b, a) => HasTool(Front(b), a)
         /\ Alternates(b) => Alternates(Front(b)) /\ ~EndsWithPrompt(Front(b))
<1> DEFINE n == Len(b)
           c == Front(b)
<1>1. b \in Seq(Message) /\ n \in Nat \ {0} /\ b[n].role = "user" /\ n \in 1 .. n
  BY EmptySeq, LenProperties DEF Grounded, EndsWithPrompt, Last
<1>2. c \in Seq(Message) /\ Len(c) = n - 1 /\ \A i \in 1 .. n - 1 : c[i] = b[i]
  <2>1. n - 1 \in Nat /\ n - 1 <= n
    BY <1>1
  <2>2. c = SubSeq(b, 1, n - 1)
    BY DEF Front
  <2> HIDE DEF c
  <2>3. QED
    BY <1>1, <2>1, <2>2, FirstMessages
<1>3. b[n].tool = NoTool
  BY <1>1 DEF Grounded
<1> HIDE DEF n, c
<1>4. \A i \in 1 .. n - 1 : i \in 1 .. n /\ \A j \in 1 .. i - 1 : j \in 1 .. n - 1
  BY <1>1
<1>5. ASSUME NEW i \in 1 .. n - 1
      PROVE  /\ c[i].role = "user" => c[i].tool = NoTool
             /\ c[i].answers # NoTool => \E j \in 1 .. i - 1 : c[j].tool = c[i].answers
  <2>1. c[i] = b[i] /\ i \in 1 .. n
    BY <1>2, <1>4
  <2>2. /\ b[i].role = "user" => b[i].tool = NoTool
        /\ b[i].answers # NoTool => \E j \in 1 .. i - 1 : b[j].tool = b[i].answers
    BY <2>1 DEF Grounded, n
  <2>3. QED
    BY <1>2, <1>4, <2>1, <2>2
<1>6. Grounded(c)
  BY <1>2, <1>5 DEF Grounded
<1>7. ASSUME NEW a, a # NoTool, HasTool(b, a)
      PROVE  HasTool(c, a)
  <2>1. PICK j \in 1 .. n : b[j].tool = a
    BY <1>7 DEF HasTool, n
  <2>2. j \in 1 .. n - 1
    BY <1>1, <1>3, <1>7, <2>1
  <2>3. QED
    BY <1>2, <2>1, <2>2 DEF HasTool
<1>8. ASSUME Alternates(b)
      PROVE  Alternates(c) /\ ~EndsWithPrompt(c)
  <2>1. Alternates(c)
    BY <1>2, <1>4, <1>8 DEF Alternates, n
  <2>2. n % 2 = 1
    BY <1>1, <1>8, PromptParity DEF n
  <2>3. n - 1 \in Nat /\ (n - 1) + 1 = n
    BY <1>1
  <2>4. (n - 1) % 2 # 1
    BY <2>2, <2>3, NextParity
  <2>5. QED
    BY <1>2, <2>1, <2>4, PromptParity
<1>9. QED
  BY <1>6, <1>7, <1>8 DEF c

LEMMA AppendGrounded ==
  ASSUME NEW b, Grounded(b), NEW m \in Message, Fits(m, b)
  PROVE  /\ Grounded(Append(b, m))
         /\ \A a : HasTool(b, a) \/ a = m.tool => HasTool(Append(b, m), a)
         /\ Append(b, m) # <<>> /\ Last(Append(b, m)) = m
         /\ Alternates(b) /\ (m.role = "user" <=> ~EndsWithPrompt(b)) => Alternates(Append(b, m))
<1> DEFINE n == Len(b)
           c == Append(b, m)
<1>1. b \in Seq(Message) /\ n \in Nat
  BY LenProperties DEF Grounded
<1>2. /\ c \in Seq(Message) /\ Len(c) = n + 1
      /\ \A i \in 1 .. n : c[i] = b[i]
      /\ c[n + 1] = m
  BY <1>1, AppendProperties
<1>3. c # <<>>
  BY <1>1, <1>2, EmptySeq
<1>4. m.role \in {"user", "assistant"}
  BY DEF Message
<1> HIDE DEF n, c
<1>5. \A i \in 1 .. n + 1 : (i \in 1 .. n \/ i = n + 1)
  BY <1>1
<1>6. \A i \in 1 .. n + 1 : \A j \in 1 .. i - 1 : j \in 1 .. n
  BY <1>1
<1>7. ASSUME NEW i \in 1 .. n
      PROVE  /\ c[i].role = "user" => c[i].tool = NoTool
             /\ c[i].answers # NoTool => \E j \in 1 .. i - 1 : c[j].tool = c[i].answers
  <2>1. c[i] = b[i] /\ i \in 1 .. n + 1
    BY <1>1, <1>2
  <2>2. /\ b[i].role = "user" => b[i].tool = NoTool
        /\ b[i].answers # NoTool => \E j \in 1 .. i - 1 : b[j].tool = b[i].answers
    BY DEF Grounded, n
  <2>3. QED
    BY <1>2, <1>6, <2>1, <2>2
<1>8. /\ c[n + 1].role = "user" => c[n + 1].tool = NoTool
      /\ c[n + 1].answers # NoTool => \E j \in 1 .. (n + 1) - 1 : c[j].tool = c[n + 1].answers
  <2>1. (n + 1) - 1 = n
    BY <1>1
  <2>2. m.answers # NoTool => \E j \in 1 .. n : c[j].tool = m.answers
    BY <1>2 DEF Fits, HasTool, n
  <2>3. QED
    BY <1>2, <2>1, <2>2 DEF Fits
<1>9. Grounded(c)
  BY <1>2, <1>5, <1>7, <1>8 DEF Grounded
<1>10. ASSUME NEW a, HasTool(b, a) \/ a = m.tool
       PROVE  HasTool(c, a)
  <2>1. \A j \in 1 .. n : j \in 1 .. n + 1
    BY <1>1
  <2>2. n + 1 \in 1 .. n + 1
    BY <1>1
  <2>3. QED
    BY <1>2, <1>10, <2>1, <2>2 DEF HasTool, n
<1>11. Last(c) = m
  BY <1>2 DEF Last
<1>12. ASSUME Alternates(b), m.role = "user" <=> ~EndsWithPrompt(b)
       PROVE  Alternates(c)
  <2>1. m.role = IF (n + 1) % 2 = 1 THEN "user" ELSE "assistant"
    BY <1>1, <1>4, <1>12, PromptParity, NextParity DEF n
  <2>2. ASSUME NEW i \in 1 .. n + 1
        PROVE  c[i].role = IF i % 2 = 1 THEN "user" ELSE "assistant"
    <3>1. CASE i \in 1 .. n
      BY <1>2, <1>12, <3>1 DEF Alternates, n
    <3>2. CASE i = n + 1
      BY <1>2, <2>1, <3>2
    <3>3. QED
      BY <1>5, <3>1, <3>2
  <2>3. QED
    BY <1>2, <2>2 DEF Alternates
<1>13. QED
  BY <1>3, <1>9, <1>10, <1>11, <1>12 DEF c

\* A run of prepareMessagesForLLM over s.
PrepareRun(s, f, n) == f[0] = <<>> /\ \A i \in 1 .. n : f[i] = Prepared(f[i - 1], s[i])

LEMMA PrepareRuns ==
  ASSUME NEW s, Len(s) \in Nat
  PROVE  \E f : PrepareRun(s, f, Len(s)) /\ PrepareMessages(s) = f[Len(s)]
<1> DEFINE m == Len(s)
           S == {n \in Nat : \E f : PrepareRun(s, f, n)}
<1>1. 0 \in S
  <2>1. PrepareRun(s, [i \in 0 .. 0 |-> <<>>], 0)
    BY DEF PrepareRun
  <2>2. QED
    BY <2>1
<1>2. ASSUME NEW n \in Nat, n \in S
      PROVE  n + 1 \in S
  <2>1. PICK f : PrepareRun(s, f, n)
    BY <1>2
  <2> DEFINE g == [i \in 0 .. n + 1 |-> IF i <= n THEN f[i] ELSE Prepared(f[n], s[i])]
  <2>2. \A i \in 0 .. n : g[i] = f[i]
    OBVIOUS
  <2>3. g[n + 1] = Prepared(f[n], s[n + 1])
    OBVIOUS
  <2> HIDE DEF g
  <2>4. ASSUME NEW i \in 1 .. n + 1
        PROVE  g[i] = Prepared(g[i - 1], s[i])
    <3>1. CASE i = n + 1
      <4>1. i - 1 = n /\ n \in 0 .. n
        BY <3>1
      <4>2. QED
        BY <2>2, <2>3, <3>1, <4>1
    <3>2. CASE i # n + 1
      <4>1. i \in 1 .. n /\ i \in 0 .. n /\ i - 1 \in 0 .. n
        BY <3>2
      <4>2. f[i] = Prepared(f[i - 1], s[i])
        BY <2>1, <4>1 DEF PrepareRun
      <4>3. QED
        BY <2>2, <4>1, <4>2
    <3>3. QED
      BY <3>1, <3>2
  <2>5. g[0] = <<>>
    BY <2>1, <2>2 DEF PrepareRun
  <2>6. QED
    BY <2>4, <2>5 DEF PrepareRun
<1> HIDE DEF S
<1>3. m \in S
  BY <1>1, <1>2, SetInduction
<1>4. PICK f : PrepareRun(s, f, m)
  BY <1>3 DEF S
<1> DEFINE F(h) == [i \in 0 .. m |-> IF i = 0 THEN <<>> ELSE Prepared(h[i - 1], s[i])]
           g == [i \in 0 .. m |-> f[i]]
           out == CHOOSE h : h = F(h)
<1>5. g = F(g)
  <2>1. \A i \in 0 .. m : i # 0 => i \in 1 .. m /\ i - 1 \in 0 .. m
    OBVIOUS
  <2>2. ASSUME NEW i \in 0 .. m
        PROVE  g[i] = IF i = 0 THEN <<>> ELSE Prepared(g[i - 1], s[i])
    <3>1. CASE i = 0
      BY <1>4, <3>1 DEF PrepareRun
    <3>2. CASE i # 0
      <4>1. g[i] = f[i] /\ g[i - 1] = f[i - 1]
        BY <2>1, <3>2
      <4>2. f[i] = Prepared(f[i - 1], s[i])
        BY <1>4, <2>1, <3>2 DEF PrepareRun
      <4> HIDE DEF g
      <4>3. QED
        BY <3>2, <4>1, <4>2
    <3>3. QED
      BY <3>1, <3>2
  <2>3. QED
    BY <2>2
<1>6. out = F(out)
  <2> HIDE DEF F, g
  <2>1. QED
    BY <1>5
<1>7. PrepareMessages(s) = out[m]
  BY DEF PrepareMessages
<1> HIDE DEF out
<1>8. \A i \in 0 .. m : out[i] = IF i = 0 THEN <<>> ELSE Prepared(out[i - 1], s[i])
  BY <1>6
<1> HIDE DEF m
<1>9. \A i \in 1 .. m : i \in 0 .. m /\ i # 0
  BY DEF m
<1>10. 0 \in 0 .. m
  BY DEF m
<1>11. PrepareRun(s, out, m)
  BY <1>8, <1>9, <1>10 DEF PrepareRun
<1>12. QED
  BY <1>7, <1>11 DEF m

\* The messages a prompt is made from: a prompt carries no tool call and
\* answers one before it that is not synthetic.
Stands(m, s, n) ==
  /\ m.role = "user" => m.tool = NoTool
  /\ m.role = "assistant" => m.answers = NoTool
  /\ m.answers # NoTool => m.answers # Synth /\ \E j \in 1 .. n : s[j].tool = m.answers
AllStand(s) == s \in Seq(Message) /\ \A i \in 1 .. Len(s) : Stands(s[i], s, i - 1)
\* Each answer but a synthetic one stands behind a prompt.
AnswersFollow(s) ==
  \A i \in 1 .. Len(s) : s[i].role = "assistant" /\ s[i].tool # Synth =>
    i > 1 /\ s[i - 1].role = "user"

\* What of the first n messages of s is kept: every tool call of the provider,
\* each before what answers it, and the prompt they end with.
PreparedSound(s, out, n) ==
  /\ Grounded(out)
  /\ \A k \in 1 .. n : s[k].tool \notin {NoTool, Synth} => HasTool(out, s[k].tool)
  /\ n > 0 /\ s[n].role = "user" => out # <<>> /\ Last(out) = s[n]
  /\ AnswersFollow(s) => Alternates(out)

LEMMA PreparedStep ==
  ASSUME NEW s, AllStand(s), NEW n \in Nat, n + 1 \in 1 .. Len(s),
         NEW out, PreparedSound(s, out, n)
  PROVE  PreparedSound(s, Prepared(out, s[n + 1]), n + 1)
<1> DEFINE m == s[n + 1]
           next == Prepared(out, m)
<1>1. m \in Message /\ m.role \in {"user", "assistant"} /\ Stands(m, s, n)
  <2>1. (n + 1) - 1 = n
    OBVIOUS
  <2>2. m \in Message
    BY ElementOfSeq DEF AllStand
  <2>3. QED
    BY <2>1, <2>2 DEF AllStand, Message
<1>2. /\ Grounded(out)
      /\ \A k \in 1 .. n : s[k].tool \notin {NoTool, Synth} => HasTool(out, s[k].tool)
      /\ AnswersFollow(s) => Alternates(out)
  BY DEF PreparedSound
<1>3. /\ \A k \in 1 .. n + 1 : k \in 1 .. n \/ k = n + 1
      /\ n + 1 > 0
  OBVIOUS
<1>4. Fits(m, out)
  BY <1>1, <1>2 DEF Fits, Stands
<1>5. AnswersFollow(s) /\ m.role = "assistant" /\ m.tool # Synth => EndsWithPrompt(out)
  <2>1. SUFFICES ASSUME AnswersFollow(s), m.role = "assistant", m.tool # Synth
                 PROVE  EndsWithPrompt(out)
    OBVIOUS
  <2>2. n + 1 > 1 /\ s[(n + 1) - 1].role = "user"
    BY <2>1 DEF AnswersFollow
  <2>3. (n + 1) - 1 = n /\ n > 0
    BY <2>2
  <2>4. out # <<>> /\ Last(out) = s[n]
    BY <2>2, <2>3 DEF PreparedSound
  <2>5. QED
    BY <2>2, <2>3, <2>4 DEF EndsWithPrompt
<1>6. EndsWithPrompt(out) =>
        /\ Grounded(Front(out))
        /\ \A a : a # NoTool /\ HasTool(out, a) => HasTool(Front(out), a)
        /\ Alternates(out) => Alternates(Front(out)) /\ ~EndsWithPrompt(Front(out))
  BY <1>2, FrontGrounded
<1> HIDE DEF m
<1>7. CASE m.tool = Synth
  <2>1. m.role # "user"
    BY <1>1, <1>7, TranscriptAssumption DEF Stands
  <2>2. next = IF EndsWithPrompt(out) THEN Front(out) ELSE out
    BY <1>7 DEF Prepared
  <2> HIDE DEF next
  <2>3. /\ Grounded(next)
        /\ \A a : a # NoTool /\ HasTool(out, a) => HasTool(next, a)
        /\ Alternates(out) => Alternates(next)
    BY <1>2, <1>6, <2>2
  <2>4. \A k \in 1 .. n + 1 : s[k].tool \notin {NoTool, Synth} => HasTool(next, s[k].tool)
    BY <1>2, <1>3, <1>7, <2>3 DEF m
  <2>5. PreparedSound(s, next, n + 1)
    BY <1>2, <2>1, <2>3, <2>4 DEF PreparedSound, m
  <2>6. QED
    BY <2>5 DEF next, m
<1>8. CASE m.tool # Synth
  <2> DEFINE b == IF m.role = "user" /\ EndsWithPrompt(out) THEN Front(out) ELSE out
  <2>1. next = Append(b, m)
    BY <1>8 DEF Prepared
  <2>2. /\ Grounded(b)
        /\ \A a : a # NoTool /\ HasTool(out, a) => HasTool(b, a)
        /\ AnswersFollow(s) => Alternates(b) /\ (m.role = "user" <=> ~EndsWithPrompt(b))
    <3>1. CASE m.role = "user" /\ EndsWithPrompt(out)
      BY <1>2, <1>6, <3>1
    <3>2. CASE ~(m.role = "user" /\ EndsWithPrompt(out))
      BY <1>1, <1>2, <1>5, <1>8, <3>2
    <3>3. QED
      BY <3>1, <3>2
  <2> HIDE DEF b, next
  <2>3. Fits(m, b)
    BY <1>4, <2>2 DEF Fits
  <2>4. /\ Grounded(next)
        /\ \A a : HasTool(b, a) \/ a = m.tool => HasTool(next, a)
        /\ next # <<>> /\ Last(next) = m
        /\ Alternates(b) /\ (m.role = "user" <=> ~EndsWithPrompt(b)) => Alternates(next)
    BY <1>1, <2>1, <2>2, <2>3, AppendGrounded
  <2>5. \A k \in 1 .. n + 1 : s[k].tool \notin {NoTool, Synth} => HasTool(next, s[k].tool)
    BY <1>2, <1>3, <2>2, <2>4 DEF m
  <2>6. PreparedSound(s, next, n + 1)
    BY <2>2, <2>4, <2>5 DEF PreparedSound, m
  <2>7. QED
    BY <2>6 DEF next, m
<1>9. QED
  BY <1>7, <1>8

LEMMA MessagesSound ==
  ASSUME NEW s, AllStand(s)
  PROVE  PreparedSound(s, PrepareMessages(s), Len(s))
<1> DEFINE n == Len(s)
<1>1. n \in Nat
  BY LenProperties DEF AllStand
<1>2. PICK f : PrepareRun(s, f, n) /\ PrepareMessages(s) = f[n]
  BY <1>1, PrepareRuns
<1> DEFINE S == {k \in Nat : k <= n => PreparedSound(s, f[k], k)}
<1>3. 0 \in S
  <2>1. f[0] = <<>> /\ Len(f[0]) = 0 /\ f[0] \in Seq(Message)
    BY <1>2 DEF PrepareRun
  <2>2. (1 .. 0) = {} /\ ~(0 > 0)
    OBVIOUS
  <2>3. PreparedSound(s, f[0], 0)
    BY <2>1, <2>2 DEF PreparedSound, Grounded, Alternates
  <2>4. QED
    BY <2>3
<1>4. ASSUME NEW k \in Nat, k \in S
      PROVE  k + 1 \in S
  <2>1. SUFFICES ASSUME k + 1 <= n PROVE PreparedSound(s, f[k + 1], k + 1)
    OBVIOUS
  <2>2. PreparedSound(s, f[k], k) /\ k + 1 \in 1 .. n /\ (k + 1) - 1 = k
    BY <1>1, <1>4, <2>1
  <2>3. f[k + 1] = Prepared(f[k], s[k + 1])
    BY <1>2, <2>2 DEF PrepareRun
  <2>4. QED
    BY <2>2, <2>3, PreparedStep
<1> HIDE DEF S
<1>5. n \in S
  BY <1>1, <1>3, <1>4, SetInduction
<1>6. QED
  BY <1>1, <1>2, <1>5 DEF S

\* Call a is the last one of the provider among the first n messages of s.
LastIn(s, n, a) ==
  \E l \in 1 .. n :
    /\ s[l].tool = a /\ a \notin {NoTool, Synth}
    /\ \A k \in l + 1 .. n : s[k].tool \in {NoTool, Synth}

\* The tool call a prompt answers is the last one of the provider in the
\* messages the turn read.
LEMMA LastToolUseLast ==
  ASSUME NEW s \in Seq(Message), LastToolUse(s) # NoTool
  PROVE  LastIn(s, Len(s), LastToolUse(s))
<1> DEFINE at == {i \in DOMAIN s : Scored(s[i]) /\ s[i].tool # Synth}
<1>1. at # {} /\ LastToolUse(s) = s[Max(at)].tool
  BY DEF LastToolUse
<1>2. DOMAIN s = 1 .. Len(s) /\ Len(s) \in Nat
  BY LenProperties
<1>3. at \in SUBSET (0 .. Len(s))
  BY <1>2
<1>4. \E x \in at : \A y \in at : x >= y
  BY <1>1, <1>2, <1>3, GreatestExists
<1>5. Max(at) \in at /\ \A y \in at : Max(at) >= y
  BY <1>4 DEF Max
<1> DEFINE l == Max(at)
<1>6. l \in 1 .. Len(s) /\ s[l].tool \notin {NoTool, Synth}
  BY <1>2, <1>5 DEF Scored
<1>7. ASSUME NEW k \in l + 1 .. Len(s)
      PROVE  s[k].tool \in {NoTool, Synth}
  <2> HIDE DEF l
  <2>1. k \in 1 .. Len(s) /\ ~(l >= k)
    BY <1>2, <1>6
  <2>2. k \notin at
    BY <1>5, <2>1 DEF l
  <2>3. QED
    BY <1>2, <2>1, <2>2 DEF Scored
<1> HIDE DEF at, l
<1>8. QED
  BY <1>1, <1>6, <1>7 DEF LastIn, l

LEMMA SeenMessages ==
  ASSUME TranscriptTypeOK, NEW t \in Turns
  PROVE  /\ Seen(t) \in Seq(Message) /\ Len(Seen(t)) = read[t]
         /\ read[t] \in Nat /\ read[t] <= Len(rows)
         /\ \A i \in 1 .. read[t] : Seen(t)[i] = rows[i]
<1>1. rows \in Seq(Message) /\ read[t] \in Nat /\ read[t] <= Len(rows)
  BY DEF TranscriptTypeOK
<1>2. QED
  BY <1>1, FirstMessages DEF Seen

\* A prompt may follow whatever its turn read.
LEMMA UserTurnStands ==
  ASSUME TranscriptTypeOK, NEW t \in Turns, NEW s,
         \A i \in 1 .. read[t] : s[i] = rows[i],
         NEW n \in Nat, read[t] <= n
  PROVE  Stands(UserTurn(t), s, n)
<1> DEFINE a == LastToolUse(Seen(t))
           m == UserTurn(t)
<1>1. m.role = "user" /\ m.tool = NoTool /\ m.answers = a
  BY DEF UserTurn, Prompt
<1>2. /\ Seen(t) \in Seq(Message) /\ Len(Seen(t)) = read[t] /\ read[t] \in Nat
      /\ \A i \in 1 .. read[t] : Seen(t)[i] = s[i] /\ i \in 1 .. n
  BY SeenMessages
<1>3. a # NoTool => a # Synth /\ \E j \in 1 .. n : s[j].tool = a
  BY <1>2, LastToolUseLast DEF LastIn
<1> HIDE DEF a, m
<1>4. Stands(m, s, n)
  BY <1>1, <1>3 DEF Stands
<1>5. QED
  BY <1>4 DEF m

LEMMA AllStandStep ==
  ASSUME TranscriptTypeOK, AllStand(rows), [Next]_vars
  PROVE  AllStand(rows')
<1>1. CASE rows' = rows
  BY <1>1
<1>2. ASSUME NEW ms, Appends(ms), rows' = rows \o ms
      PROVE  AllStand(rows')
  <2> DEFINE n == Len(rows)
  <2>1. /\ n \in Nat /\ Len(rows') = n + Len(ms) /\ Len(ms) \in 1 .. 2
        /\ rows' \in Seq(Message)
        /\ \A i \in 1 .. n : rows'[i] = rows[i]
        /\ \A j \in 1 .. Len(ms) : rows'[n + j] = ms[j]
    BY <1>2, AppendedRows, MessagesAppended
  <2>2. \A t \in Turns : read[t] \in Nat /\ read[t] <= n
    BY DEF TranscriptTypeOK
  <2>3. ASSUME NEW i \in 1 .. n
        PROVE  Stands(rows'[i], rows', i - 1)
    <3>1. Stands(rows[i], rows, i - 1)
      BY DEF AllStand
    <3>2. \A j \in 1 .. i - 1 : j \in 1 .. n
      BY <2>1
    <3>3. QED
      BY <2>1, <3>1, <3>2 DEF Stands
  <2> HIDE DEF n
  <2>4. ASSUME NEW j \in 1 .. Len(ms)
        PROVE  Stands(ms[j], rows', (n + j) - 1)
    <3>1. ASSUME NEW t \in Turns, ms = <<UserTurn(t)>>
          PROVE  Stands(ms[j], rows', (n + j) - 1)
      <4>1. j = 1 /\ ms[j] = UserTurn(t) /\ (n + j) - 1 = n
        BY <2>1, <3>1
      <4>2. \A i \in 1 .. read[t] : rows'[i] = rows[i]
        <5>1. \A i \in 1 .. read[t] : i \in 1 .. n
          BY <2>1, <2>2
        <5>2. QED
          BY <2>1, <5>1
      <4>3. Stands(UserTurn(t), rows', n)
        BY <2>1, <2>2, <4>2, UserTurnStands
      <4>4. QED
        BY <4>1, <4>3
    <3>2. ASSUME NEW t \in Turns, NEW a, ms = <<Reply(t, a)>>
          PROVE  Stands(ms[j], rows', (n + j) - 1)
      <4>1. j = 1 /\ ms[j] = Reply(t, a)
        BY <3>2
      <4>2. QED
        BY <4>1 DEF Reply, Stands
    <3>3. CASE ms = <<Prompt(Seed, NoTool), Reply(Seed, Synth)>>
      <4>1. ms[j] = Prompt(Seed, NoTool) \/ ms[j] = Reply(Seed, Synth)
        BY <3>3
      <4>2. QED
        BY <4>1 DEF Prompt, Reply, Stands
    <3>4. QED
      BY <1>2, <3>1, <3>2, <3>3 DEF Appends
  <2>5. ASSUME NEW i \in 1 .. n + Len(ms)
        PROVE  Stands(rows'[i], rows', i - 1)
    <3>1. CASE i \in 1 .. n
      BY <2>3, <3>1
    <3>2. CASE i \notin 1 .. n
      <4>1. i - n \in 1 .. Len(ms) /\ n + (i - n) = i
        BY <2>1, <3>2
      <4> DEFINE j == i - n
      <4> HIDE DEF j
      <4>2. j \in 1 .. Len(ms) /\ n + j = i
        BY <4>1 DEF j
      <4>3. Stands(ms[j], rows', (n + j) - 1) /\ rows'[n + j] = ms[j]
        BY <2>1, <2>4, <4>2
      <4>4. QED
        BY <4>2, <4>3
    <3>3. QED
      BY <3>1, <3>2
  <2>6. QED
    BY <2>1, <2>5 DEF AllStand
<1>3. QED
  BY <1>1, <1>2, LogGrows

-----------------------------------------------------------------------------
(* Whose row is whose *)

\* A turn asks before it answers and answers once, with its own tool call or
\* none of the provider; its prompt answers the last call it has read; what no
\* turn wrote comes in pairs of a prompt and an answer.
RowSound(i) ==
  LET m == rows[i] IN
  /\ m.turn # Seed => stage[m.turn] \notin {"new", "read"}
  /\ m.tool \in {m.turn, NoTool, Synth}
  /\ m.role = "user" /\ m.answers # NoTool =>
       m.turn # Seed /\ LastIn(rows, read[m.turn], m.answers)
  /\ m.role = "assistant" /\ m.turn # Seed =>
       /\ stage[m.turn] # "asked"
       /\ \E j \in 1 .. i - 1 : rows[j].role = "user" /\ rows[j].turn = m.turn
       /\ \A j \in 1 .. i - 1 : rows[j].role = "assistant" => rows[j].turn # m.turn
  /\ m.role = "assistant" /\ m.turn = Seed =>
       /\ i > 1 /\ rows[i - 1].role = "user" /\ rows[i - 1].turn = Seed
       /\ i > 2 => m.tool = Synth

Asked(t) == \E i \in 1 .. Len(rows) : rows[i].role = "user" /\ rows[i].turn = t

Owned ==
  /\ \A i \in 1 .. Len(rows) : RowSound(i)
  /\ \A t \in Turns : stage[t] = "asked" => Asked(t)

LEMMA LastInKept ==
  ASSUME NEW s, NEW r, NEW n \in Nat, \A i \in 1 .. n : r[i] = s[i],
         NEW a, LastIn(s, n, a)
  PROVE  LastIn(r, n, a)
<1>1. PICK l \in 1 .. n :
        /\ s[l].tool = a /\ a \notin {NoTool, Synth}
        /\ \A k \in l + 1 .. n : s[k].tool \in {NoTool, Synth}
  BY DEF LastIn
<1>2. \A k \in l + 1 .. n : k \in 1 .. n
  OBVIOUS
<1>3. QED
  BY <1>1, <1>2 DEF LastIn

\* Stages move on, and what a turn has read is settled before it writes.
LEMMA StagesMove ==
  ASSUME TranscriptTypeOK, [Next]_vars, NEW u \in Turns
  PROVE  /\ stage'[u] \in {"new", "read"} => stage[u] \in {"new", "read"}
         /\ read'[u] = read[u] \/ stage[u] = "new"
         /\ stage'[u] = "asked" =>
              stage[u] = "asked" \/ rows' = rows \o <<UserTurn(u)>>
<1> USE DEF TranscriptTypeOK, Goto, Stages
<1>1. ASSUME NEW t \in Turns, Reads(t)
      PROVE  /\ stage' = [stage EXCEPT ![t] = "read"] /\ stage[t] = "new"
             /\ \A v \in Turns : v # t => read'[v] = read[v]
  BY <1>1 DEF Reads, Comes
<1>2. ASSUME NEW t \in Turns, Asks(t)
      PROVE  /\ stage' = [stage EXCEPT ![t] = "asked"] /\ read' = read
             /\ rows' = rows \o <<UserTurn(t)>>
  BY <1>2 DEF Asks, Writes
<1>3. ASSUME NEW t \in Turns, Refused(t) \/ Answers(t) \/ Fails(t)
                                \/ Opens(t) \/ StreamEnds(t) \/ FinalizeFails(t)
      PROVE  /\ read' = read
             /\ \E s \in {"streaming", "over"} : stage' = [stage EXCEPT ![t] = s]
  BY <1>3 DEF Refused, Answers, Fails, Opens, StreamEnds, FinalizeFails
<1>4. Revert \/ Delete \/ Sweep \/ TenMinutes \/ HalfHour \/ UNCHANGED vars
      => read' = read /\ stage' = stage
  BY DEF Revert, Delete, Sweep, TenMinutes, HalfHour, vars
<1>5. Crash => read' = read /\ stage'[u] \in {stage[u], "over"}
  BY DEF Crash
<1>6. CASE \E t \in Turns : Reads(t)
  BY <1>1, <1>6
<1>7. CASE \E t \in Turns : Asks(t)
  BY <1>2, <1>7
<1>8. CASE \E t \in Turns : Refused(t) \/ Answers(t) \/ Fails(t)
                              \/ Opens(t) \/ StreamEnds(t) \/ FinalizeFails(t)
  BY <1>3, <1>8
<1>9. CASE Revert \/ Delete \/ Sweep \/ TenMinutes \/ HalfHour \/ UNCHANGED vars
  BY <1>4, <1>9
<1>10. CASE Crash
  BY <1>5, <1>10
<1>11. QED
  BY <1>6, <1>7, <1>8, <1>9, <1>10 DEF Next

\* A row keeps its place in this, whatever comes after it.
LEMMA OldRowSound ==
  ASSUME TranscriptTypeOK, [Next]_vars, NEW i \in 1 .. Len(rows), RowSound(i),
         \A j \in 1 .. Len(rows) : rows'[j] = rows[j],
         rows[i].role = "assistant" /\ rows[i].turn # Seed => stage'[rows[i].turn] # "asked"
  PROVE  RowSound(i)'
<1> DEFINE m == rows[i]
<1>1. /\ rows'[i] = m /\ m \in Message
      /\ \A j \in 1 .. i - 1 : rows'[j] = rows[j]
      /\ i > 1 => rows'[i - 1] = rows[i - 1]
  <2>1. Len(rows) \in Nat
    BY LenProperties DEF TranscriptTypeOK
  <2>2. QED
    BY <2>1, ElementOfSeq DEF TranscriptTypeOK
<1>2. /\ m.turn # Seed => m.turn \in Turns /\ stage[m.turn] \notin {"new", "read"}
      /\ m.tool \in {m.turn, NoTool, Synth}
      /\ m.role = "user" /\ m.answers # NoTool =>
           m.turn # Seed /\ LastIn(rows, read[m.turn], m.answers)
      /\ m.role = "assistant" /\ m.turn # Seed =>
           /\ \E j \in 1 .. i - 1 : rows[j].role = "user" /\ rows[j].turn = m.turn
           /\ \A j \in 1 .. i - 1 : rows[j].role = "assistant" => rows[j].turn # m.turn
      /\ m.role = "assistant" /\ m.turn = Seed =>
           /\ i > 1 /\ rows[i - 1].role = "user" /\ rows[i - 1].turn = Seed
           /\ i > 2 => m.tool = Synth
  BY <1>1 DEF RowSound, Message
<1> HIDE DEF m
<1>3. m.turn # Seed => stage'[m.turn] \notin {"new", "read"} /\ read'[m.turn] = read[m.turn]
  BY <1>2, StagesMove
<1>4. ASSUME m.role = "user", m.answers # NoTool
      PROVE  m.turn # Seed /\ LastIn(rows', read'[m.turn], m.answers)
  <2>1. /\ m.turn \in Turns /\ LastIn(rows, read[m.turn], m.answers)
        /\ read'[m.turn] = read[m.turn]
    BY <1>2, <1>3, <1>4
  <2> DEFINE n == read[m.turn]
  <2>2. n \in Nat /\ n <= Len(rows) /\ Len(rows) \in Nat
    BY <2>1, LenProperties DEF TranscriptTypeOK
  <2>3. \A j \in 1 .. n : rows'[j] = rows[j]
    BY <2>2
  <2> HIDE DEF n
  <2>4. LastIn(rows', n, m.answers)
    BY <2>1, <2>2, <2>3, LastInKept DEF n
  <2>5. QED
    BY <1>2, <1>4, <2>1, <2>4 DEF n
<1>5. m.role = "assistant" /\ m.turn # Seed =>
        /\ stage'[m.turn] # "asked"
        /\ \E j \in 1 .. i - 1 : rows'[j].role = "user" /\ rows'[j].turn = m.turn
        /\ \A j \in 1 .. i - 1 : rows'[j].role = "assistant" => rows'[j].turn # m.turn
  BY <1>1, <1>2 DEF m
<1>6. m.role = "assistant" /\ m.turn = Seed =>
        /\ i > 1 /\ rows'[i - 1].role = "user" /\ rows'[i - 1].turn = Seed
        /\ i > 2 => m.tool = Synth
  BY <1>1, <1>2
<1>7. QED
  BY <1>1, <1>2, <1>3, <1>4, <1>5, <1>6 DEF RowSound

LEMMA OneMore ==
  ASSUME NEW s \in Seq(Message), NEW m \in Message
  PROVE  Len(s \o <<m>>) = Len(s) + 1 /\ (s \o <<m>>)[Len(s) + 1] = m
<1> DEFINE one == <<m>>
<1>1. one \in Seq(Message) /\ Len(one) = 1 /\ one[1] = m
  OBVIOUS
<1> HIDE DEF one
<1>2. Len(s) \in Nat
  BY LenProperties
<1>3. /\ Len(s \o one) = Len(s) + Len(one)
      /\ \A i \in 1 .. Len(s) + Len(one) : (s \o one)[i] =
           IF i <= Len(s) THEN s[i] ELSE one[i - Len(s)]
  BY <1>1, ConcatProperties
<1>4. /\ Len(s) + 1 \in 1 .. Len(s) + 1 /\ ~(Len(s) + 1 <= Len(s))
      /\ (Len(s) + 1) - Len(s) = 1
  BY <1>2
<1>5. QED
  BY <1>1, <1>3, <1>4 DEF one

LEMMA OwnedStep ==
  ASSUME TranscriptTypeOK, Owned, [Next]_vars
  PROVE  Owned'
<1>1. Len(rows) \in Nat
  BY LenProperties DEF TranscriptTypeOK
<1>2. \A i \in 1 .. Len(rows) : RowSound(i)
  BY DEF Owned
<1>3. \A u \in Turns : stage'[u] = "asked" =>
        stage[u] = "asked" \/ rows' = rows \o <<UserTurn(u)>>
  BY StagesMove
<1>4. CASE rows' = rows
  <2>1. ASSUME NEW u \in Turns, stage'[u] = "asked"
        PROVE  stage[u] = "asked"
    <3>1. UserTurn(u) \in Message
      BY SeenType
    <3>2. Len(rows \o <<UserTurn(u)>>) = Len(rows) + 1
      BY <3>1, ConcatProperties DEF TranscriptTypeOK
    <3>3. rows' # rows \o <<UserTurn(u)>>
      BY <1>1, <1>4, <3>2
    <3>4. QED
      BY <1>3, <2>1, <3>3
  <2>2. ASSUME NEW i \in 1 .. Len(rows)
        PROVE  RowSound(i)'
    <3>1. RowSound(i) /\ rows[i] \in Message
      BY <1>2, ElementOfSeq DEF TranscriptTypeOK
    <3>2. rows[i].role = "assistant" /\ rows[i].turn # Seed => stage[rows[i].turn] # "asked"
      BY <3>1 DEF RowSound
    <3>3. rows[i].role = "assistant" /\ rows[i].turn # Seed => stage'[rows[i].turn] # "asked"
      BY <2>1, <3>1, <3>2 DEF Message
    <3>4. QED
      BY <1>4, <3>1, <3>3, OldRowSound
  <2>3. ASSUME NEW u \in Turns, stage'[u] = "asked"
        PROVE  Asked(u)'
    BY <1>4, <2>1, <2>3 DEF Owned, Asked
  <2>4. QED
    BY <1>4, <2>2, <2>3 DEF Owned
<1>5. ASSUME NEW ms, Appends(ms), rows' = rows \o ms
      PROVE  Owned'
  <2>n. PICK n \in Nat : n = Len(rows)
    BY <1>1
  <2>1. /\ n \in Nat /\ Len(rows') = n + Len(ms) /\ Len(ms) \in 1 .. 2
        /\ \A i \in 1 .. n : rows'[i] = rows[i]
        /\ \A j \in 1 .. Len(ms) : rows'[n + j] = ms[j]
    BY <1>5, <2>n, AppendedRows, MessagesAppended
  <2>2. ASSUME NEW u \in Turns, stage'[u] = "asked", stage[u] # "asked"
        PROVE  Len(ms) = 1 /\ ms[1] = UserTurn(u) /\ UserTurn(u).turn = u
               /\ UserTurn(u).role = "user"
    <3>1. UserTurn(u) \in Message /\ UserTurn(u).turn = u /\ UserTurn(u).role = "user"
      BY SeenType DEF UserTurn, Prompt
    <3>2. rows' = rows \o <<UserTurn(u)>>
      BY <1>3, <2>2
    <3>3. rows \in Seq(Message)
      BY DEF TranscriptTypeOK
    <3>4. Len(rows') = n + 1 /\ rows'[n + 1] = UserTurn(u)
      BY <2>n, <3>1, <3>2, <3>3, OneMore
    <3>5. Len(ms) = 1 /\ 1 \in 1 .. Len(ms)
      BY <2>1, <3>4
    <3>6. QED
      BY <2>1, <3>1, <3>4, <3>5
  <2>3. ASSUME NEW i \in 1 .. n, ~(rows[i].role = "assistant" /\ rows[i].turn # Seed
                                   /\ stage'[rows[i].turn] = "asked")
        PROVE  RowSound(i)'
    BY <1>2, <2>n, <2>1, <2>3, OldRowSound
  <2>4. \A i \in 1 .. n : rows[i] \in Message /\ RowSound(i)
    BY <1>2, <2>n, ElementOfSeq DEF TranscriptTypeOK
  <2>5. \A i \in 1 .. n : i \in 1 .. Len(rows') /\ \A u \in Turns :
          rows[i].role = "assistant" /\ rows[i].turn = u => stage[u] # "asked" /\ stage[u] # "read"
    <3>1. \A i \in 1 .. n : \A u \in Turns :
            rows[i].role = "assistant" /\ rows[i].turn = u => stage[u] # "asked" /\ stage[u] # "read"
      BY <2>4, TranscriptAssumption DEF RowSound
    <3>2. QED
      BY <2>1, <3>1
  <2>6. \A t \in Turns : Asked(t) => Asked(t)'
    BY <2>n, <2>1, <2>5 DEF Asked
  <2>7. \A t \in Turns : stage[t] = "asked" => Asked(t)
    BY DEF Owned
  <2>8. CASE \E t \in Turns : stage[t] = "read" /\ stage'[t] = "asked" /\ ms = <<UserTurn(t)>>
    <3>1. PICK t \in Turns : stage[t] = "read" /\ stage'[t] = "asked" /\ ms = <<UserTurn(t)>>
      BY <2>8
    <3>2. Len(ms) = 1 /\ ms[1] = UserTurn(t) /\ 1 \in 1 .. Len(ms)
      BY <3>1
    <3> DEFINE m == UserTurn(t)
    <3>3. /\ m.turn = t /\ m.role = "user" /\ m.tool = NoTool
          /\ m.answers = LastToolUse(Seen(t))
      BY DEF UserTurn, Prompt
    <3> HIDE DEF m
    <3>4. rows'[n + 1] = m /\ Len(rows') = n + 1
      BY <2>1, <3>2 DEF m
    <3>5. ASSUME NEW u \in Turns, stage'[u] = "asked"
          PROVE  stage[u] = "asked" \/ u = t
      BY <2>2, <3>2, <3>3, <3>5 DEF m
    <3>6. ASSUME NEW i \in 1 .. n
          PROVE  RowSound(i)'
      <4>1. ASSUME rows[i].role = "assistant", rows[i].turn # Seed
            PROVE  stage'[rows[i].turn] # "asked"
        BY <2>4, <2>5, <3>1, <3>5, <4>1 DEF Message
      <4>2. QED
        BY <2>3, <4>1
    <3>7. RowSound(n + 1)'
      <4>1. stage'[t] \notin {"new", "read"} /\ read'[t] = read[t]
        BY <3>1, StagesMove
      <4>2. ASSUME m.answers # NoTool
            PROVE  LastIn(rows', read'[t], m.answers)
        <5>1. /\ Seen(t) \in Seq(Message) /\ Len(Seen(t)) = read[t]
              /\ read[t] \in Nat /\ read[t] <= n
              /\ \A i \in 1 .. read[t] : Seen(t)[i] = rows[i]
          BY <2>n, SeenMessages
        <5>2. LastIn(Seen(t), read[t], m.answers)
          BY <3>3, <4>2, <5>1, LastToolUseLast
        <5>3. \A i \in 1 .. read[t] : rows'[i] = Seen(t)[i]
          BY <2>1, <5>1
        <5>4. LastIn(rows', read[t], m.answers)
          BY <5>1, <5>2, <5>3, LastInKept
        <5>5. QED
          BY <4>1, <5>4
      <4>3. t # Seed
        BY TranscriptAssumption
      <4>4. QED
        BY <3>3, <3>4, <4>1, <4>2, <4>3 DEF RowSound
    <3>8. Asked(t)'
      <4>1. n + 1 \in 1 .. n + 1
        BY <2>1
      <4>2. QED
        BY <3>3, <3>4, <4>1 DEF Asked
    <3>9. \A i \in 1 .. n + 1 : i \in 1 .. n \/ i = n + 1
      BY <2>1
    <3>10. \A i \in 1 .. n + 1 : RowSound(i)'
      BY <3>6, <3>7, <3>9
    <3>11. \A u \in Turns : stage'[u] = "asked" => Asked(u)'
      BY <2>6, <2>7, <3>5, <3>8
    <3>12. QED
      BY <3>4, <3>10, <3>11 DEF Owned
  <2>9. CASE \E t \in Turns : \E a \in {t, NoTool, Synth} :
               stage[t] = "asked" /\ stage'[t] # "asked" /\ ms = <<Reply(t, a)>>
    <3>0. PICK t \in Turns : \E a \in {t, NoTool, Synth} :
            stage[t] = "asked" /\ stage'[t] # "asked" /\ ms = <<Reply(t, a)>>
      BY <2>9
    <3>1. PICK a \in {t, NoTool, Synth} :
            stage[t] = "asked" /\ stage'[t] # "asked" /\ ms = <<Reply(t, a)>>
      BY <3>0
    <3>2. Len(ms) = 1 /\ ms[1] = Reply(t, a) /\ 1 \in 1 .. Len(ms)
      BY <3>1
    <3> DEFINE m == Reply(t, a)
    <3>3. m.turn = t /\ m.role = "assistant" /\ m.tool = a
      BY DEF Reply
    <3> HIDE DEF m
    <3>4. rows'[n + 1] = m /\ Len(rows') = n + 1
      BY <2>1, <3>2 DEF m
    <3>5. ASSUME NEW u \in Turns, stage'[u] = "asked"
          PROVE  stage[u] = "asked"
      BY <2>2, <3>2, <3>3, <3>5 DEF m
    <3>6. ASSUME NEW i \in 1 .. n
          PROVE  RowSound(i)'
      <4>1. ASSUME rows[i].role = "assistant", rows[i].turn # Seed
            PROVE  stage'[rows[i].turn] # "asked"
        BY <2>4, <2>5, <3>5, <4>1 DEF Message
      <4>2. QED
        BY <2>3, <4>1
    <3>7. RowSound(n + 1)'
      <4>1. stage'[t] \notin {"new", "read"} /\ stage'[t] # "asked"
        BY <3>1, StagesMove
      <4>2. Asked(t)
        BY <2>7, <3>1
      <4>3. \E j \in 1 .. (n + 1) - 1 : rows'[j].role = "user" /\ rows'[j].turn = t
        BY <2>n, <2>1, <4>2 DEF Asked
      <4>4. \A j \in 1 .. (n + 1) - 1 : rows'[j].role = "assistant" => rows'[j].turn # t
        BY <2>1, <2>5, <3>1
      <4>5. t # Seed
        BY TranscriptAssumption
      <4>6. QED
        BY <3>1, <3>3, <3>4, <4>1, <4>3, <4>4, <4>5 DEF RowSound
    <3>8. \A i \in 1 .. n + 1 : i \in 1 .. n \/ i = n + 1
      BY <2>1
    <3>9. \A i \in 1 .. n + 1 : RowSound(i)'
      BY <3>6, <3>7, <3>8
    <3>10. \A u \in Turns : stage'[u] = "asked" => Asked(u)'
      BY <2>6, <2>7, <3>5
    <3>11. QED
      BY <3>4, <3>9, <3>10 DEF Owned
  <2>10. CASE rows # <<>> /\ ms = <<Prompt(Seed, NoTool), Reply(Seed, Synth)>>
    <3>1. Len(ms) = 2 /\ ms[1] = Prompt(Seed, NoTool) /\ ms[2] = Reply(Seed, Synth)
          /\ 1 \in 1 .. Len(ms) /\ 2 \in 1 .. Len(ms)
      BY <2>10
    <3>2. /\ rows'[n + 1] = Prompt(Seed, NoTool) /\ rows'[n + 2] = Reply(Seed, Synth)
          /\ Len(rows') = n + 2
      BY <2>1, <3>1
    <3>3. n # 0
      BY <2>n, <2>10, EmptySeq DEF TranscriptTypeOK
    <3>4. ASSUME NEW u \in Turns, stage'[u] = "asked"
          PROVE  stage[u] = "asked"
      BY <2>2, <3>1, <3>4
    <3>5. ASSUME NEW i \in 1 .. n
          PROVE  RowSound(i)'
      <4>1. ASSUME rows[i].role = "assistant", rows[i].turn # Seed
            PROVE  stage'[rows[i].turn] # "asked"
        BY <2>4, <2>5, <3>4, <4>1 DEF Message
      <4>2. QED
        BY <2>3, <4>1
    <3>6. RowSound(n + 1)'
      BY <3>2 DEF RowSound, Prompt
    <3>7. RowSound(n + 2)'
      <4>1. n + 2 > 1 /\ (n + 2) - 1 = n + 1
        BY <2>1
      <4>2. QED
        BY <3>2, <4>1 DEF RowSound, Prompt, Reply
    <3>8. \A i \in 1 .. n + 2 : i \in 1 .. n \/ i = n + 1 \/ i = n + 2
      BY <2>1
    <3>9. \A i \in 1 .. n + 2 : RowSound(i)'
      BY <3>5, <3>6, <3>7, <3>8
    <3>10. \A u \in Turns : stage'[u] = "asked" => Asked(u)'
      BY <2>6, <2>7, <3>4
    <3>11. QED
      BY <3>2, <3>9, <3>10 DEF Owned
  <2>11. QED
    BY <1>5, <2>8, <2>9, <2>10 DEF Appends
<1>6. QED
  BY <1>4, <1>5, LogGrows

\* A turn writes one prompt, then at most one answer, and whatever no turn
\* wrote stands in pairs.
LEMMA RowsOwned == TranscriptSpec => []Owned
<1>1. Init => Owned
  <2> SUFFICES ASSUME Init
               PROVE  Owned
    OBVIOUS
  <2>1. \A t \in Turns : stage[t] # "asked"
    BY DEF Init
  <2>2. CASE rows = <<>>
    BY <2>1, <2>2 DEF Owned
  <2>3. ASSUME NEW a \in {Seed, Synth}, rows = <<Prompt(Seed, NoTool), Reply(Seed, a)>>
        PROVE  Owned
    <3>1. Len(rows) = 2 /\ rows[1] = Prompt(Seed, NoTool) /\ rows[2] = Reply(Seed, a)
      BY <2>3
    <3>2. RowSound(1)
      BY <3>1 DEF RowSound, Prompt
    <3>3. RowSound(2)
      BY <3>1 DEF RowSound, Prompt, Reply
    <3>4. \A i \in 1 .. 2 : i = 1 \/ i = 2
      OBVIOUS
    <3>5. QED
      BY <2>1, <3>1, <3>2, <3>3, <3>4 DEF Owned
  <2>4. QED
    BY <2>2, <2>3 DEF Init, Histories
<1>2. TranscriptTypeOK /\ Owned /\ [Next]_vars => Owned'
  BY OwnedStep
<1>3. QED
  BY <1>1, <1>2, TranscriptTypes, PTL DEF TranscriptSpec

\* Each answer that counts has a prompt of its own: the one its turn wrote, or
\* the one it came with.
LEMMA AnswersHavePrompts ==
  ASSUME TranscriptTypeOK, Owned
  PROVE  OnlyAnswersCount
<1> DEFINE n == Len(rows)
           A == Answered(n)
           P == AnsweredPrompts
           Own(i, j) == rows[j].turn = rows[i].turn /\ (rows[i].turn = Seed => j = i - 1)
           f == [i \in A |-> CHOOSE j \in P : Own(i, j)]
<1>1. n \in Nat /\ DOMAIN rows = 1 .. n
  BY LenProperties DEF TranscriptTypeOK
<1>2. \A i \in A : i \in 1 .. n /\ rows[i].role = "assistant" /\ RowSound(i)
  BY <1>1 DEF Answered, Owned
<1>3. ASSUME NEW i \in A
      PROVE  \E j \in P : Own(i, j)
  <2>1. CASE rows[i].turn = Seed
    <3>1. i > 1 /\ rows[i - 1].role = "user" /\ rows[i - 1].turn = Seed
      BY <1>2, <2>1 DEF RowSound
    <3>2. i - 1 \in 1 .. n /\ i - 1 < i
      BY <1>1, <1>2, <3>1
    <3>3. i - 1 \in P
      BY <1>1, <1>2, <2>1, <3>1, <3>2 DEF AnsweredPrompts
    <3>4. QED
      BY <2>1, <3>1, <3>3
  <2>2. CASE rows[i].turn # Seed
    <3>1. PICK j \in 1 .. i - 1 : rows[j].role = "user" /\ rows[j].turn = rows[i].turn
      BY <1>2, <2>2 DEF RowSound
    <3>2. j \in 1 .. n /\ j < i
      BY <1>1, <1>2
    <3>3. j \in P
      BY <1>1, <1>2, <3>1, <3>2 DEF AnsweredPrompts
    <3>4. QED
      BY <2>2, <3>1, <3>3
  <2>3. QED
    BY <2>1, <2>2
<1> HIDE DEF P, A
<1>4. \A i \in A : f[i] \in P /\ Own(i, f[i])
  BY <1>3
<1>5. f \in [A -> P]
  BY <1>4
<1> HIDE DEF f
<1>6. ASSUME NEW i \in A, NEW k \in A, f[i] = f[k]
      PROVE  i = k
  <2>1. rows[i].turn = rows[k].turn
    BY <1>4, <1>6
  <2>2. i \in 1 .. n /\ k \in 1 .. n
    BY <1>2
  <2>3. CASE rows[i].turn = Seed
    <3>1. f[i] = i - 1 /\ f[k] = k - 1
      BY <1>4, <2>1, <2>3
    <3>2. i \in Int /\ k \in Int
      BY <1>1, <2>2
    <3>3. i - 1 = k - 1
      BY <1>6, <3>1
    <3>4. QED
      BY <3>2, <3>3
  <2>4. CASE rows[i].turn # Seed
    <3>1. ~(i \in 1 .. k - 1) /\ ~(k \in 1 .. i - 1)
      BY <1>2, <2>1, <2>4 DEF RowSound
    <3>2. QED
      BY <1>1, <2>2, <3>1
  <2>5. QED
    BY <2>3, <2>4
<1>7. f \in Injection(A, P)
  BY <1>5, <1>6 DEF Injection, IsInjective
<1>8. IsFiniteSet(P)
  <2>1. IsFiniteSet(1 .. n) /\ P \in SUBSET (1 .. n)
    BY <1>1, FS_Interval DEF P, AnsweredPrompts
  <2>2. QED
    BY <2>1, FS_Subset
<1>9. Cardinality(A) <= Cardinality(P)
  BY <1>7, <1>8, FS_Injection
<1>10. QED
  BY <1>9, AnsweredCounted DEF OnlyAnswersCount, A, P

\* The limit is checked before the prompt is written; as long as every prompt
\* was written on what its turn had read, none is written in a conversation
\* that has as many answers as the limit allows.  A turn that failed or is still
\* under way never uses it up, not even when turns overlap: no more is counted
\* than there are prompts that got an answer of their own (handleChat,
\* countUserTextTurns).
THEOREM TranscriptTurnsCapped == TranscriptSpec => []TurnsCapped
<1>1. TranscriptTypeOK /\ ReadBelowLimit => PromptsUnderLimit
  BY LimitHolds
<1>2. TranscriptTypeOK /\ Owned => OnlyAnswersCount
  BY AnswersHavePrompts
<1>3. PromptsUnderLimit /\ OnlyAnswersCount => TurnsCapped
  BY DEF TurnsCapped
<1>4. QED
  BY <1>1, <1>2, <1>3, ReadsBelowLimit, RowsOwned, TranscriptTypes, PTL

-----------------------------------------------------------------------------
(* Which call a prompt answers *)

\* Each call of the provider stands once, and a prompt answers the last one
\* before it.
Distinct(s, n) ==
  \A j, k \in 1 .. n : s[j].tool = s[k].tool /\ s[j].tool \notin {NoTool, Synth} => j = k
Fresh(s, n) ==
  \A v \in 1 .. n : s[v].answers # NoTool => LastIn(s, v - 1, s[v].answers)

\* What the loop has made of the first n messages of s: no synthetic calls,
\* only calls that stand in s, the last one among them, and still each call
\* once and each prompt behind the last one.
CallsSound(s, out, n) ==
  /\ out \in Seq(Message)
  /\ \A i \in 1 .. Len(out) :
       /\ out[i].tool # Synth
       /\ out[i].tool # NoTool => \E k \in 1 .. n : s[k].tool = out[i].tool
       /\ out[i].tool # NoTool => out[i].role = "assistant" /\ out[i].answers = NoTool
  /\ Distinct(out, Len(out)) /\ Fresh(out, Len(out))
  /\ \A a : LastIn(s, n, a) => LastIn(out, Len(out), a)

LEMMA CallsFront ==
  ASSUME NEW s, NEW n \in Nat, NEW out, CallsSound(s, out, n), EndsWithPrompt(out)
  PROVE  CallsSound(s, Front(out), n)
<1> DEFINE k == Len(out)
           c == Front(out)
<1>1. out \in Seq(Message) /\ k \in Nat \ {0} /\ out[k].role = "user" /\ k \in 1 .. k
  BY EmptySeq, LenProperties DEF CallsSound, EndsWithPrompt, Last
<1>2. c \in Seq(Message) /\ Len(c) = k - 1 /\ \A i \in 1 .. k - 1 : c[i] = out[i]
  <2>1. k - 1 \in Nat /\ k - 1 <= k
    BY <1>1
  <2>2. c = SubSeq(out, 1, k - 1)
    BY DEF Front
  <2> HIDE DEF c
  <2>3. QED
    BY <1>1, <2>1, <2>2, FirstMessages
<1>3. out[k].tool = NoTool
  BY <1>1 DEF CallsSound
<1> HIDE DEF c
<1>4. \A i \in 1 .. k - 1 : i \in 1 .. k
  BY <1>1
<1>5. \A i \in 1 .. k - 1 :
        /\ c[i].tool # Synth
        /\ c[i].tool # NoTool => \E j \in 1 .. n : s[j].tool = c[i].tool
        /\ c[i].tool # NoTool => c[i].role = "assistant" /\ c[i].answers = NoTool
  BY <1>2, <1>4 DEF CallsSound
<1>6. Distinct(c, k - 1)
  BY <1>2, <1>4 DEF CallsSound, Distinct
<1>7. ASSUME NEW v \in 1 .. k - 1, c[v].answers # NoTool
      PROVE  LastIn(c, v - 1, c[v].answers)
  <2>1. LastIn(out, v - 1, out[v].answers) /\ c[v] = out[v]
    BY <1>2, <1>4, <1>7 DEF CallsSound, Fresh
  <2>2. v - 1 \in Nat /\ \A i \in 1 .. v - 1 : c[i] = out[i]
    BY <1>1, <1>2
  <2>3. QED
    BY <2>1, <2>2, LastInKept
<1>8. ASSUME NEW a, LastIn(s, n, a)
      PROVE  LastIn(c, k - 1, a)
  <2>1. LastIn(out, k, a)
    BY <1>8 DEF CallsSound
  <2>2. PICK l \in 1 .. k :
          /\ out[l].tool = a /\ a \notin {NoTool, Synth}
          /\ \A j \in l + 1 .. k : out[j].tool \in {NoTool, Synth}
    BY <2>1 DEF LastIn
  <2>3. l \in 1 .. k - 1 /\ \A j \in l + 1 .. k - 1 : j \in l + 1 .. k /\ j \in 1 .. k - 1
    BY <1>1, <1>3, <2>2
  <2>4. QED
    BY <1>2, <2>2, <2>3 DEF LastIn
<1>9. QED
  BY <1>2, <1>5, <1>6, <1>7, <1>8 DEF CallsSound, Fresh, c

LEMMA CallsAppend ==
  ASSUME NEW s, AllStand(s), NEW n \in Nat, n + 1 \in 1 .. Len(s),
         Distinct(s, Len(s)), Fresh(s, Len(s)),
         NEW b, CallsSound(s, b, n), s[n + 1].tool # Synth
  PROVE  CallsSound(s, Append(b, s[n + 1]), n + 1)
<1> DEFINE k == Len(b)
           m == s[n + 1]
           c == Append(b, m)
<1>1. /\ m \in Message /\ m.role \in {"user", "assistant"}
      /\ m.tool # NoTool => m.role = "assistant" /\ m.answers = NoTool
      /\ n \in 1 .. Len(s) \/ n = 0
      /\ \A j \in 1 .. n : j \in 1 .. Len(s) /\ j # n + 1 /\ j \in 1 .. n + 1
  <2>1. Len(s) \in Nat
    BY LenProperties DEF AllStand
  <2>2. m \in Message
    BY ElementOfSeq DEF AllStand
  <2>3. Stands(m, s, (n + 1) - 1)
    BY DEF AllStand
  <2>4. QED
    BY <2>1, <2>2, <2>3 DEF Stands, Message
<1>2. b \in Seq(Message) /\ k \in Nat
  BY LenProperties DEF CallsSound
<1>3. /\ c \in Seq(Message) /\ Len(c) = k + 1
      /\ \A i \in 1 .. k : c[i] = b[i]
      /\ c[k + 1] = m
  BY <1>1, <1>2, AppendProperties
<1>4. m.tool # NoTool => \A j \in 1 .. n : s[j].tool # m.tool
  BY <1>1 DEF Distinct
<1>5. m.answers # NoTool => LastIn(s, n, m.answers)
  <2>1. (n + 1) - 1 = n
    OBVIOUS
  <2>2. QED
    BY <2>1 DEF Fresh
<1>6. \A a : LastIn(s, n, a) => LastIn(b, k, a)
  BY DEF CallsSound
<1>7. ASSUME NEW a, LastIn(s, n + 1, a)
      PROVE  (m.tool # NoTool /\ a = m.tool) \/ (m.tool = NoTool /\ LastIn(s, n, a))
  <2>1. PICK l \in 1 .. n + 1 :
          /\ s[l].tool = a /\ a \notin {NoTool, Synth}
          /\ \A j \in l + 1 .. n + 1 : s[j].tool \in {NoTool, Synth}
    BY <1>7 DEF LastIn
  <2>2. CASE l = n + 1
    BY <2>1, <2>2
  <2>3. CASE l # n + 1
    <3>1. l \in 1 .. n /\ n + 1 \in l + 1 .. n + 1
          /\ \A j \in l + 1 .. n : j \in l + 1 .. n + 1
      BY <2>3
    <3>2. m.tool = NoTool
      BY <2>1, <3>1
    <3>3. LastIn(s, n, a)
      BY <2>1, <3>1 DEF LastIn
    <3>4. QED
      BY <3>2, <3>3
  <2>4. QED
    BY <2>2, <2>3
<1> HIDE DEF m, c, k
<1>8. \A i \in 1 .. k + 1 : i \in 1 .. k \/ i = k + 1
  BY <1>2
<1>9. ASSUME NEW i \in 1 .. k
      PROVE  /\ b[i].tool # Synth
             /\ b[i].tool # NoTool => \E j \in 1 .. n : s[j].tool = b[i].tool
             /\ b[i].tool # NoTool => b[i].role = "assistant" /\ b[i].answers = NoTool
  BY DEF CallsSound, k
<1>10. ASSUME NEW i \in 1 .. k + 1
       PROVE  /\ c[i].tool # Synth
              /\ c[i].tool # NoTool => \E j \in 1 .. n + 1 : s[j].tool = c[i].tool
              /\ c[i].tool # NoTool => c[i].role = "assistant" /\ c[i].answers = NoTool
  <2>1. CASE i \in 1 .. k
    BY <1>1, <1>3, <1>9, <2>1
  <2>2. CASE i = k + 1
    BY <1>1, <1>3, <2>2 DEF m
  <2>3. QED
    BY <1>8, <2>1, <2>2
<1>11. Distinct(c, k + 1)
  <2>1. \A i \in 1 .. k : m.tool # NoTool => b[i].tool # m.tool
    BY <1>4, <1>9
  <2>2. \A i, j \in 1 .. k : b[i].tool = b[j].tool /\ b[i].tool \notin {NoTool, Synth} => i = j
    BY DEF CallsSound, Distinct, k
  <2>3. QED
    BY <1>3, <1>8, <2>1, <2>2 DEF Distinct
<1>12. ASSUME NEW v \in 1 .. k + 1, c[v].answers # NoTool
       PROVE  LastIn(c, v - 1, c[v].answers)
  <2>1. CASE v \in 1 .. k
    <3>1. LastIn(b, v - 1, b[v].answers) /\ c[v] = b[v]
      BY <1>3, <1>12, <2>1 DEF CallsSound, Fresh, k
    <3>2. v - 1 \in Nat /\ \A i \in 1 .. v - 1 : c[i] = b[i]
      BY <1>2, <1>3, <2>1
    <3>3. QED
      BY <3>1, <3>2, LastInKept
  <2>2. CASE v = k + 1
    <3>1. LastIn(b, k, m.answers) /\ c[v] = m
      BY <1>3, <1>5, <1>6, <1>12, <2>2
    <3>2. LastIn(c, k, m.answers)
      BY <1>2, <1>3, <3>1, LastInKept
    <3>3. v - 1 = k
      BY <1>2, <2>2
    <3>4. QED
      BY <3>1, <3>2, <3>3
  <2>3. QED
    BY <1>8, <2>1, <2>2
<1>13. ASSUME NEW a, LastIn(s, n + 1, a)
       PROVE  LastIn(c, k + 1, a)
  <2>1. CASE m.tool # NoTool /\ a = m.tool
    <3>1. k + 1 \in 1 .. k + 1 /\ (k + 1) + 1 .. k + 1 = {}
      BY <1>2
    <3>2. a # Synth
      BY <2>1 DEF m
    <3>3. QED
      BY <1>3, <2>1, <3>1, <3>2 DEF LastIn
  <2>2. CASE m.tool = NoTool /\ LastIn(s, n, a)
    <3>1. LastIn(b, k, a)
      BY <1>6, <2>2
    <3>2. LastIn(c, k, a)
      BY <1>2, <1>3, <3>1, LastInKept
    <3>3. PICK l \in 1 .. k :
            /\ c[l].tool = a /\ a \notin {NoTool, Synth}
            /\ \A j \in l + 1 .. k : c[j].tool \in {NoTool, Synth}
      BY <3>2 DEF LastIn
    <3>4. l \in 1 .. k + 1 /\ \A j \in l + 1 .. k + 1 : j \in l + 1 .. k \/ j = k + 1
      BY <1>2
    <3>5. QED
      BY <1>3, <2>2, <3>3, <3>4 DEF LastIn
  <2>3. QED
    BY <1>7, <1>13, <2>1, <2>2
<1>14. CallsSound(s, c, n + 1)
  BY <1>3, <1>10, <1>11, <1>12, <1>13 DEF CallsSound, Fresh
<1>15. QED
  BY <1>14 DEF c, m

LEMMA CallsSkip ==
  ASSUME NEW s, NEW n \in Nat, s[n + 1].tool = Synth, NEW b, CallsSound(s, b, n)
  PROVE  CallsSound(s, b, n + 1)
<1>1. ASSUME NEW a, LastIn(s, n + 1, a)
      PROVE  LastIn(s, n, a)
  <2>1. PICK l \in 1 .. n + 1 :
          /\ s[l].tool = a /\ a \notin {NoTool, Synth}
          /\ \A j \in l + 1 .. n + 1 : s[j].tool \in {NoTool, Synth}
    BY <1>1 DEF LastIn
  <2>2. l # n + 1
    BY <2>1
  <2>3. l \in 1 .. n /\ \A j \in l + 1 .. n : j \in l + 1 .. n + 1
    BY <2>2
  <2>4. QED
    BY <2>1, <2>3 DEF LastIn
<1>2. \A j \in 1 .. n : j \in 1 .. n + 1
  OBVIOUS
<1>3. QED
  BY <1>1, <1>2 DEF CallsSound

LEMMA CallsKept ==
  ASSUME NEW s, AllStand(s), Distinct(s, Len(s)), Fresh(s, Len(s))
  PROVE  CallsSound(s, PrepareMessages(s), Len(s))
<1> DEFINE n == Len(s)
<1>1. n \in Nat
  BY LenProperties DEF AllStand
<1>2. PICK f : PrepareRun(s, f, n) /\ PrepareMessages(s) = f[n]
  BY <1>1, PrepareRuns
<1> DEFINE S == {k \in Nat : k <= n => CallsSound(s, f[k], k)}
<1>3. 0 \in S
  <2>1. f[0] = <<>> /\ Len(f[0]) = 0 /\ f[0] \in Seq(Message)
    BY <1>2 DEF PrepareRun
  <2>2. (1 .. 0) = {}
    OBVIOUS
  <2>3. CallsSound(s, f[0], 0)
    BY <2>1, <2>2 DEF CallsSound, Distinct, Fresh, LastIn
  <2>4. QED
    BY <2>3
<1>4. ASSUME NEW k \in Nat, k \in S
      PROVE  k + 1 \in S
  <2>1. SUFFICES ASSUME k + 1 <= n PROVE CallsSound(s, f[k + 1], k + 1)
    OBVIOUS
  <2>2. CallsSound(s, f[k], k) /\ k + 1 \in 1 .. n /\ (k + 1) - 1 = k
    BY <1>1, <1>4, <2>1
  <2> DEFINE m == s[k + 1]
             b == IF EndsWithPrompt(f[k]) THEN Front(f[k]) ELSE f[k]
  <2>3. f[k + 1] = Prepared(f[k], m)
    BY <1>2, <2>2 DEF PrepareRun
  <2>4. CallsSound(s, b, k)
    BY <2>2, CallsFront
  <2> HIDE DEF b
  <2>5. CASE m.tool = Synth
    <3>1. f[k + 1] = b
      BY <2>3, <2>5 DEF Prepared, b
    <3>2. QED
      BY <2>4, <2>5, <3>1, CallsSkip
  <2>6. CASE m.tool # Synth
    <3>1. f[k + 1] = Append(b, m) \/ f[k + 1] = Append(f[k], m)
      BY <2>3, <2>6 DEF Prepared, b
    <3>2. QED
      BY <2>2, <2>4, <2>6, <3>1, CallsAppend
  <2>7. QED
    BY <2>5, <2>6
<1> HIDE DEF S
<1>5. n \in S
  BY <1>1, <1>3, <1>4, SetInduction
<1>6. QED
  BY <1>1, <1>2, <1>5 DEF S

\* So two prompts answer one call only where no other stands between them.
LEMMA CallsApart ==
  ASSUME NEW s, NEW p, NEW n, CallsSound(s, p, n),
         NEW i \in 1 .. Len(p), NEW j \in 1 .. Len(p), i < j,
         p[i].answers = p[j].answers, p[i].answers # NoTool,
         NEW k \in i .. j
  PROVE  p[k].tool = NoTool
<1> SUFFICES ASSUME p[k].tool # NoTool
             PROVE  FALSE
  OBVIOUS
<1> DEFINE a == p[i].answers
<1>1. Len(p) \in Nat
  BY LenProperties DEF CallsSound
<1>2. k \in 1 .. Len(p)
  BY <1>1
<1>3. p[k].tool # Synth /\ p[k].answers = NoTool
  BY <1>2 DEF CallsSound
<1>4. k # i /\ k # j
  BY <1>3
<1>5. LastIn(p, i - 1, a) /\ LastIn(p, j - 1, a)
  BY DEF CallsSound, Fresh
<1> HIDE DEF a
<1>6. PICK u \in 1 .. i - 1 : p[u].tool = a /\ a \notin {NoTool, Synth}
  BY <1>5 DEF LastIn
<1>7. PICK l \in 1 .. j - 1 : /\ p[l].tool = a
                              /\ \A v \in l + 1 .. j - 1 : p[v].tool \in {NoTool, Synth}
  BY <1>5 DEF LastIn
<1>8. ~(k \in l + 1 .. j - 1)
  BY <1>3, <1>7
<1>9. u < l /\ u \in 1 .. Len(p) /\ l \in 1 .. Len(p)
  BY <1>1, <1>4, <1>8
<1>10. u = l
  BY <1>6, <1>7, <1>9 DEF CallsSound, Distinct
<1>11. QED
  BY <1>9, <1>10

\* The calls in the rows are distinct.
LEMMA RowsDistinct ==
  ASSUME TranscriptTypeOK, AllStand(rows), Owned
  PROVE  Distinct(rows, Len(rows))
<1> SUFFICES ASSUME NEW j \in 1 .. Len(rows), NEW k \in 1 .. Len(rows),
                    rows[j].tool = rows[k].tool, rows[j].tool \notin {NoTool, Synth}
             PROVE  j = k
  BY DEF Distinct
<1>1. ASSUME NEW i \in 1 .. Len(rows), rows[i].tool \notin {NoTool, Synth}
      PROVE  rows[i].role = "assistant" /\ rows[i].turn = rows[i].tool /\ RowSound(i)
  <2>1. RowSound(i) /\ Stands(rows[i], rows, i - 1) /\ rows[i] \in Message
    BY ElementOfSeq DEF AllStand, Owned
  <2>2. QED
    BY <1>1, <2>1 DEF RowSound, Stands, Message
<1>2. /\ rows[j].role = "assistant" /\ rows[k].role = "assistant"
      /\ rows[j].turn = rows[k].turn /\ RowSound(j) /\ RowSound(k)
  BY <1>1
<1>3. CASE rows[j].turn = Seed
  <2>1. j > 1 /\ ~(j > 2) /\ k > 1 /\ ~(k > 2)
    BY <1>2, <1>3 DEF RowSound
  <2>2. QED
    BY <2>1
<1>4. CASE rows[j].turn # Seed
  <2>1. ~(j \in 1 .. k - 1) /\ ~(k \in 1 .. j - 1)
    BY <1>2, <1>4 DEF RowSound
  <2>2. QED
    BY <2>1
<1>5. QED
  BY <1>3, <1>4

\* What a turn would send to the model.
LEMMA PromptsHold ==
  ASSUME TranscriptTypeOK, AllStand(rows), Owned
  PROVE  PromptsWellFormed
<1> SUFFICES ASSUME NEW t \in Turns
             PROVE  LET p == Messages(t) IN
                      /\ Last(p).turn = t
                      /\ \A i \in DOMAIN p : p[i].answers # NoTool =>
                           \E j \in 1 .. i - 1 : p[j].tool = p[i].answers
                      /\ InTurn => \A i \in DOMAIN p :
                           p[i].role = IF i % 2 = 1 THEN "user" ELSE "assistant"
                      /\ Undisturbed => \A i, j \in DOMAIN p :
                           i < j /\ p[i].answers = p[j].answers /\ p[i].answers # NoTool =>
                             \A k \in i .. j : p[k].tool = NoTool
  BY DEF PromptsWellFormed
<1> DEFINE n == read[t]
           m == UserTurn(t)
           s == Append(Seen(t), m)
           p == PrepareMessages(s)
<1>1. /\ Seen(t) \in Seq(Message) /\ Len(Seen(t)) = n /\ n \in Nat /\ n <= Len(rows)
      /\ \A i \in 1 .. n : Seen(t)[i] = rows[i]
  BY SeenMessages
<1>2. m \in Message
  BY SeenType
<1>3. /\ s \in Seq(Message) /\ Len(s) = n + 1
      /\ \A i \in 1 .. n : s[i] = rows[i]
      /\ s[n + 1] = m
  BY <1>1, <1>2, AppendProperties
<1>4. Len(rows) \in Nat /\ DOMAIN rows = 1 .. Len(rows)
  BY LenProperties DEF TranscriptTypeOK
<1>5. m.role = "user" /\ m.turn = t
  BY DEF UserTurn, Prompt
<1>6. Stands(m, s, n)
  <2>1. n <= n
    BY <1>1
  <2>2. QED
    BY <1>1, <1>3, <2>1, UserTurnStands
<1>7. Messages(t) = p
  BY DEF Messages
<1> HIDE DEF m, s, p, n
<1>8. \A i \in 1 .. n + 1 : i \in 1 .. n \/ i = n + 1
  BY <1>1
<1>9. \A i \in 1 .. n : i \in 1 .. Len(rows)
  BY <1>1, <1>4
<1>10. AllStand(s)
  <2>1. ASSUME NEW i \in 1 .. n
        PROVE  Stands(s[i], s, i - 1)
    <3>1. Stands(rows[i], rows, i - 1)
      BY <1>9 DEF AllStand
    <3>2. \A j \in 1 .. i - 1 : j \in 1 .. n
      BY <1>1
    <3>3. QED
      BY <1>3, <3>1, <3>2 DEF Stands
  <2>2. (n + 1) - 1 = n
    BY <1>1
  <2>3. QED
    BY <1>3, <1>6, <1>8, <2>1, <2>2 DEF AllStand
<1>11. InTurn => AnswersFollow(s)
  <2> SUFFICES ASSUME InTurn, NEW i \in 1 .. n + 1, s[i].role = "assistant", s[i].tool # Synth
               PROVE  i > 1 /\ s[i - 1].role = "user"
    BY <1>3 DEF AnswersFollow
  <2>1. i \in 1 .. n
    BY <1>3, <1>5, <1>8
  <2>2. i > 1 /\ rows[i - 1].role = "user"
    BY <1>3, <1>4, <1>9, <2>1 DEF InTurn
  <2>3. i - 1 \in 1 .. n
    BY <1>1, <2>1, <2>2
  <2>4. QED
    BY <1>3, <2>2, <2>3
<1>12. PreparedSound(s, p, n + 1)
  BY <1>3, <1>10, MessagesSound DEF p
<1>13. n + 1 > 0
  BY <1>1
<1>14. Last(p) = m
  BY <1>3, <1>5, <1>12, <1>13 DEF PreparedSound
<1>15. DOMAIN p = 1 .. Len(p)
  BY <1>12, LenProperties DEF PreparedSound, Grounded
<1>16. \A i \in DOMAIN p : p[i].answers # NoTool =>
         \E j \in 1 .. i - 1 : p[j].tool = p[i].answers
  BY <1>12, <1>15 DEF PreparedSound, Grounded
<1>17. InTurn => \A i \in DOMAIN p : p[i].role = IF i % 2 = 1 THEN "user" ELSE "assistant"
  BY <1>11, <1>12, <1>15 DEF PreparedSound, Alternates
<1>18. Distinct(s, n + 1)
  <2>1. Distinct(rows, Len(rows)) /\ m.tool = NoTool
    BY RowsDistinct DEF m, UserTurn, Prompt
  <2>2. \A j, k \in 1 .. n : s[j].tool = s[k].tool /\ s[j].tool \notin {NoTool, Synth} => j = k
    BY <1>3, <1>9, <2>1 DEF Distinct
  <2>3. QED
    BY <1>3, <1>8, <2>1, <2>2 DEF Distinct
<1>19. ASSUME Undisturbed, NEW v \in 1 .. n + 1, s[v].answers # NoTool
       PROVE  LastIn(s, v - 1, s[v].answers)
  <2>1. CASE v \in 1 .. n
    <3>1. /\ s[v] = rows[v] /\ RowSound(v) /\ Stands(rows[v], rows, v - 1)
          /\ rows[v] \in Message
      BY <1>3, <1>9, <2>1, ElementOfSeq DEF AllStand, Owned
    <3>2. rows[v].role = "user"
      BY <1>19, <3>1 DEF Stands, Message
    <3>3. rows[v].turn # Seed /\ LastIn(rows, read[rows[v].turn], rows[v].answers)
      BY <1>19, <3>1, <3>2 DEF RowSound
    <3>4. read[rows[v].turn] = v - 1
      BY <1>4, <1>9, <1>19, <2>1, <3>2, <3>3 DEF Undisturbed
    <3>5. v - 1 \in Nat /\ \A i \in 1 .. v - 1 : s[i] = rows[i]
      <4>1. v - 1 \in Nat /\ \A i \in 1 .. v - 1 : i \in 1 .. n
        BY <1>1, <2>1
      <4>2. QED
        BY <1>3, <4>1
    <3> DEFINE h == v - 1
               a == rows[v].answers
    <3>6. h \in Nat /\ (\A i \in 1 .. h : s[i] = rows[i]) /\ LastIn(rows, h, a)
      BY <3>3, <3>4, <3>5
    <3> HIDE DEF h, a
    <3>7. LastIn(s, h, a)
      BY <3>6, LastInKept
    <3>8. QED
      BY <3>1, <3>7 DEF h, a
  <2>2. CASE v = n + 1
    <3>1. m.answers = LastToolUse(Seen(t)) /\ s[v] = m
      BY <1>3, <2>2 DEF m, UserTurn, Prompt
    <3>2. LastIn(Seen(t), n, m.answers)
      BY <1>1, <1>19, <3>1, LastToolUseLast
    <3>3. \A i \in 1 .. n : s[i] = Seen(t)[i]
      BY <1>1, <1>3
    <3>4. LastIn(s, n, m.answers)
      BY <1>1, <3>2, <3>3, LastInKept
    <3>5. v - 1 = n
      BY <1>1, <2>2
    <3>6. QED
      BY <3>1, <3>4, <3>5
  <2>3. QED
    BY <1>8, <2>1, <2>2
<1>20. ASSUME Undisturbed, NEW i \in DOMAIN p, NEW j \in DOMAIN p,
              i < j, p[i].answers = p[j].answers, p[i].answers # NoTool, NEW k \in i .. j
       PROVE  p[k].tool = NoTool
  <2>1. Fresh(s, n + 1)
    BY <1>19, <1>20 DEF Fresh
  <2>2. CallsSound(s, p, n + 1)
    BY <1>3, <1>10, <1>18, <2>1, CallsKept DEF p
  <2>3. QED
    BY <1>15, <1>20, <2>2, CallsApart
<1>21. QED
  BY <1>5, <1>7, <1>14, <1>16, <1>17, <1>20

\* Whatever failed, was reverted or was cut off before, the prompt of a turn
\* is the last message the model gets, and a tool_result in it answers a tool
\* call of the provider that comes before it; unless turns overlapped, prompts
\* and answers alternate, and two tool_results answer one call only where every
\* answer between them is a text (buildUserTurnForRefinement,
\* prepareMessagesForLLM).
THEOREM TranscriptPromptsWellFormed == TranscriptSpec => []PromptsWellFormed
<1>1. Init => AllStand(rows)
  <2> SUFFICES ASSUME Init
               PROVE  AllStand(rows)
    OBVIOUS
  <2>1. \A a \in Tools : Prompt(Seed, a) \in Message /\ Reply(Seed, a) \in Message
    BY DEF Prompt, Reply, Message, Tools
  <2>2. Seed \in Tools /\ NoTool \in Tools /\ Synth \in Tools
    BY DEF Tools
  <2>3. CASE rows = <<>>
    BY <2>3 DEF AllStand
  <2>4. ASSUME NEW a \in {Seed, Synth}, rows = <<Prompt(Seed, NoTool), Reply(Seed, a)>>
        PROVE  AllStand(rows)
    <3>1. rows \in Seq(Message) /\ Len(rows) = 2
      BY <2>1, <2>2, <2>4
    <3>2. rows[1] = Prompt(Seed, NoTool) /\ rows[2] = Reply(Seed, a)
      BY <2>4
    <3>3. \A k : Stands(Prompt(Seed, NoTool), rows, k) /\ Stands(Reply(Seed, a), rows, k)
      BY DEF Stands, Prompt, Reply
    <3>4. \A i \in 1 .. 2 : i = 1 \/ i = 2
      OBVIOUS
    <3>5. QED
      BY <3>1, <3>2, <3>3, <3>4 DEF AllStand
  <2>5. QED
    BY <2>3, <2>4 DEF Init, Histories
<1>2. TranscriptTypeOK /\ AllStand(rows) /\ [Next]_vars => AllStand(rows)'
  BY AllStandStep
<1>3. TranscriptTypeOK /\ AllStand(rows) /\ Owned => PromptsWellFormed
  BY PromptsHold
<1>4. QED
  BY <1>1, <1>2, <1>3, RowsOwned, TranscriptTypes, PTL DEF TranscriptSpec
=============================================================================
