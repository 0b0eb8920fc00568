--------------------------- MODULE EditSyncProofs ---------------------------
(***************************************************************************)
(* What saving promises for any number of tabs, sessions, edits, turns and *)
(* lost calls: the versions of a session stay its own, every job is stored *)
(* once or is in hand, and what is stored is what the user left.           *)
(***************************************************************************)
EXTENDS EditSync, FiniteSetTheorems, SequenceTheorems, WellFoundedInduction, TLAPS

-----------------------------------------------------------------------------
(* Sequences and batches *)

IsSeq(s) == s \in Seq(Elems(s))

JobFields == {"chat", "score", "key"}

\* The jobs of a batch come in the order of their keys, and each is of the
\* session that owns its key.
IsBatch(s, owner) ==
  /\ IsSeq(s)
  /\ \A i \in DOMAIN s :
       DOMAIN s[i] = JobFields /\ s[i].key \in DOMAIN owner /\ owner[s[i].key] = s[i].chat
  /\ \A i, j \in DOMAIN s : i < j => s[i].key < s[j].key
OfChat(s, c) == \A i \in DOMAIN s : s[i].chat = c
Before(s, r) == \A k \in KeysOf(s), l \in KeysOf(r) : k < l

LEMMA SeqFacts ==
  ASSUME NEW s, IsSeq(s)
  PROVE  /\ Len(s) \in Nat /\ DOMAIN s = 1 .. Len(s)
         /\ s = <<>> <=> Len(s) = 0
BY LenProperties, EmptySeq DEF IsSeq

LEMMA SeqOf ==
  ASSUME NEW S, NEW s \in Seq(S)
  PROVE  IsSeq(s)
<1>1. Len(s) \in Nat /\ DOMAIN s = 1 .. Len(s)
  BY LenProperties
<1>2. \A i \in 1 .. Len(s) : s[i] \in Elems(s)
  BY <1>1 DEF Elems
<1>3. QED
  BY <1>1, <1>2 DEF IsSeq

LEMMA SeqAppend ==
  ASSUME NEW s, IsSeq(s), NEW e
  PROVE  /\ IsSeq(Append(s, e)) /\ Len(Append(s, e)) = Len(s) + 1
         /\ \A i \in 1 .. Len(s) : Append(s, e)[i] = s[i]
         /\ Append(s, e)[Len(s) + 1] = e
<1> DEFINE S == Elems(s) \cup {e}
<1>1. s \in Seq(S) /\ e \in S
  BY SeqMonotonic DEF IsSeq
<1> HIDE DEF S
<1>2. /\ Append(s, e) \in Seq(S) /\ Len(Append(s, e)) = Len(s) + 1
      /\ \A i \in 1 .. Len(s) : Append(s, e)[i] = s[i]
      /\ Append(s, e)[Len(s) + 1] = e
  BY <1>1, AppendProperties
<1>3. IsSeq(Append(s, e))
  BY <1>2, SeqOf
<1>4. QED
  BY <1>2, <1>3

LEMMA SeqConcat ==
  ASSUME NEW s, IsSeq(s), NEW r, IsSeq(r)
  PROVE  /\ IsSeq(s \o r) /\ Len(s \o r) = Len(s) + Len(r)
         /\ \A i \in 1 .. Len(s) : (s \o r)[i] = s[i]
         /\ \A i \in 1 .. Len(r) : (s \o r)[Len(s) + i] = r[i]
<1> DEFINE S == Elems(s) \cup Elems(r)
<1>1. s \in Seq(S) /\ r \in Seq(S)
  BY SeqMonotonic DEF IsSeq
<1> HIDE DEF S
<1>2. /\ s \o r \in Seq(S) /\ Len(s \o r) = Len(s) + Len(r)
      /\ \A i \in 1 .. Len(s) + Len(r) : (s \o r)[i] = IF i <= Len(s) THEN s[i] ELSE r[i - Len(s)]
  BY <1>1, ConcatProperties
<1>3. Len(s) \in Nat /\ Len(r) \in Nat
  BY SeqFacts
<1>4. IsSeq(s \o r)
  BY <1>2, SeqOf
<1>5. ASSUME NEW i \in 1 .. Len(s)
      PROVE  (s \o r)[i] = s[i]
  BY <1>2, <1>3
<1>6. ASSUME NEW i \in 1 .. Len(r)
      PROVE  (s \o r)[Len(s) + i] = r[i]
  <2>1. /\ Len(s) + i \in 1 .. Len(s) + Len(r) /\ ~(Len(s) + i <= Len(s))
        /\ (Len(s) + i) - Len(s) = i
    BY <1>3
  <2>2. QED
    BY <1>2, <2>1
<1>7. QED
  BY <1>2, <1>4, <1>5, <1>6

\* A piece of a sequence.
LEMMA SeqPart ==
  ASSUME NEW s, IsSeq(s), NEW a \in 1 .. Len(s) + 1, NEW b \in 0 .. Len(s), a <= b + 1
  PROVE  /\ IsSeq(SubSeq(s, a, b)) /\ Len(SubSeq(s, a, b)) = b - a + 1
         /\ \A i \in 1 .. b - a + 1 : SubSeq(s, a, b)[i] = s[a + i - 1]
<1>1. Len(s) \in Nat /\ DOMAIN s = 1 .. Len(s)
  BY SeqFacts
<1>2. a \in Int /\ b \in Int /\ \A i \in a .. b : s[i] \in Elems(s)
  BY <1>1 DEF Elems
<1>3. /\ SubSeq(s, a, b) \in Seq(Elems(s))
      /\ Len(SubSeq(s, a, b)) = IF a <= b THEN b - a + 1 ELSE 0
      /\ \A i \in 1 .. b - a + 1 : SubSeq(s, a, b)[i] = s[a + i - 1]
  BY <1>2, SubSeqProperties
<1>4. Len(SubSeq(s, a, b)) = b - a + 1
  BY <1>2, <1>3
<1>5. IsSeq(SubSeq(s, a, b))
  BY <1>3, SeqOf
<1>6. QED
  BY <1>3, <1>4, <1>5

\* A part of a batch is a batch with no new jobs.
LEMMA BatchPart ==
  ASSUME NEW s, NEW owner, IsBatch(s, owner),
         NEW a \in 1 .. Len(s) + 1, NEW b \in 0 .. Len(s), a <= b + 1
  PROVE  /\ IsBatch(SubSeq(s, a, b), owner)
         /\ Elems(SubSeq(s, a, b)) = {s[i] : i \in a .. b}
         /\ KeysOf(SubSeq(s, a, b)) = {s[i].key : i \in a .. b}
<1> DEFINE r == SubSeq(s, a, b)
<1>1. Len(s) \in Nat /\ DOMAIN s = 1 .. Len(s) /\ a \in Int /\ b \in Int
  BY SeqFacts DEF IsBatch
<1>2. /\ IsSeq(r) /\ Len(r) = b - a + 1 /\ DOMAIN r = 1 .. b - a + 1
      /\ \A i \in 1 .. b - a + 1 : r[i] = s[a + i - 1]
  BY SeqPart, SeqFacts DEF IsBatch
<1> HIDE DEF r
<1>3. \A i \in DOMAIN r : a + i - 1 \in a .. b /\ a + i - 1 \in DOMAIN s /\ r[i] = s[a + i - 1]
  BY <1>1, <1>2
<1>4. \A j \in a .. b : j - a + 1 \in DOMAIN r /\ r[j - a + 1] = s[j]
  BY <1>1, <1>2
<1>5. IsBatch(r, owner)
  <2>1. \A i, j \in DOMAIN r : i < j => a + i - 1 < a + j - 1
    BY <1>1, <1>2
  <2>2. QED
    BY <1>2, <1>3, <2>1, SMTT(30) DEF IsBatch
<1>6. Elems(r) = {s[i] : i \in a .. b} /\ KeysOf(r) = {s[i].key : i \in a .. b}
  BY <1>3, <1>4 DEF Elems, KeysOf
<1>7. QED
  BY <1>5, <1>6 DEF r

LEMMA BatchAppend ==
  ASSUME NEW s, NEW owner, IsBatch(s, owner), NEW j,
         DOMAIN j = JobFields, j.key \in DOMAIN owner, owner[j.key] = j.chat,
         \A k \in KeysOf(s) : k < j.key
  PROVE  /\ IsBatch(Append(s, j), owner)
         /\ Elems(Append(s, j)) = Elems(s) \cup {j}
         /\ KeysOf(Append(s, j)) = KeysOf(s) \cup {j.key}
<1> DEFINE r == Append(s, j)
<1>1. Len(s) \in Nat /\ DOMAIN s = 1 .. Len(s)
  BY SeqFacts DEF IsBatch
<1>2. /\ IsSeq(r) /\ Len(r) = Len(s) + 1 /\ DOMAIN r = 1 .. Len(s) + 1
      /\ \A i \in 1 .. Len(s) : r[i] = s[i]
      /\ r[Len(s) + 1] = j
  BY SeqAppend, SeqFacts DEF IsBatch
<1> HIDE DEF r
<1>3. \A i \in DOMAIN r : (i \in DOMAIN s /\ r[i] = s[i]) \/ (i = Len(s) + 1 /\ r[i] = j)
  BY <1>1, <1>2
<1>4. \A i \in DOMAIN s : i \in DOMAIN r /\ r[i] = s[i] /\ i < Len(s) + 1 /\ s[i].key \in KeysOf(s)
  BY <1>1, <1>2 DEF KeysOf
<1>5. IsBatch(r, owner)
  <2>1. ASSUME NEW i \in DOMAIN r
        PROVE  DOMAIN r[i] = JobFields /\ r[i].key \in DOMAIN owner /\ owner[r[i].key] = r[i].chat
    BY <1>3 DEF IsBatch
  <2>2. ASSUME NEW i \in DOMAIN r, NEW m \in DOMAIN r, i < m
        PROVE  r[i].key < r[m].key
    <3>1. i \in DOMAIN s /\ r[i] = s[i]
      BY <1>1, <1>2, <2>2
    <3>2. CASE m \in DOMAIN s /\ r[m] = s[m]
      BY <2>2, <3>1, <3>2 DEF IsBatch
    <3>3. CASE r[m] = j
      BY <1>4, <3>1, <3>3
    <3>4. QED
      BY <1>3, <3>2, <3>3
  <2>3. QED
    BY <1>2, <2>1, <2>2 DEF IsBatch
<1>6. Elems(r) = Elems(s) \cup {j}
  BY <1>1, <1>2, <1>3, <1>4 DEF Elems
<1>7. KeysOf(r) = KeysOf(s) \cup {j.key}
  BY <1>1, <1>2, <1>3, <1>4 DEF KeysOf
<1>8. QED
  BY <1>5, <1>6, <1>7 DEF r

LEMMA BatchConcat ==
  ASSUME NEW s, NEW r, NEW owner, IsBatch(s, owner), IsBatch(r, owner), Before(s, r)
  PROVE  /\ IsBatch(s \o r, owner)
         /\ Elems(s \o r) = Elems(s) \cup Elems(r)
         /\ KeysOf(s \o r) = KeysOf(s) \cup KeysOf(r)
<1> DEFINE b == s \o r
<1>1. Len(s) \in Nat /\ DOMAIN s = 1 .. Len(s) /\ Len(r) \in Nat /\ DOMAIN r = 1 .. Len(r)
  BY SeqFacts DEF IsBatch
<1>2. /\ IsSeq(b) /\ Len(b) = Len(s) + Len(r)
      /\ DOMAIN b = 1 .. Len(s) + Len(r)
      /\ \A i \in 1 .. Len(s) : b[i] = s[i]
      /\ \A i \in 1 .. Len(r) : b[Len(s) + i] = r[i]
  BY SeqConcat, SeqFacts DEF IsBatch
<1> HIDE DEF b
<1>3. \A i \in DOMAIN b : \/ i \in DOMAIN s /\ b[i] = s[i]
                          \/ i > Len(s) /\ i - Len(s) \in DOMAIN r /\ b[i] = r[i - Len(s)]
  <2>1. ASSUME NEW i \in DOMAIN b, i > Len(s)
        PROVE  i - Len(s) \in DOMAIN r /\ b[i] = r[i - Len(s)]
    <3>1. i - Len(s) \in 1 .. Len(r) /\ Len(s) + (i - Len(s)) = i
      BY <1>1, <1>2, <2>1
    <3>2. QED
      BY <1>1, <1>2, <3>1
  <2>2. QED
    BY <1>1, <1>2, <2>1
<1>4. /\ \A i \in DOMAIN s : i \in DOMAIN b /\ b[i] = s[i] /\ s[i].key \in KeysOf(s)
      /\ \A i \in DOMAIN r : Len(s) + i \in DOMAIN b /\ b[Len(s) + i] = r[i] /\ r[i].key \in KeysOf(r)
  BY <1>1, <1>2 DEF KeysOf
<1>5. IsBatch(b, owner)
  <2>1. ASSUME NEW i \in DOMAIN b
        PROVE  DOMAIN b[i] = JobFields /\ b[i].key \in DOMAIN owner /\ owner[b[i].key] = b[i].chat
    BY <1>3 DEF IsBatch
  <2>2. ASSUME NEW i \in DOMAIN b, NEW m \in DOMAIN b, i < m
        PROVE  b[i].key < b[m].key
    <3>1. CASE i \in DOMAIN s /\ m \in DOMAIN s
      BY <1>4, <2>2, <3>1 DEF IsBatch
    <3>2. CASE i \in DOMAIN s /\ m - Len(s) \in DOMAIN r /\ b[m] = r[m - Len(s)]
      BY <1>4, <3>2 DEF Before
    <3>3. CASE i > Len(s) /\ m > Len(s)
      <4>1. /\ i - Len(s) \in DOMAIN r /\ b[i] = r[i - Len(s)]
            /\ m - Len(s) \in DOMAIN r /\ b[m] = r[m - Len(s)]
        BY <1>1, <1>3, <3>3
      <4>2. i - Len(s) < m - Len(s)
        BY <1>1, <1>2, <2>2
      <4>3. QED
        BY <4>1, <4>2 DEF IsBatch
    <3>4. QED
      BY <1>1, <1>2, <1>3, <2>2, <3>1, <3>2, <3>3
  <2>3. QED
    BY <1>2, <2>1, <2>2 DEF IsBatch
<1>6. Elems(b) = Elems(s) \cup Elems(r)
  BY <1>3, <1>4 DEF Elems
<1>7. KeysOf(b) = KeysOf(s) \cup KeysOf(r)
  BY <1>3, <1>4 DEF KeysOf
<1>8. QED
  BY <1>5, <1>6, <1>7 DEF b

\* A job takes a newer score.
Rescored(s, n, x) == [s EXCEPT ![n].score = x]
LEMMA BatchRescored ==
  ASSUME NEW s, NEW owner, IsBatch(s, owner), NEW n \in DOMAIN s, NEW x
  PROVE  /\ IsBatch(Rescored(s, n, x), owner) /\ KeysOf(Rescored(s, n, x)) = KeysOf(s)
         /\ DOMAIN Rescored(s, n, x) = DOMAIN s
         /\ Rescored(s, n, x)[n].key = s[n].key /\ Rescored(s, n, x)[n].score = x
         /\ \A i \in DOMAIN s : i # n => Rescored(s, n, x)[i] = s[i]
<1> DEFINE r == Rescored(s, n, x)
<1>1. Len(s) \in Nat /\ DOMAIN s = 1 .. Len(s)
  BY SeqFacts DEF IsBatch
<1> DEFINE j == [s[n] EXCEPT !.score = x]
<1>2. DOMAIN j = JobFields /\ j.chat = s[n].chat /\ j.key = s[n].key /\ j.score = x
  BY DEF IsBatch, JobFields
<1>3. r = [s EXCEPT ![n] = j]
  BY DEF Rescored
<1> HIDE DEF j, r
<1>4. IsSeq(r) /\ Len(r) = Len(s)
  <2> DEFINE S == Elems(s) \cup {j}
  <2>1. s \in Seq(S) /\ j \in S
    BY SeqMonotonic DEF IsBatch, IsSeq
  <2> HIDE DEF S
  <2>2. r \in Seq(S) /\ Len(r) = Len(s)
    BY <1>1, <1>3, <2>1, ExceptSeq
  <2>3. QED
    BY <2>2, SeqOf
<1>5. DOMAIN r = DOMAIN s /\ \A i \in DOMAIN s : r[i] = IF i = n THEN j ELSE s[i]
  BY <1>3
<1>6. /\ \A i \in DOMAIN s : r[i].chat = s[i].chat /\ r[i].key = s[i].key
      /\ \A i \in DOMAIN s : DOMAIN r[i] = JobFields
  BY <1>2, <1>5 DEF IsBatch
<1>7. IsBatch(r, owner)
  BY <1>4, <1>5, <1>6 DEF IsBatch
<1>8. KeysOf(r) = KeysOf(s)
  BY <1>5, <1>6 DEF KeysOf
<1>9. QED
  BY <1>2, <1>5, <1>7, <1>8 DEF r

\* More keys have owners.
LEMMA BatchWidened ==
  ASSUME NEW s, NEW owner, IsBatch(s, owner), NEW wider,
         \A k \in DOMAIN owner : k \in DOMAIN wider /\ wider[k] = owner[k]
  PROVE  IsBatch(s, wider)
BY DEF IsBatch

-----------------------------------------------------------------------------
(* Runs and call numbers *)

LEMMA LeastExists ==
  ASSUME NEW S \in SUBSET Nat, S # {}
  PROVE  \E x \in S : \A y \in S : x <= y
<1> DEFINE R == OpToRel(<, Nat)
<1>1. IsWellFoundedOn(R, Nat)
  BY NatLessThanWellFounded
<1>2. \A x, y \in Nat : y < x => <<y, x>> \in R
  BY DEF OpToRel
<1> HIDE DEF R
<1>3. PICK x \in S : \A y \in S : ~(<<y, x>> \in R)
  BY <1>1, WFMin
<1>4. ASSUME NEW y \in S
      PROVE  x <= y
  <2>1. x \in Nat /\ y \in Nat /\ ~(y < x)
    BY <1>2, <1>3
  <2>2. QED
    BY <2>1
<1>5. QED
  BY <1>4

LEMMA NumberIsFree ==
  ASSUME NEW C, FreeNumbers(C) # {}
  PROVE  NextNumber(C) \in FreeNumbers(C)
<1>1. FreeNumbers(C) \in SUBSET Nat
  BY EditSyncAssumption DEF FreeNumbers
<1>2. \E n \in FreeNumbers(C) : \A m \in FreeNumbers(C) : n <= m
  BY <1>1, LeastExists
<1>3. QED
  BY <1>2 DEF NextNumber

\* The leading run is one session's, and what follows starts with another's.
LEMMA RunSplits ==
  ASSUME NEW t, NEW owner, DOMAIN owner \subseteq Nat,
         IsBatch(queue[t], owner), queue[t] # <<>>
  PROVE  /\ IsBatch(Run(t), owner) /\ IsBatch(AfterRun(t), owner)
         /\ Run(t) # <<>> /\ OfChat(Run(t), Run(t)[1].chat)
         /\ Run(t)[1].chat \in {owner[k] : k \in KeysOf(Run(t))}
         /\ Elems(queue[t]) = Elems(Run(t)) \cup Elems(AfterRun(t))
         /\ KeysOf(queue[t]) = KeysOf(Run(t)) \cup KeysOf(AfterRun(t))
         /\ Before(Run(t), AfterRun(t))
         /\ \A k \in KeysOf(AfterRun(t)) : \E f \in KeysOf(AfterRun(t)) :
              f <= k /\ owner[f] # Run(t)[1].chat
<1> DEFINE s == queue[t]
           Ends(i) == /\ \A j \in 1 .. i : s[j].chat = s[1].chat
                      /\ i < Len(s) => s[i + 1].chat # s[1].chat
<1>1. Len(s) \in Nat \ {0} /\ DOMAIN s = 1 .. Len(s)
  BY SeqFacts DEF IsBatch
<1>2. \E i \in 1 .. Len(s) : Ends(i)
  <2> DEFINE T == {i \in 1 .. Len(s) : s[i].chat # s[1].chat}
  <2>1. CASE T = {}
    <3>1. Ends(Len(s)) /\ Len(s) \in 1 .. Len(s)
      BY <1>1, <2>1
    <3>2. QED
      BY <3>1
  <2>2. CASE T # {}
    <3>1. T \in SUBSET Nat
      BY <1>1
    <3>2. PICK m \in T : \A j \in T : m <= j
      BY <2>2, <3>1, LeastExists
    <3>3. m # 1 /\ m \in 1 .. Len(s)
      OBVIOUS
    <3>4. m - 1 \in 1 .. Len(s) /\ (m - 1) + 1 = m /\ \A j \in 1 .. m - 1 : j \in 1 .. Len(s) /\ ~(m <= j)
      BY <1>1, <3>3
    <3>5. Ends(m - 1)
      BY <3>2, <3>4
    <3>6. QED
      BY <3>4, <3>5
  <2>3. QED
    BY <2>1, <2>2
<1> DEFINE n == CHOOSE i \in 1 .. Len(s) : Ends(i)
<1>3. n \in 1 .. Len(s) /\ Ends(n)
  BY <1>2
<1>4. Run(t) = SubSeq(s, 1, n)
  BY DEF Run
<1> HIDE DEF n
<1>5. /\ n \in 1 .. Len(s) + 1 /\ n + 1 \in 1 .. Len(s) + 1 /\ n \in 0 .. Len(s)
      /\ Len(s) \in 0 .. Len(s) /\ 1 \in 1 .. Len(s) + 1 /\ 1 <= n + 1 /\ n + 1 <= Len(s) + 1
      /\ n - 1 + 1 = n /\ n \in Nat /\ 1 \in 1 .. n
  BY <1>1, <1>3
<1>6. /\ IsBatch(Run(t), owner)
      /\ Elems(Run(t)) = {s[i] : i \in 1 .. n}
      /\ KeysOf(Run(t)) = {s[i].key : i \in 1 .. n}
  BY <1>4, <1>5, BatchPart
<1>7. Len(Run(t)) = n /\ DOMAIN Run(t) = 1 .. n /\ \A i \in 1 .. n : Run(t)[i] = s[i]
  <2>1. IsSeq(s)
    BY DEF IsBatch
  <2>2. /\ Len(SubSeq(s, 1, n)) = n - 1 + 1
        /\ \A i \in 1 .. n - 1 + 1 : SubSeq(s, 1, n)[i] = s[1 + i - 1]
    BY <1>5, <2>1, SeqPart
  <2>3. \A i \in 1 .. n : 1 + i - 1 = i
    BY <1>5
  <2>4. DOMAIN Run(t) = 1 .. Len(Run(t))
    BY <1>6, SeqFacts DEF IsBatch
  <2>5. QED
    BY <1>4, <1>5, <2>2, <2>3, <2>4
<1>8. AfterRun(t) = SubSeq(s, n + 1, Len(s))
  BY <1>7 DEF AfterRun
<1>9. /\ IsBatch(AfterRun(t), owner)
      /\ Elems(AfterRun(t)) = {s[i] : i \in n + 1 .. Len(s)}
      /\ KeysOf(AfterRun(t)) = {s[i].key : i \in n + 1 .. Len(s)}
  BY <1>5, <1>8, BatchPart
<1>10. DOMAIN s = (1 .. n) \cup (n + 1 .. Len(s))
  BY <1>1, <1>3
<1>11. /\ Elems(s) = Elems(Run(t)) \cup Elems(AfterRun(t))
       /\ KeysOf(s) = KeysOf(Run(t)) \cup KeysOf(AfterRun(t))
  BY <1>6, <1>9, <1>10 DEF Elems, KeysOf
<1>12. \A i, j \in DOMAIN s : i < j => s[i].key < s[j].key
  BY DEF IsBatch
<1>13. Before(Run(t), AfterRun(t))
  <2>1. \A i \in 1 .. n, j \in n + 1 .. Len(s) : i < j /\ i \in DOMAIN s /\ j \in DOMAIN s
    BY <1>1, <1>3
  <2>2. QED
    BY <1>6, <1>9, <1>12, <2>1 DEF Before
<1>14. /\ Run(t) # <<>> /\ OfChat(Run(t), Run(t)[1].chat)
       /\ Run(t)[1].chat = s[1].chat
  BY <1>3, <1>5, <1>7, SMTT(30) DEF OfChat
<1>15. Run(t)[1].chat \in {owner[k] : k \in KeysOf(Run(t))}
  BY <1>5, <1>6, <1>7 DEF IsBatch
<1>16. ASSUME NEW k \in KeysOf(AfterRun(t))
       PROVE  \E f \in KeysOf(AfterRun(t)) : f <= k /\ owner[f] # Run(t)[1].chat
  <2>1. PICK i \in n + 1 .. Len(s) : k = s[i].key
    BY <1>9
  <2>2. /\ n + 1 \in n + 1 .. Len(s) /\ n + 1 \in DOMAIN s /\ i \in DOMAIN s /\ n < Len(s)
        /\ n + 1 = i \/ n + 1 < i
    BY <1>1, <1>5, <2>1
  <2>3. s[n + 1].chat # s[1].chat /\ owner[s[n + 1].key] = s[n + 1].chat
    BY <1>3, <2>2 DEF IsBatch
  <2>4. s[n + 1].key \in KeysOf(AfterRun(t))
    BY <1>9, <2>2
  <2>5. CASE n + 1 = i
    <3>1. k \in Nat /\ k = s[n + 1].key
      BY <2>1, <2>2, <2>5 DEF IsBatch
    <3>2. k <= k
      BY <3>1
    <3>3. QED
      BY <1>14, <2>3, <2>4, <3>1, <3>2
  <2>6. CASE n + 1 < i
    <3>1. s[n + 1].key < k /\ k \in Nat /\ s[n + 1].key \in Nat
      BY <1>12, <2>1, <2>2, <2>6 DEF IsBatch
    <3>2. s[n + 1].key <= k
      BY <3>1
    <3>3. QED
      BY <1>14, <2>3, <2>4, <3>2
  <2>7. QED
    BY <2>2, <2>5, <2>6
<1>17. QED
  BY <1>6, <1>9, <1>11, <1>13, <1>14, <1>15, <1>16

-----------------------------------------------------------------------------
(* What the state looks like *)

CallFields == {"n", "chat", "base", "jobs", "heard", "stage", "seen", "known", "code"}
FlushFields == {"jobs", "base", "attempt", "call"}
TurnFields == {"stage", "chat", "id", "other"}

IsCall(q, owner) ==
  /\ DOMAIN q = CallFields /\ q.chat \in Chats
  /\ IsBatch(q.jobs, owner) /\ q.jobs # <<>> /\ OfChat(q.jobs, q.chat)
IsFlush(f, owner) ==
  /\ DOMAIN f = FlushFields
  /\ IsBatch(f.jobs, owner)
  /\ f # NoFlush => f.jobs # <<>> /\ f.jobs[1].chat \in Chats /\ OfChat(f.jobs, f.jobs[1].chat)

TabTypes ==
  /\ DOMAIN head = Chats
  /\ chat \in [Tabs -> Chats]
  /\ DOMAIN belief = Tabs /\ DOMAIN loading = Tabs /\ DOMAIN turn = Tabs
  /\ \A t \in Tabs : DOMAIN turn[t] = TurnFields /\ turn[t].chat \in Chats

\* An owner is a session for every key there is.
Owners == [1 .. minted -> Chats]
QueuesOf(owner) ==
  /\ DOMAIN queue = Tabs /\ DOMAIN flush = Tabs
  /\ \A t \in Tabs : /\ IsBatch(queue[t], owner) /\ IsFlush(flush[t], owner)
                     /\ Before(flush[t].jobs, queue[t])
CallsOf(owner) == \A q \in calls : IsCall(q, owner)
RowsOf(owner) ==
  /\ IsSeq(rows)
  /\ \A v \in Ids : /\ rows[v].chat \in Chats
                    /\ rows[v].key # NoKey =>
                         rows[v].key \in DOMAIN owner /\ owner[rows[v].key] = rows[v].chat
Owned ==
  /\ minted \in Nat /\ IsSeq(latest) /\ Len(latest) = minted
  /\ \E owner \in Owners : QueuesOf(owner) /\ CallsOf(owner) /\ RowsOf(owner)

-----------------------------------------------------------------------------
(* What the steps do to it *)

\* The steps of one tab that reach neither the server nor the network.
TabStep(t) ==
  \/ UserStep(t) \/ LoadStep(t)
  \/ Submit(t) \/ TurnShown(t) \/ OfferShown(t) \/ RejectionReads(t) \/ DecisionShown(t)
  \/ TurnAnswered(t) /\ UNCHANGED versionVars
\* The other writers of versions and heads.
WriterStep(t) ==
  \/ TurnAnswered(t) \/ ReplacementAccepted(t) \/ RejectionInserts(t) \/ RejectionMoves(t)

LEMMA TabStepFrame ==
  ASSUME TabTypes, NEW t \in Tabs, TabStep(t)
  PROVE  /\ UNCHANGED <<versionVars, flush, dropped, retried>>
         /\ \/ UNCHANGED <<queue, minted, latest>>
            \/ \E c \in Chats : \E s : Enqueue(t, c, s)
<1> USE DEF queueVars, tabVars, versionVars, Quiet
<1>1. chat[t] \in Chats /\ turn[t].chat \in Chats
  BY DEF TabTypes
<1>2. \A c \in Chats : \A o, b, last :
        Persist(t, c, o, b, last) =>
          \/ UNCHANGED <<queue, minted, latest>>
          \/ \E d \in Chats : \E s : Enqueue(t, d, s)
  BY DEF Persist
<1>3. CASE UserStep(t)
  BY <1>1, <1>2, <1>3 DEF UserStep, Edit, Undo, Redo, MoveTo, ResetToLLM, Switch
<1>4. CASE LoadStep(t)
  BY <1>4 DEF LoadStep, TranscriptRead, TranscriptShown, TranscriptFails
<1>5. CASE Submit(t) \/ TurnShown(t) \/ RejectionReads(t) \/ DecisionShown(t)
  BY <1>5 DEF Submit, TurnShown, RejectionReads, DecisionShown
<1>6. CASE OfferShown(t)
  <2>1. CASE chat[t] = turn[t].chat
    BY <1>6, <2>1 DEF OfferShown
  <2>2. CASE chat[t] # turn[t].chat
    BY <1>1, <1>2, <1>6, <2>2 DEF OfferShown
  <2>3. QED
    BY <2>1, <2>2
<1>7. CASE TurnAnswered(t) /\ UNCHANGED versionVars
  BY <1>7 DEF TurnAnswered
<1>8. QED
  BY <1>3, <1>4, <1>5, <1>6, <1>7 DEF TabStep

LEMMA StepKinds ==
  ASSUME SyncNext
  PROVE  \/ \E t \in Tabs : TabStep(t) \/ WriterStep(t) \/ QueueStep(t)
         \/ ServerStep
BY DEF SyncNext, TurnStep, TabStep, WriterStep

LEMMA TurnFieldsStay ==
  ASSUME NEW r, DOMAIN r = TurnFields, NEW s, NEW i, NEW o
  PROVE  /\ DOMAIN [r EXCEPT !.stage = s] = TurnFields
         /\ [r EXCEPT !.stage = s].chat = r.chat
         /\ DOMAIN [r EXCEPT !.stage = s, !.id = i] = TurnFields
         /\ [r EXCEPT !.stage = s, !.id = i].chat = r.chat
         /\ DOMAIN [r EXCEPT !.stage = s, !.other = o] = TurnFields
         /\ [r EXCEPT !.stage = s, !.other = o].chat = r.chat
         /\ DOMAIN [r EXCEPT !.stage = s, !.id = i, !.other = o] = TurnFields
         /\ [r EXCEPT !.stage = s, !.id = i, !.other = o].chat = r.chat
BY DEF TurnFields

LEMMA TabTypesStep ==
  ASSUME TabTypes, [SyncNext]_syncVars
  PROVE  TabTypes'
<1> USE DEF queueVars, tabVars, versionVars, Quiet
<1>1. ASSUME DOMAIN head' = Chats, UNCHANGED <<chat, turn>>,
             DOMAIN belief' = Tabs, DOMAIN loading' = Tabs
      PROVE  TabTypes'
  BY <1>1 DEF TabTypes
<1>2. ASSUME NEW t \in Tabs, UserStep(t)
      PROVE  TabTypes'
  BY <1>2 DEF UserStep, Edit, Undo, Redo, MoveTo, ResetToLLM, Switch, TabTypes
<1>3. ASSUME NEW t \in Tabs, LoadStep(t)
      PROVE  TabTypes'
  BY <1>3 DEF LoadStep, TranscriptRead, TranscriptShown, TranscriptFails, TabTypes
<1>4. ASSUME NEW t \in Tabs, QueueStep(t)
      PROVE  TabTypes'
  <2>1. UNCHANGED <<chat, turn, loading, head>> /\ DOMAIN belief' = Tabs
    BY <1>4 DEF QueueStep, FlushStarts, Beacon, HearsSaved, HearsStale, HearsRefused,
                AttemptFails, TabTypes
  <2>2. QED
    BY <1>1, <2>1 DEF TabTypes
<1>5. ASSUME ServerStep
      PROVE  TabTypes'
  <2>1. UNCHANGED <<chat, turn, loading, belief>> /\ DOMAIN head' = Chats
    BY <1>5 DEF ServerStep, BatchStep, BatchLoads, BatchResolves, BatchWrites, BatchFails,
                BatchRefused, CallLost, TabTypes
  <2>2. QED
    BY <1>1, <2>1 DEF TabTypes
<1>6. ASSUME NEW t \in Tabs, TurnStep(t)
      PROVE  TabTypes'
  <2>1. ASSUME NEW r, TurnGoes(t, r), DOMAIN r = TurnFields, r.chat \in Chats,
               DOMAIN head' = Chats, DOMAIN belief' = Tabs, DOMAIN loading' = Tabs,
               chat' \in [Tabs -> Chats]
        PROVE  TabTypes'
    BY <2>1 DEF TurnGoes, TabTypes
  <2>2. DOMAIN turn[t] = TurnFields /\ turn[t].chat \in Chats /\ chat[t] \in Chats
    BY DEF TabTypes
  <2>3. \A s, i, o : /\ DOMAIN [turn[t] EXCEPT !.stage = s] = TurnFields
                     /\ [turn[t] EXCEPT !.stage = s].chat \in Chats
                     /\ DOMAIN [turn[t] EXCEPT !.stage = s, !.id = i] = TurnFields
                     /\ [turn[t] EXCEPT !.stage = s, !.id = i].chat \in Chats
                     /\ DOMAIN [turn[t] EXCEPT !.stage = s, !.other = o] = TurnFields
                     /\ [turn[t] EXCEPT !.stage = s, !.other = o].chat \in Chats
                     /\ DOMAIN [turn[t] EXCEPT !.stage = s, !.id = i, !.other = o] = TurnFields
                     /\ [turn[t] EXCEPT !.stage = s, !.id = i, !.other = o].chat \in Chats
    BY <2>2, TurnFieldsStay
  <2>4. CASE Submit(t)
    <3> DEFINE r == [stage |-> "asked", chat |-> chat[t], id |-> 0, other |-> 0]
    <3>1. DOMAIN r = TurnFields /\ r.chat \in Chats /\ TurnGoes(t, r)
      BY <2>2, <2>4 DEF Submit, TurnFields
    <3> HIDE DEF r
    <3>2. QED
      BY <2>1, <2>4, <3>1 DEF Submit, TabTypes
  <2>5. CASE TurnAnswered(t)
    <3>1. UNCHANGED <<chat, belief, loading>> /\ DOMAIN head' = Chats
      BY <2>5 DEF TurnAnswered, Appends, TabTypes
    <3>2. \E r : TurnGoes(t, r) /\ DOMAIN r = TurnFields /\ r.chat \in Chats
      BY <2>3, <2>5 DEF TurnAnswered, TurnOver
    <3>3. QED
      BY <2>1, <3>1, <3>2 DEF TabTypes
  <2>6. CASE TurnShown(t)
    <3>1. UNCHANGED head /\ DOMAIN belief' = Tabs /\ DOMAIN loading' = Tabs
      BY <2>6 DEF TurnShown, Resolves, TabTypes
    <3>2. chat' \in [Tabs -> Chats]
      BY <2>2, <2>6 DEF TurnShown, TabTypes
    <3>3. \E r : TurnGoes(t, r) /\ DOMAIN r = TurnFields /\ r.chat \in Chats
      BY <2>3, <2>6 DEF TurnShown, TurnOver
    <3>4. QED
      BY <2>1, <3>1, <3>2, <3>3 DEF TabTypes
  <2>7. CASE OfferShown(t)
    <3>1. UNCHANGED <<head, belief>> /\ DOMAIN loading' = Tabs /\ chat' \in [Tabs -> Chats]
      BY <2>2, <2>7 DEF OfferShown, TabTypes
    <3>2. \E r : TurnGoes(t, r) /\ DOMAIN r = TurnFields /\ r.chat \in Chats
      BY <2>3, <2>7 DEF OfferShown
    <3>3. QED
      BY <2>1, <3>1, <3>2 DEF TabTypes
  <2>8. CASE ReplacementAccepted(t) \/ RejectionReads(t) \/ RejectionInserts(t) \/ RejectionMoves(t)
    <3>1. UNCHANGED <<chat, belief, loading>> /\ DOMAIN head' = Chats
      BY <2>8 DEF ReplacementAccepted, RejectionReads, RejectionInserts, RejectionMoves,
                  Accepts, RejectInserts, RejectMoves, TabTypes
    <3>2. \E r : TurnGoes(t, r) /\ DOMAIN r = TurnFields /\ r.chat \in Chats
      BY <2>3, <2>8 DEF ReplacementAccepted, RejectionReads, RejectionInserts, RejectionMoves
    <3>3. QED
      BY <2>1, <3>1, <3>2 DEF TabTypes
  <2>9. CASE DecisionShown(t)
    <3>1. UNCHANGED <<head, chat>> /\ DOMAIN belief' = Tabs /\ DOMAIN loading' = Tabs
      BY <2>9 DEF DecisionShown, Resolves, TabTypes
    <3>2. \E r : TurnGoes(t, r) /\ DOMAIN r = TurnFields /\ r.chat \in Chats
      BY <2>3, <2>9 DEF DecisionShown, TurnOver
    <3>3. QED
      BY <2>1, <3>1, <3>2 DEF TabTypes
  <2>10. QED
    BY <1>6, <2>4, <2>5, <2>6, <2>7, <2>8, <2>9 DEF TurnStep
<1>7. CASE UNCHANGED syncVars
  BY <1>7 DEF syncVars, TabTypes
<1>8. QED
  BY <1>2, <1>3, <1>4, <1>5, <1>6, <1>7 DEF SyncNext

-----------------------------------------------------------------------------
(* What the steps do to queues and calls *)

\* An enqueued score goes into one job: the last of the queue or a new one.
EnqueuedAs(t, s, k, wider) ==
  /\ \/ k \in KeysOf(queue[t]) /\ minted' = minted
     \/ k = minted + 1 /\ minted' = minted + 1
  /\ DOMAIN queue' = Tabs /\ \A u \in Tabs : u # t => queue'[u] = queue[u]
  /\ IsBatch(queue'[t], wider)
  /\ KeysOf(queue'[t]) = KeysOf(queue[t]) \cup {k}
  /\ \A j \in Elems(queue'[t]) : IF j.key = k THEN j.score = s ELSE j \in Elems(queue[t])
  /\ IsSeq(latest') /\ Len(latest') = minted' /\ latest'[k] = s
  /\ \A m \in 1 .. minted : m # k => latest'[m] = latest[m]

LEMMA EnqueueEffect ==
  ASSUME minted \in Nat, IsSeq(latest), Len(latest) = minted,
         NEW owner \in Owners, QueuesOf(owner),
         NEW t \in Tabs, NEW c \in Chats, NEW s, Enqueue(t, c, s)
  PROVE  \E wider \in [1 .. minted' -> Chats], k \in 1 .. minted' :
           /\ minted' \in Nat
           /\ \A m \in DOMAIN owner : m \in DOMAIN wider /\ wider[m] = owner[m]
           /\ EnqueuedAs(t, s, k, wider)
<1> DEFINE q == queue[t]
           n == Len(q)
<1>1. IsBatch(q, owner) /\ n \in Nat /\ DOMAIN q = 1 .. n /\ DOMAIN queue = Tabs
  BY SeqFacts DEF QueuesOf, IsBatch
<1>2. DOMAIN owner = 1 .. minted
  BY DEF Owners
<1>3. CASE n > 0 /\ q[n].chat = c
  <2>1. n \in DOMAIN q
    BY <1>1, <1>3
  <2> DEFINE k == q[n].key
             r == Rescored(q, n, s)
  <2>2. k \in 1 .. minted
    BY <1>1, <1>2, <2>1 DEF IsBatch
  <2>3. /\ queue' = [queue EXCEPT ![t] = r] /\ minted' = minted
        /\ latest' = [latest EXCEPT ![k] = s]
    BY <1>3 DEF Enqueue, Rescored
  <2>4. /\ IsBatch(r, owner) /\ DOMAIN r = DOMAIN q /\ KeysOf(r) = KeysOf(q)
        /\ r[n].key = k /\ r[n].score = s
        /\ \A i \in DOMAIN q : i # n => r[i] = q[i]
    <3>1. IsBatch(q, owner) /\ n \in DOMAIN q
      BY <1>1, <2>1
    <3> HIDE DEF q, n
    <3>2. QED
      BY <3>1, BatchRescored
  <2> HIDE DEF r
  <2>6. k \in KeysOf(q)
    BY <2>1 DEF KeysOf
  <2>7. \A i \in DOMAIN q : i # n => q[i].key # k
    <3>1. \A i \in DOMAIN q : i # n => i < n
      BY <1>1
    <3>2. \A i \in DOMAIN q : i # n => q[i].key < k /\ q[i].key \in Nat
      BY <1>1, <1>2, <2>1, <3>1 DEF IsBatch
    <3>3. QED
      BY <2>2, <3>2
  <2>8. \A j \in Elems(r) : IF j.key = k THEN j.score = s ELSE j \in Elems(q)
    BY <2>1, <2>4, <2>7 DEF Elems
  <2>9. IsSeq(latest') /\ Len(latest') = minted /\ latest'[k] = s
        /\ \A m \in 1 .. minted : m # k => latest'[m] = latest[m]
    <3> DEFINE S == Elems(latest) \cup {s}
    <3>1. latest \in Seq(S) /\ s \in S
      BY SeqMonotonic DEF IsSeq
    <3> HIDE DEF S
    <3>2. DOMAIN latest = 1 .. minted
      BY SeqFacts
    <3>3. latest' \in Seq(S) /\ Len(latest') = Len(latest)
      BY <2>2, <2>3, <3>1, ExceptSeq
    <3>4. IsSeq(latest')
      BY <3>3, SeqOf
    <3>5. QED
      BY <2>2, <2>3, <3>2, <3>3, <3>4
  <2>10. queue'[t] = r /\ DOMAIN queue' = Tabs /\ \A u \in Tabs : u # t => queue'[u] = queue[u]
    BY <1>1, <2>3
  <2>11. EnqueuedAs(t, s, k, owner)
    BY <2>3, <2>4, <2>6, <2>8, <2>9, <2>10 DEF EnqueuedAs
  <2>12. owner \in [1 .. minted' -> Chats] /\ k \in 1 .. minted' /\ minted' \in Nat
    BY <2>2, <2>3 DEF Owners
  <2> HIDE DEF k
  <2>13. QED
    BY <2>11, <2>12
<1>4. CASE ~(n > 0 /\ q[n].chat = c)
  <2> DEFINE k == minted + 1
             j == Job(c, s, k)
             wider == [m \in 1 .. k |-> IF m = k THEN c ELSE owner[m]]
  <2>1. /\ queue' = [queue EXCEPT ![t] = Append(q, j)] /\ minted' = k
        /\ latest' = Append(latest, s)
    BY <1>4 DEF Enqueue
  <2>2. k \in Nat /\ k \in 1 .. k /\ \A m \in 1 .. minted : m \in 1 .. k /\ m # k /\ m < k
    OBVIOUS
  <2>3. wider \in [1 .. k -> Chats] /\ DOMAIN wider = 1 .. k /\ wider[k] = c
    <3>1. \A m \in 1 .. k : m # k => m \in 1 .. minted
      OBVIOUS
    <3>2. QED
      BY <2>2, <3>1 DEF Owners
  <2>4. \A m \in DOMAIN owner : m \in DOMAIN wider /\ wider[m] = owner[m]
    BY <1>2, <2>2
  <2>5. DOMAIN j = JobFields /\ j.key = k /\ j.chat = c /\ j.score = s
    BY DEF Job, JobFields
  <2> HIDE DEF k, j, wider
  <2>6. IsBatch(q, wider)
    BY <1>1, <2>4, BatchWidened
  <2>7. \A m \in KeysOf(q) : m < k /\ m # k
    <3>1. KeysOf(q) \subseteq DOMAIN owner
      BY <1>1 DEF IsBatch, KeysOf
    <3>2. QED
      BY <1>2, <2>2, <3>1
  <2>8. /\ IsBatch(Append(q, j), wider)
        /\ Elems(Append(q, j)) = Elems(q) \cup {j}
        /\ KeysOf(Append(q, j)) = KeysOf(q) \cup {k}
    BY <2>2, <2>3, <2>5, <2>6, <2>7, BatchAppend
  <2>9. IsSeq(latest') /\ Len(latest') = k /\ latest'[k] = s
        /\ \A m \in 1 .. minted : latest'[m] = latest[m]
    BY <2>1, SeqAppend DEF k
  <2>10. \A i \in Elems(q) : i.key \in KeysOf(q)
    BY DEF Elems, KeysOf
  <2>11. \A i \in Elems(Append(q, j)) : IF i.key = k THEN i.score = s ELSE i \in Elems(q)
    BY <2>5, <2>7, <2>8, <2>10
  <2>12. /\ queue'[t] = Append(q, j) /\ DOMAIN queue' = Tabs
         /\ \A u \in Tabs : u # t => queue'[u] = queue[u]
    BY <1>1, <2>1
  <2>13. k = minted + 1
    BY DEF k
  <2>14. EnqueuedAs(t, s, k, wider)
    BY <2>1, <2>8, <2>9, <2>11, <2>12, <2>13 DEF EnqueuedAs
  <2>15. QED
    BY <2>1, <2>2, <2>3, <2>4, <2>14
<1>5. QED
  BY <1>3, <1>4

LEMMA CallIs ==
  ASSUME NEW n, NEW c \in Chats, NEW base, NEW jobs, NEW heard, NEW owner,
         IsBatch(jobs, owner), jobs # <<>>, OfChat(jobs, c)
  PROVE  IsCall(Call(n, c, base, jobs, heard), owner)
BY DEF IsCall, Call, CallFields

\* A call at another stage of its way, with the same content.
SameCall(q, r) ==
  /\ DOMAIN r = CallFields
  /\ r.n = q.n /\ r.chat = q.chat /\ r.base = q.base /\ r.jobs = q.jobs

LEMMA SameCallIs ==
  ASSUME NEW q, NEW r, NEW owner, IsCall(q, owner), SameCall(q, r)
  PROVE  IsCall(r, owner)
BY DEF IsCall, SameCall

LEMMA UnheardIs ==
  ASSUME NEW q, DOMAIN q = CallFields
  PROVE  /\ SameCall(q, Unheard(q)) /\ ~Unheard(q).heard
         /\ Unheard(q).stage = q.stage /\ Unheard(q).known = q.known
         /\ Unheard(q).seen = q.seen /\ Unheard(q).code = q.code
BY DEF Unheard, SameCall, CallFields

\* What becomes of a call the server works on: a reply nobody hears is none.
ServedAs(q, r) ==
  /\ SameCall(q, r) /\ r.heard = q.heard
  /\ \/ calls' = (calls \ {q}) \cup {r}
     \/ ~q.heard /\ calls' = calls \ {q} /\ r.stage = "answered"

LEMMA AnswerIs ==
  ASSUME NEW q, DOMAIN q = CallFields, NEW code, NEW v, Answer(q, code, v)
  PROVE  \E r : /\ ServedAs(q, r)
                /\ r.stage = "answered" /\ r.code = code /\ r.seen = v /\ r.known = {}
<1> DEFINE r == [q EXCEPT !.stage = "answered", !.code = code, !.seen = v, !.known = {}]
<1>1. /\ SameCall(q, r) /\ r.heard = q.heard
      /\ r.stage = "answered" /\ r.code = code /\ r.seen = v /\ r.known = {}
  BY DEF SameCall, CallFields
<1>2. \/ calls' = (calls \ {q}) \cup {r}
      \/ ~q.heard /\ calls' = calls \ {q}
  BY DEF Answer, Becomes
<1> HIDE DEF r
<1>3. QED
  BY <1>1, <1>2 DEF ServedAs

KnownKeys(q) == {k \in KeysOf(q.jobs) : RowsWithKey(k) # {}}

\* The ways a step of the server can end.
ServerKind(q, r) ==
  \/ UNCHANGED <<rows, head>> /\ r.stage = "loaded" /\ r.seen = head[q.chat]
  \/ /\ UNCHANGED <<rows, head>> /\ q.stage = "loaded" /\ KnownKeys(q) # KeysOf(q.jobs)
     /\ q.base = q.seen /\ r.stage = "checked" /\ r.known = KnownKeys(q) /\ r.seen = q.seen
  \/ /\ UNCHANGED <<rows, head>> /\ r.stage = "answered" /\ r.code \in {400, 500} /\ r.seen = 0
  \/ /\ UNCHANGED <<rows, head>> /\ r.stage = "answered" /\ r.code = 409
     /\ r.seen \in {q.seen, head[q.chat]}
  \/ /\ UNCHANGED <<rows, head>> /\ r.stage = "answered" /\ r.code = 200
     /\ KnownKeys(q) = KeysOf(q.jobs)
     /\ r.seen = CHOOSE v \in RowsWithKey(q.jobs[Len(q.jobs)].key) : TRUE
  \/ /\ q.stage = "checked" /\ q.base = head[q.chat]
     /\ r.stage = "answered" /\ r.code = 200
     /\ rows' = Chained(q).table /\ r.seen = Chained(q).prev
     /\ head' = [head EXCEPT ![q.chat] = Chained(q).prev]

LEMMA ServerKinds ==
  ASSUME ServerStep, NEW owner, CallsOf(owner)
  PROVE  \E q \in calls : \E r :
           /\ (BatchStep(q) /\ Normal) \/ (BatchFails(q) /\ Faulty)
           /\ ServedAs(q, r) /\ ServerKind(q, r)
<1>1. PICK q \in calls : (BatchStep(q) /\ Normal) \/ (BatchFails(q) /\ Faulty)
  BY DEF ServerStep
<1>2. DOMAIN q = CallFields
  BY DEF CallsOf, IsCall
<1>3. SUFFICES \E r : ServedAs(q, r) /\ ServerKind(q, r)
  BY <1>1
<1>4. ASSUME NEW r, r = [q EXCEPT !.stage = "loaded", !.seen = head[q.chat]]
      PROVE  /\ SameCall(q, r) /\ r.heard = q.heard
             /\ r.stage = "loaded" /\ r.seen = head[q.chat]
  BY <1>2, <1>4 DEF SameCall, CallFields
<1>5. ASSUME NEW r, r = [q EXCEPT !.stage = "checked", !.known = KnownKeys(q)]
      PROVE  /\ SameCall(q, r) /\ r.heard = q.heard /\ r.seen = q.seen
             /\ r.stage = "checked" /\ r.known = KnownKeys(q)
  BY <1>2, <1>5 DEF SameCall, CallFields
<1>6. CASE BatchLoads(q)
  <2>1. PICK r : r = [q EXCEPT !.stage = "loaded", !.seen = head[q.chat]]
    OBVIOUS
  <2>2. ServedAs(q, r) /\ UNCHANGED <<rows, head>>
    BY <1>4, <1>6, <2>1 DEF BatchLoads, Becomes, ServedAs
  <2>3. QED
    BY <1>4, <2>1, <2>2 DEF ServerKind
<1>7. CASE BatchResolves(q)
  <2>1. q.stage = "loaded" /\ UNCHANGED <<rows, head>>
    BY <1>7 DEF BatchResolves
  <2>2. CASE KnownKeys(q) = KeysOf(q.jobs)
    <3>1. Answer(q, 200, CHOOSE v \in RowsWithKey(q.jobs[Len(q.jobs)].key) : TRUE)
      BY <1>7, <2>2 DEF BatchResolves, KnownKeys
    <3>2. QED
      BY <1>2, <2>1, <2>2, <3>1, AnswerIs DEF ServerKind
  <2>3. CASE KnownKeys(q) # KeysOf(q.jobs) /\ Stale(q, q.seen)
    <3>1. Answer(q, 409, q.seen)
      BY <1>7, <2>3 DEF BatchResolves, KnownKeys
    <3>2. QED
      BY <1>2, <2>1, <3>1, AnswerIs DEF ServerKind
  <2>4. CASE KnownKeys(q) # KeysOf(q.jobs) /\ ~Stale(q, q.seen)
    <3>1. PICK r : r = [q EXCEPT !.stage = "checked", !.known = KnownKeys(q)]
      OBVIOUS
    <3>2. Becomes(q, r)
      BY <1>7, <2>4, <3>1 DEF BatchResolves, KnownKeys
    <3>3. ServedAs(q, r)
      BY <1>5, <3>1, <3>2 DEF ServedAs, Becomes
    <3>4. QED
      BY <1>5, <2>1, <2>4, <3>1, <3>3 DEF ServerKind, Stale
  <2>5. QED
    BY <2>2, <2>3, <2>4
<1>8. CASE BatchWrites(q)
  <2>1. CASE Stale(q, head[q.chat]) /\ Answer(q, 409, head[q.chat]) /\ UNCHANGED <<rows, head>>
    BY <1>2, <2>1, AnswerIs DEF ServerKind
  <2>2. CASE /\ ~Stale(q, head[q.chat]) /\ rows' = Chained(q).table
             /\ head' = [head EXCEPT ![q.chat] = Chained(q).prev]
             /\ Answer(q, 200, Chained(q).prev)
    BY <1>2, <1>8, <2>2, AnswerIs DEF ServerKind, Stale, BatchWrites
  <2>3. QED
    BY <1>8, <2>1, <2>2 DEF BatchWrites
<1>9. CASE BatchFails(q)
  BY <1>2, <1>9, AnswerIs DEF BatchFails, BatchRefused, CallLost, ServerKind
<1>10. QED
  BY <1>1, <1>6, <1>7, <1>8, <1>9 DEF BatchStep

LEMMA NothingInFlush ==
  ASSUME NEW owner
  PROVE  /\ IsFlush(NoFlush, owner) /\ NoFlush.jobs = <<>> /\ NoFlush.base = 0
         /\ KeysOf(<<>>) = {} /\ \A s : Before(<<>>, s)
<1>1. <<>> \in Seq(Elems(<<>>)) /\ DOMAIN <<>> = {}
  BY EmptySeq, LenProperties
<1>2. QED
  BY <1>1 DEF IsFlush, NoFlush, FlushFields, IsBatch, IsSeq, KeysOf, Before

LEMMA TriesAgainIs ==
  ASSUME DOMAIN flush = Tabs, NEW t \in Tabs, DOMAIN flush[t] = FlushFields,
         NEW base, NEW rest, TriesAgain(t, base, rest)
  PROVE  /\ DOMAIN flush' = Tabs /\ \A u \in Tabs : u # t => flush'[u] = flush[u]
         /\ DOMAIN flush'[t] = FlushFields /\ flush'[t].jobs = flush[t].jobs
         /\ flush'[t].base = base /\ flush'[t].call = NextNumber(rest)
         /\ NextNumber(rest) \in FreeNumbers(rest)
         /\ calls' = rest \cup {Call(NextNumber(rest), flush[t].jobs[1].chat, base,
                                     flush[t].jobs, TRUE)}
<1> DEFINE n == NextNumber(rest)
<1>1. flush' = [flush EXCEPT ![t].attempt = @ + 1, ![t].base = base, ![t].call = n]
  BY DEF TriesAgain
<1> HIDE DEF n
<1>2. /\ DOMAIN flush' = Tabs /\ \A u \in Tabs : u # t => flush'[u] = flush[u]
      /\ DOMAIN flush'[t] = FlushFields /\ flush'[t].jobs = flush[t].jobs
      /\ flush'[t].base = base /\ flush'[t].call = n
  BY <1>1 DEF FlushFields
<1>3. QED
  BY <1>2, NumberIsFree DEF n, TriesAgain, Sends

\* A step of one tab's queue keeps the shape, whatever it sends.
LEMMA QueuesFrom ==
  ASSUME NEW owner, QueuesOf(owner), NEW t \in Tabs,
         DOMAIN queue' = Tabs, DOMAIN flush' = Tabs,
         \A u \in Tabs : u # t => queue'[u] = queue[u] /\ flush'[u] = flush[u],
         IsBatch(queue'[t], owner), IsFlush(flush'[t], owner),
         Before(flush'[t].jobs, queue'[t])
  PROVE  QueuesOf(owner)'
BY DEF QueuesOf

LEMMA QueuesStep ==
  ASSUME NEW owner \in Owners, QueuesOf(owner), CallsOf(owner),
         NEW t \in Tabs, QueueStep(t)
  PROVE  QueuesOf(owner)' /\ CallsOf(owner)'
<1> DEFINE s == queue[t]
           f == flush[t]
<1>1. /\ IsBatch(s, owner) /\ IsFlush(f, owner) /\ Before(f.jobs, s)
      /\ DOMAIN queue = Tabs /\ DOMAIN flush = Tabs
      /\ DOMAIN owner \subseteq Nat /\ \A k \in DOMAIN owner : owner[k] \in Chats
  BY DEF QueuesOf, Owners
<1>2. \A q \in calls : IsCall(q, owner)
  BY DEF CallsOf
<1>3. ASSUME s # <<>>
      PROVE  /\ IsBatch(Run(t), owner) /\ IsBatch(AfterRun(t), owner)
             /\ Run(t) # <<>> /\ Run(t)[1].chat \in Chats /\ OfChat(Run(t), Run(t)[1].chat)
             /\ Before(Run(t), AfterRun(t)) /\ KeysOf(AfterRun(t)) \subseteq KeysOf(s)
             /\ \A n, base, heard : IsCall(Call(n, Run(t)[1].chat, base, Run(t), heard), owner)
  <2>1. /\ IsBatch(Run(t), owner) /\ IsBatch(AfterRun(t), owner)
        /\ Run(t) # <<>> /\ OfChat(Run(t), Run(t)[1].chat)
        /\ Run(t)[1].chat \in {owner[k] : k \in KeysOf(Run(t))}
        /\ Before(Run(t), AfterRun(t)) /\ KeysOf(AfterRun(t)) \subseteq KeysOf(s)
    BY <1>1, <1>3, RunSplits
  <2>2. Run(t)[1].chat \in Chats
    BY <1>1, <2>1 DEF KeysOf, IsBatch
  <2>3. QED
    BY <2>1, <2>2, CallIs
<1>4. ASSUME NEW base, NEW rest, Flushing(t), TriesAgain(t, base, rest), UNCHANGED queue,
             \A r \in rest : IsCall(r, owner)
      PROVE  QueuesOf(owner)' /\ CallsOf(owner)'
  <2>1. f.jobs # <<>> /\ f.jobs[1].chat \in Chats /\ OfChat(f.jobs, f.jobs[1].chat)
    BY <1>1, <1>4 DEF IsFlush, Flushing
  <2>2. /\ DOMAIN flush' = Tabs /\ \A u \in Tabs : u # t => flush'[u] = flush[u]
        /\ DOMAIN flush'[t] = FlushFields /\ flush'[t].jobs = f.jobs
        /\ calls' = rest \cup {Call(NextNumber(rest), f.jobs[1].chat, base, f.jobs, TRUE)}
    BY <1>1, <1>4, TriesAgainIs DEF IsFlush
  <2>3. IsFlush(flush'[t], owner) /\ Before(flush'[t].jobs, queue'[t])
    BY <1>1, <1>4, <2>1, <2>2 DEF IsFlush
  <2>4. QueuesOf(owner)'
    BY <1>1, <1>4, <2>2, <2>3, QueuesFrom
  <2>5. IsCall(Call(NextNumber(rest), f.jobs[1].chat, base, f.jobs, TRUE), owner)
    <3>1. IsBatch(f.jobs, owner)
      BY <1>1 DEF IsFlush
    <3> DEFINE jobs == f.jobs
               c == jobs[1].chat
    <3>2. c \in Chats /\ IsBatch(jobs, owner) /\ jobs # <<>> /\ OfChat(jobs, c)
      BY <2>1, <3>1
    <3> HIDE DEF jobs, c
    <3>3. \A n, heard : IsCall(Call(n, c, base, jobs, heard), owner)
      BY <3>2, CallIs
    <3>4. QED
      BY <3>3 DEF jobs, c
  <2>6. CallsOf(owner)'
    BY <1>4, <2>2, <2>5 DEF CallsOf
  <2>7. QED
    BY <2>4, <2>6
<1>5. ASSUME Done(t), UNCHANGED queue
      PROVE  QueuesOf(owner)'
  <2>1. DOMAIN flush' = Tabs /\ flush'[t] = NoFlush /\ \A u \in Tabs : u # t => flush'[u] = flush[u]
    BY <1>1, <1>5 DEF Done
  <2>2. QED
    BY <1>1, <1>5, <2>1, NothingInFlush, QueuesFrom
<1>6. ASSUME \A r \in calls' : r \in calls \/ \E q \in calls : SameCall(q, r)
      PROVE  CallsOf(owner)'
  BY <1>2, <1>6, SameCallIs DEF CallsOf
<1>7. CASE FlushStarts(t)
  <2>1. s # <<>> /\ ~Flushing(t)
    BY <1>7 DEF FlushStarts
  <2>2. /\ DOMAIN queue' = Tabs /\ queue'[t] = AfterRun(t)
        /\ \A u \in Tabs : u # t => queue'[u] = queue[u] /\ flush'[u] = flush[u]
        /\ DOMAIN flush' = Tabs
        /\ DOMAIN flush'[t] = FlushFields /\ flush'[t].jobs = Run(t)
        /\ calls' = calls \cup {Call(NextNumber(calls), Run(t)[1].chat, belief[t], Run(t), TRUE)}
    BY <1>1, <1>7 DEF FlushStarts, Sends, FlushFields
  <2>3. IsFlush(flush'[t], owner)
    BY <1>3, <2>1, <2>2 DEF IsFlush
  <2>4. QueuesOf(owner)'
    BY <1>1, <1>3, <2>1, <2>2, <2>3, QueuesFrom
  <2>5. CallsOf(owner)'
    BY <1>2, <1>3, <2>1, <2>2 DEF CallsOf
  <2>6. QED
    BY <2>4, <2>5
<1>8. CASE Beacon(t)
  <2>1. s # <<>> /\ UNCHANGED flush
    BY <1>8 DEF Beacon
  <2>2. /\ DOMAIN queue' = Tabs /\ queue'[t] = AfterRun(t)
        /\ \A u \in Tabs : u # t => queue'[u] = queue[u]
        /\ calls' = calls \cup {Call(NextNumber(calls), Run(t)[1].chat, belief[t], Run(t), FALSE)}
    BY <1>1, <1>8 DEF Beacon, Sends
  <2>3. Before(flush'[t].jobs, queue'[t])
    BY <1>1, <1>3, <2>1, <2>2 DEF Before
  <2>4. QueuesOf(owner)'
    BY <1>1, <1>3, <2>1, <2>2, <2>3, QueuesFrom
  <2>5. CallsOf(owner)'
    BY <1>2, <1>3, <2>1, <2>2 DEF CallsOf
  <2>6. QED
    BY <2>4, <2>5
<1>9. ASSUME NEW q \in calls, HearsSaved(t, q) \/ HearsRefused(t, q)
      PROVE  QueuesOf(owner)' /\ CallsOf(owner)'
  BY <1>5, <1>6, <1>9 DEF HearsSaved, HearsRefused, GivesUp
<1>10. ASSUME NEW q \in calls, HearsStale(t, q)
       PROVE  QueuesOf(owner)' /\ CallsOf(owner)'
  <2>1. CASE TriesAgain(t, q.seen, calls \ {q}) /\ UNCHANGED queue
    BY <1>2, <1>4, <1>10, <2>1 DEF HearsStale, Awaited
  <2>2. CASE PutBack(t) /\ Done(t) /\ calls' = calls \ {q}
    <3>1. IsBatch(f.jobs \o s, owner)
      BY <1>1, BatchConcat DEF IsFlush
    <3>2. DOMAIN flush' = Tabs /\ flush'[t] = NoFlush /\ \A u \in Tabs : u # t => flush'[u] = flush[u]
      BY <1>1, <2>2 DEF Done
    <3>3. DOMAIN queue' = Tabs /\ queue'[t] = f.jobs \o s /\ \A u \in Tabs : u # t => queue'[u] = queue[u]
      BY <1>1, <2>2 DEF PutBack
    <3>4. QueuesOf(owner)'
      BY <3>1, <3>2, <3>3, NothingInFlush, QueuesFrom
    <3>5. QED
      BY <1>6, <2>2, <3>4
  <2>3. QED
    BY <1>10, <2>1, <2>2 DEF HearsStale
<1>11. ASSUME NEW q \in calls, AttemptFails(t, q)
       PROVE  QueuesOf(owner)' /\ CallsOf(owner)'
  <2>1. PICK rest \in {calls \ {q}, (calls \ {q}) \cup {Unheard(q)}} :
          \/ TriesAgain(t, flush[t].base, rest)
          \/ GivesUp(t) /\ calls' = rest
    BY <1>11 DEF AttemptFails
  <2>2. SameCall(q, Unheard(q))
    BY <1>2, UnheardIs DEF IsCall
  <2>3. \A r \in rest : r \in calls \/ SameCall(q, r)
    BY <2>1, <2>2
  <2>4. \A r \in rest : IsCall(r, owner)
    BY <1>2, <2>3, SameCallIs
  <2>5. UNCHANGED queue /\ Flushing(t)
    BY <1>11 DEF AttemptFails
  <2>6. CASE TriesAgain(t, flush[t].base, rest)
    BY <1>4, <2>4, <2>5, <2>6
  <2>7. CASE GivesUp(t) /\ calls' = rest
    BY <1>5, <1>6, <2>3, <2>5, <2>7 DEF GivesUp
  <2>8. QED
    BY <2>1, <2>6, <2>7
<1>12. QED
  BY <1>7, <1>8, <1>9, <1>10, <1>11 DEF QueueStep

LEMMA SetInduction ==
  ASSUME NEW S, 0 \in S, \A n \in Nat : n \in S => n + 1 \in S
  PROVE  Nat \subseteq S
<1> DEFINE T == Nat \ S
<1> DEFINE R == OpToRel(<, Nat)
<1>1. SUFFICES ASSUME T # {} PROVE FALSE
  OBVIOUS
<1>2. T \subseteq Nat
  OBVIOUS
<1>3. IsWellFoundedOn(R, Nat)
  BY NatLessThanWellFounded
<1>4. \A x, y \in Nat : y < x => <<y, x>> \in R
  BY DEF OpToRel
<1> HIDE DEF R
<1>5. PICK x \in T : \A y \in T : ~(<<y, x>> \in R)
  BY <1>1, <1>2, <1>3, WFMin
<1>6. x # 0 /\ x \in Nat
  OBVIOUS
<1>7. x - 1 \in Nat /\ x - 1 < x /\ (x - 1) + 1 = x
  BY <1>6
<1>8. x - 1 \in S
  BY <1>4, <1>5, <1>6, <1>7
<1>9. QED
  BY <1>7, <1>8

-----------------------------------------------------------------------------
(* The loop of the batch route *)

ChainStart(q) == [table |-> rows, prev |-> q.base]
ChainStep(q, done, i) ==
  IF q.jobs[i].key \in q.known
    THEN [done EXCEPT !.prev = CHOOSE v \in RowsWithKey(q.jobs[i].key) : TRUE]
    ELSE [table |-> Append(done.table,
                           Row(q.chat, done.prev, q.jobs[i].score, q.jobs[i].key)),
          prev |-> Len(done.table) + 1]
ChainRun(q, f, n) ==
  /\ f[0] = ChainStart(q)
  /\ \A i \in 1 .. n : f[i] = ChainStep(q, f[i - 1], i)

LEMMA ChainedRuns ==
  ASSUME NEW q, Len(q.jobs) \in Nat
  PROVE  \E f : ChainRun(q, f, Len(q.jobs)) /\ Chained(q) = f[Len(q.jobs)]
<1> DEFINE m == Len(q.jobs)
           S == {n \in Nat : \E f : ChainRun(q, f, n)}
<1>1. 0 \in S
  <2>1. ChainRun(q, [i \in 0 .. 0 |-> ChainStart(q)], 0)
    BY DEF ChainRun
  <2>2. QED
    BY <2>1
<1>2. ASSUME NEW n \in Nat, n \in S
      PROVE  n + 1 \in S
  <2>1. PICK f : ChainRun(q, f, n)
    BY <1>2
  <2> DEFINE g == [i \in 0 .. n + 1 |-> IF i <= n THEN f[i] ELSE ChainStep(q, f[n], i)]
  <2>2. \A i \in 0 .. n : g[i] = f[i]
    OBVIOUS
  <2>3. g[n + 1] = ChainStep(q, f[n], n + 1)
    OBVIOUS
  <2> HIDE DEF g
  <2>4. ASSUME NEW i \in 1 .. n + 1
        PROVE  g[i] = ChainStep(q, g[i - 1], i)
    <3>1. CASE i = n + 1
      <4>1. i - 1 = n /\ n \in 0 .. n
        BY <3>1
      <4>2. QED
        BY <2>2, <2>3, <3>1, <4>1
    <3>2. CASE i # n + 1
      <4>1. i \in 1 .. n /\ i \in 0 .. n /\ i - 1 \in 0 .. n
        BY <3>2
      <4>2. f[i] = ChainStep(q, f[i - 1], i)
        BY <2>1, <4>1 DEF ChainRun
      <4>3. QED
        BY <2>2, <4>1, <4>2
    <3>3. QED
      BY <3>1, <3>2
  <2>5. g[0] = ChainStart(q)
    BY <2>1, <2>2 DEF ChainRun
  <2>6. QED
    BY <2>4, <2>5 DEF ChainRun
<1> HIDE DEF S
<1>3. m \in S
  BY <1>1, <1>2, SetInduction
<1>4. PICK f : ChainRun(q, f, m)
  BY <1>3 DEF S
<1> DEFINE F(h) == [i \in 0 .. m |-> IF i = 0 THEN ChainStart(q) ELSE ChainStep(q, h[i - 1], i)]
           g == [i \in 0 .. m |-> f[i]]
           up == CHOOSE h : h = F(h)
<1>5. g = F(g)
  <2>1. \A i \in 0 .. m : i # 0 => i \in 1 .. m /\ i - 1 \in 0 .. m
    OBVIOUS
  <2>2. ASSUME NEW i \in 0 .. m
        PROVE  g[i] = IF i = 0 THEN ChainStart(q) ELSE ChainStep(q, g[i - 1], i)
    <3>1. CASE i = 0
      BY <1>4, <3>1 DEF ChainRun
    <3>2. CASE i # 0
      <4>1. g[i] = f[i] /\ g[i - 1] = f[i - 1]
        BY <2>1, <3>2
      <4>2. f[i] = ChainStep(q, f[i - 1], i)
        BY <1>4, <2>1, <3>2 DEF ChainRun
      <4> HIDE DEF g
      <4>3. QED
        BY <3>2, <4>1, <4>2
    <3>3. QED
      BY <3>1, <3>2
  <2>3. QED
    BY <2>2
<1>6. up = F(up)
  <2> HIDE DEF F, g
  <2>1. QED
    BY <1>5
<1>7. Chained(q) = up[m]
  BY DEF Chained, ChainStart, ChainStep
<1> HIDE DEF up
<1>8. ChainRun(q, up, m)
  <2>1. /\ 0 \in 0 .. m
        /\ \A i \in 1 .. m : i \in 0 .. m /\ i # 0
    OBVIOUS
  <2>2. \A i \in 0 .. m : up[i] = IF i = 0 THEN ChainStart(q) ELSE ChainStep(q, up[i - 1], i)
    BY <1>6
  <2>3. QED
    BY <2>1, <2>2 DEF ChainRun
<1>9. QED
  BY <1>7, <1>8

\* Row v of a chain was written for job i of the batch.
WrittenFor(q, table, v, i) ==
  /\ q.jobs[i].key \notin q.known
  /\ table[v].chat = q.chat /\ table[v].key = q.jobs[i].key /\ table[v].score = q.jobs[i].score
  /\ table[v].parent \in 1 .. v - 1 /\ table[table[v].parent].chat = q.chat

\* The chain after n jobs: the old rows stay, each unknown job has one row
\* under a row of its session, and the pointer is at the last one.
ChainSound(q, done, n) ==
  /\ DOMAIN done = {"table", "prev"}
  /\ IsSeq(done.table) /\ Len(rows) <= Len(done.table)
  /\ \A v \in Ids : done.table[v] = rows[v]
  /\ \A v \in Len(rows) + 1 .. Len(done.table) : \E i \in 1 .. n : WrittenFor(q, done.table, v, i)
  /\ \A i \in 1 .. n : q.jobs[i].key \notin q.known =>
       \E v \in Len(rows) + 1 .. Len(done.table) : done.table[v].key = q.jobs[i].key
  /\ \A v, w \in Len(rows) + 1 .. Len(done.table) :
       done.table[v].key = done.table[w].key => v = w
  /\ done.prev \in 1 .. Len(done.table) /\ done.table[done.prev].chat = q.chat
  /\ n > 0 /\ q.jobs[n].key \notin q.known => done.prev > Len(rows)

\* A call the transaction may run.
Writable(q) ==
  /\ q.base \in Ids /\ rows[q.base].chat = q.chat
  /\ \A k \in KeysOf(q.jobs) \cap q.known : RowsWithKey(k) # {}
  /\ \A k \in KeysOf(q.jobs) : \A v \in RowsWithKey(k) : rows[v].chat = q.chat

LEMMA ChainStepSound ==
  ASSUME IsSeq(rows), NEW q, NEW owner, DOMAIN owner \subseteq Nat,
         IsBatch(q.jobs, owner), Writable(q),
         NEW n \in Nat, n + 1 \in DOMAIN q.jobs, NEW done, ChainSound(q, done, n)
  PROVE  ChainSound(q, ChainStep(q, done, n + 1), n + 1)
<1> DEFINE job == q.jobs[n + 1]
           N == Len(rows)
           m == Len(done.table)
<1>1. /\ N \in Nat /\ Ids = 1 .. N /\ m \in Nat /\ N <= m /\ IsSeq(done.table)
      /\ DOMAIN done.table = 1 .. m
  BY SeqFacts DEF Ids, ChainSound
<1>2. /\ job.key \in KeysOf(q.jobs) /\ \A i \in 1 .. n : i \in DOMAIN q.jobs /\ q.jobs[i].key < job.key
  <2>1. DOMAIN q.jobs = 1 .. Len(q.jobs) /\ Len(q.jobs) \in Nat
    BY SeqFacts DEF IsBatch
  <2>2. \A i \in 1 .. n : i \in DOMAIN q.jobs /\ i < n + 1
    BY <2>1
  <2>3. QED
    BY <2>2 DEF IsBatch, KeysOf
<1>3. CASE job.key \in q.known
  <2> DEFINE p == CHOOSE v \in RowsWithKey(job.key) : TRUE
             next == [done EXCEPT !.prev = p]
  <2>1. ChainStep(q, done, n + 1) = next
    BY <1>3 DEF ChainStep
  <2>2. p \in Ids /\ rows[p].chat = q.chat
    BY <1>2, <1>3 DEF Writable, RowsWithKey
  <2> HIDE DEF p
  <2>3. DOMAIN next = {"table", "prev"} /\ next.table = done.table /\ next.prev = p
    BY DEF ChainSound
  <2> HIDE DEF next
  <2>4. p \in 1 .. m /\ done.table[p].chat = q.chat
    BY <1>1, <2>2 DEF ChainSound
  <2>5. \A i \in 1 .. n + 1 : i \in 1 .. n \/ i = n + 1
    OBVIOUS
  <2>6. \A i \in 1 .. n : i \in 1 .. n + 1
    OBVIOUS
  <2>7. \A v \in N + 1 .. m : \E i \in 1 .. n + 1 : WrittenFor(q, done.table, v, i)
    BY <2>6 DEF ChainSound
  <2>8. ASSUME NEW i \in 1 .. n + 1, q.jobs[i].key \notin q.known
        PROVE  \E v \in N + 1 .. m : done.table[v].key = q.jobs[i].key
    BY <1>3, <2>5, <2>8 DEF ChainSound
  <2>9. ChainSound(q, next, n + 1)
    BY <1>3, <2>3, <2>4, <2>7, <2>8 DEF ChainSound
  <2>10. QED
    BY <2>1, <2>9
<1>4. CASE job.key \notin q.known
  <2> DEFINE row == Row(q.chat, done.prev, job.score, job.key)
             table == Append(done.table, row)
             next == [table |-> table, prev |-> m + 1]
  <2>1. ChainStep(q, done, n + 1) = next
    BY <1>4 DEF ChainStep
  <2>2. row.chat = q.chat /\ row.parent = done.prev /\ row.score = job.score /\ row.key = job.key
    BY DEF Row
  <2> HIDE DEF row
  <2>3. /\ IsSeq(table) /\ Len(table) = m + 1 /\ table[m + 1] = row
        /\ \A v \in 1 .. m : table[v] = done.table[v]
    BY <1>1, SeqAppend
  <2> HIDE DEF table
  <2>4. DOMAIN next = {"table", "prev"} /\ next.table = table /\ next.prev = m + 1
    OBVIOUS
  <2> HIDE DEF next
  <2>5. \A v \in N + 1 .. m : v \in 1 .. m /\ table[v] = done.table[v] /\ table[v].key # job.key
    <3>1. ASSUME NEW v \in N + 1 .. m
          PROVE  v \in 1 .. m /\ done.table[v].key # job.key
      <4>1. v \in 1 .. m
        BY <1>1
      <4>2. PICK i \in 1 .. n : WrittenFor(q, done.table, v, i)
        BY DEF ChainSound
      <4>3. done.table[v].key = q.jobs[i].key /\ q.jobs[i].key < job.key
        BY <1>2, <4>2 DEF WrittenFor
      <4>4. q.jobs[i].key \in Nat /\ job.key \in Nat
        BY <1>2 DEF IsBatch
      <4>5. QED
        BY <4>1, <4>3, <4>4
    <3>2. QED
      BY <2>3, <3>1
  <2>6. \A v \in N + 1 .. m + 1 : v \in N + 1 .. m \/ v = m + 1
    BY <1>1
  <2>7. m + 1 \in N + 1 .. m + 1 /\ m + 1 \in 1 .. m + 1 /\ m + 1 > N
        /\ \A v \in N + 1 .. m : v \in N + 1 .. m + 1
    BY <1>1
  <2>8. n + 1 \in 1 .. n + 1 /\ \A i \in 1 .. n : i \in 1 .. n + 1
    OBVIOUS
  <2>9. \A v \in Ids : table[v] = rows[v]
    BY <1>1, <2>3 DEF ChainSound
  <2>10. ASSUME NEW v \in N + 1 .. m + 1
         PROVE  \E i \in 1 .. n + 1 : WrittenFor(q, table, v, i)
    <3>1. CASE v = m + 1
      <4>1. row.parent \in 1 .. m /\ done.table[row.parent].chat = q.chat
        BY <2>2 DEF ChainSound
      <4>2. table[row.parent].chat = q.chat /\ row.parent \in 1 .. (m + 1) - 1
        BY <1>1, <2>3, <4>1
      <4>3. WrittenFor(q, table, m + 1, n + 1)
        BY <1>4, <2>2, <2>3, <4>2 DEF WrittenFor
      <4>4. QED
        BY <2>8, <3>1, <4>3
    <3>2. CASE v \in N + 1 .. m
      <4>1. PICK i \in 1 .. n : WrittenFor(q, done.table, v, i)
        BY <3>2 DEF ChainSound
      <4>2. table[v] = done.table[v] /\ v \in 1 .. m
        BY <2>5, <3>2
      <4>3. done.table[v].parent \in 1 .. v - 1
        BY <4>1 DEF WrittenFor
      <4>4. done.table[v].parent \in 1 .. m
        BY <1>1, <4>2, <4>3
      <4>5. table[done.table[v].parent] = done.table[done.table[v].parent]
        BY <2>3, <4>4
      <4>6. WrittenFor(q, table, v, i)
        BY <4>1, <4>2, <4>5 DEF WrittenFor
      <4>7. QED
        BY <2>8, <4>6
    <3>3. QED
      BY <2>6, <3>1, <3>2
  <2>11. ASSUME NEW i \in 1 .. n + 1, q.jobs[i].key \notin q.known
         PROVE  \E v \in N + 1 .. m + 1 : table[v].key = q.jobs[i].key
    <3>1. CASE i = n + 1
      BY <2>2, <2>3, <2>7, <3>1
    <3>2. CASE i \in 1 .. n
      <4>1. PICK v \in N + 1 .. m : done.table[v].key = q.jobs[i].key
        BY <2>11, <3>2 DEF ChainSound
      <4>2. QED
        BY <2>5, <2>7, <4>1
    <3>3. QED
      BY <3>1, <3>2
  <2>12. ASSUME NEW v \in N + 1 .. m + 1, NEW w \in N + 1 .. m + 1, table[v].key = table[w].key
         PROVE  v = w
    <3>1. table[m + 1].key = job.key
      BY <2>2, <2>3
    <3>2. CASE v \in N + 1 .. m /\ w \in N + 1 .. m
      BY <2>5, <2>12, <3>2 DEF ChainSound
    <3>3. QED
      BY <2>5, <2>6, <2>12, <3>1, <3>2
  <2>13. table[m + 1].chat = q.chat
    BY <2>2, <2>3
  <2>14. N <= m + 1
    BY <1>1
  <2>15. ChainSound(q, next, n + 1)
    <3>1. next.prev \in 1 .. Len(next.table) /\ next.table[next.prev].chat = q.chat /\ next.prev > N
      BY <2>3, <2>4, <2>7, <2>13
    <3>2. IsSeq(next.table) /\ N <= Len(next.table) /\ \A v \in Ids : next.table[v] = rows[v]
      BY <2>3, <2>4, <2>9, <2>14
    <3>3. \A v \in N + 1 .. Len(next.table) : \E i \in 1 .. n + 1 : WrittenFor(q, next.table, v, i)
      BY <2>3, <2>4, <2>10
    <3>4. \A v, w \in N + 1 .. Len(next.table) : next.table[v].key = next.table[w].key => v = w
      BY <2>3, <2>4, <2>12
    <3>5. \A i \in 1 .. n + 1 : q.jobs[i].key \notin q.known =>
            \E v \in N + 1 .. Len(next.table) : next.table[v].key = q.jobs[i].key
      BY <2>3, <2>4, <2>11
    <3>6. QED
      BY <2>4, <3>1, <3>2, <3>3, <3>4, <3>5 DEF ChainSound
  <2>16. QED
    BY <2>1, <2>15
<1>5. QED
  BY <1>3, <1>4

LEMMA ChainedSound ==
  ASSUME IsSeq(rows), NEW q, NEW owner, DOMAIN owner \subseteq Nat,
         IsBatch(q.jobs, owner), Writable(q)
  PROVE  ChainSound(q, Chained(q), Len(q.jobs))
<1> DEFINE m == Len(q.jobs)
<1>1. m \in Nat /\ DOMAIN q.jobs = 1 .. m /\ Len(rows) \in Nat /\ Ids = 1 .. Len(rows)
  BY SeqFacts DEF IsBatch, Ids
<1>2. PICK f : ChainRun(q, f, m) /\ Chained(q) = f[m]
  BY <1>1, ChainedRuns
<1> DEFINE S == {n \in Nat : n <= m => ChainSound(q, f[n], n)}
<1>3. 0 \in S
  <2>1. DOMAIN ChainStart(q) = {"table", "prev"} /\ ChainStart(q).table = rows /\ ChainStart(q).prev = q.base
    BY DEF ChainStart
  <2>2. f[0] = ChainStart(q)
    BY <1>2 DEF ChainRun
  <2>3. ~(0 > 0) /\ (1 .. 0) = {} /\ (Len(rows) + 1 .. Len(rows)) = {} /\ Len(rows) <= Len(rows)
    BY <1>1
  <2>4. ChainSound(q, f[0], 0)
    BY <1>1, <2>1, <2>2, <2>3 DEF ChainSound, Writable
  <2>5. QED
    BY <2>4
<1>4. ASSUME NEW n \in Nat, n \in S
      PROVE  n + 1 \in S
  <2>1. SUFFICES ASSUME n + 1 <= m PROVE ChainSound(q, f[n + 1], n + 1)
    OBVIOUS
  <2>2. ChainSound(q, f[n], n) /\ n + 1 \in 1 .. m /\ (n + 1) - 1 = n
    BY <1>1, <1>4, <2>1
  <2>3. f[n + 1] = ChainStep(q, f[n], n + 1)
    BY <1>2, <2>2 DEF ChainRun
  <2>4. QED
    BY <1>1, <2>2, <2>3, ChainStepSound
<1> HIDE DEF S
<1>5. m \in S
  BY <1>1, <1>3, <1>4, SetInduction
<1>6. QED
  BY <1>1, <1>2, <1>5 DEF S

-----------------------------------------------------------------------------
(* Versions of their own *)

\* Each version hangs under an older one of its session.
RowsHang ==
  \A v \in Ids : /\ rows[v].parent \in 0 .. v - 1
                 /\ rows[v].parent # 0 => rows[rows[v].parent].chat = rows[v].chat
HeadsOwn == \A c \in Chats : head[c] \in Ids /\ rows[head[c]].chat = c
\* What a call took for stored is stored.
KnownStored == \A q \in calls : q.stage = "checked" => \A k \in q.known : RowsWithKey(k) # {}
Waiting(t) == turn[t].stage \in {"offered", "deciding", "reverting"}
\* A candidate, and the head a rejection repeats, are versions of the turn's session.
OffersOwn ==
  \A t \in Tabs :
    /\ Waiting(t) => turn[t].id \in Ids /\ rows[turn[t].id].chat = turn[t].chat
    /\ turn[t].stage = "rejecting" =>
         turn[t].other \in Ids /\ rows[turn[t].other].chat = turn[t].chat
VersionsInv == TabTypes /\ Owned /\ RowsHang /\ HeadsOwn /\ KnownStored /\ OffersOwn

Grown ==
  /\ IsSeq(rows') /\ Len(rows) <= Len(rows')
  /\ \A v \in Ids : v \in Ids' /\ rows'[v] = rows[v]

LEMMA AppendedRow ==
  ASSUME IsSeq(rows), NEW row, rows' = Append(rows, row)
  PROVE  /\ Grown /\ Ids' = Ids \cup {Len(rows) + 1} /\ Len(rows) + 1 \notin Ids
         /\ rows'[Len(rows) + 1] = row /\ Len(rows) \in Nat /\ Ids = 1 .. Len(rows)
<1>1. /\ IsSeq(rows') /\ Len(rows') = Len(rows) + 1
      /\ \A i \in 1 .. Len(rows) : rows'[i] = rows[i]
      /\ rows'[Len(rows) + 1] = row
  BY SeqAppend
<1>2. Len(rows) \in Nat /\ DOMAIN rows = 1 .. Len(rows) /\ DOMAIN rows' = 1 .. Len(rows')
  BY <1>1, SeqFacts
<1>3. DOMAIN rows' = DOMAIN rows \cup {Len(rows) + 1} /\ Len(rows) + 1 \notin DOMAIN rows
  BY <1>1, <1>2
<1>4. Len(rows) <= Len(rows')
  BY <1>1, <1>2
<1>5. QED
  BY <1>1, <1>2, <1>3, <1>4 DEF Grown, Ids

LEMMA GrownKeeps ==
  ASSUME Grown
  PROVE  \A k : RowsWithKey(k) \subseteq RowsWithKey(k)'
BY DEF Grown, RowsWithKey, Ids

\* The transaction writes a sound chain.
LEMMA WritesSound ==
  ASSUME NEW owner \in Owners, CallsOf(owner), RowsOf(owner), HeadsOwn, KnownStored,
         NEW q \in calls, q.stage = "checked", q.base = head[q.chat]
  PROVE  Writable(q) /\ ChainSound(q, Chained(q), Len(q.jobs))
<1>1. IsCall(q, owner) /\ DOMAIN owner \subseteq Nat /\ NoKey \notin Nat
  BY EditSyncAssumption DEF CallsOf, Owners
<1>2. ASSUME NEW k \in KeysOf(q.jobs), NEW v \in RowsWithKey(k)
      PROVE  rows[v].chat = q.chat
  <2>1. k \in DOMAIN owner /\ owner[k] = q.chat
    BY <1>1 DEF KeysOf, IsCall, IsBatch, OfChat
  <2>2. v \in Ids /\ rows[v].key = k
    BY DEF RowsWithKey
  <2>3. QED
    BY <1>1, <2>1, <2>2 DEF RowsOf
<1>3. Writable(q)
  BY <1>1, <1>2 DEF Writable, HeadsOwn, IsCall, KnownStored
<1>4. QED
  BY <1>1, <1>3, ChainedSound DEF IsCall, RowsOf

\* What the transaction leaves behind.
LEMMA WrittenRows ==
  ASSUME NEW owner \in Owners, CallsOf(owner), RowsOf(owner), HeadsOwn, KnownStored,
         NEW q \in calls, q.stage = "checked", q.base = head[q.chat],
         rows' = Chained(q).table
  PROVE  /\ Grown
         /\ \A v \in Ids' \ Ids : \E i \in DOMAIN q.jobs : WrittenFor(q, rows', v, i)
         /\ \A i \in DOMAIN q.jobs : q.jobs[i].key \notin q.known =>
              \E v \in Ids' \ Ids : rows'[v].key = q.jobs[i].key
         /\ \A v, w \in Ids' \ Ids : rows'[v].key = rows'[w].key => v = w
         /\ Chained(q).prev \in Ids' /\ rows'[Chained(q).prev].chat = q.chat
         /\ q.jobs[Len(q.jobs)].key \notin q.known => Chained(q).prev > Len(rows)
<1> DEFINE m == Len(q.jobs)
           N == Len(rows)
           done == Chained(q)
<1>1. ChainSound(q, done, m) /\ IsCall(q, owner) /\ IsSeq(rows)
  BY WritesSound DEF CallsOf, RowsOf
<1>2. m \in Nat \ {0} /\ DOMAIN q.jobs = 1 .. m /\ N \in Nat /\ Ids = 1 .. N
  BY <1>1, SeqFacts DEF Ids, IsCall, IsBatch
<1>3. IsSeq(rows') /\ N <= Len(rows') /\ done.table = rows'
  BY <1>1 DEF ChainSound
<1>4. Ids' = 1 .. Len(rows') /\ Len(rows') \in Nat
  BY <1>3, SeqFacts DEF Ids
<1>5. Ids' \ Ids = N + 1 .. Len(rows') /\ Ids \subseteq Ids'
  BY <1>2, <1>3, <1>4
<1> HIDE DEF done, m, N
<1>6. Grown
  BY <1>1, <1>3, <1>5 DEF Grown, ChainSound, N
<1>7. /\ \A v \in Ids' \ Ids : \E i \in DOMAIN q.jobs : WrittenFor(q, rows', v, i)
      /\ \A i \in DOMAIN q.jobs : q.jobs[i].key \notin q.known =>
           \E v \in Ids' \ Ids : rows'[v].key = q.jobs[i].key
      /\ \A v, w \in Ids' \ Ids : rows'[v].key = rows'[w].key => v = w
  <2>1. Ids' \ Ids = Len(rows) + 1 .. Len(done.table)
    BY <1>3, <1>5 DEF N
  <2>2. \A v \in Ids' \ Ids : \E i \in 1 .. m : WrittenFor(q, done.table, v, i)
    BY <1>1, <2>1 DEF ChainSound
  <2>3. \A i \in 1 .. m : q.jobs[i].key \notin q.known =>
          \E v \in Ids' \ Ids : done.table[v].key = q.jobs[i].key
    BY <1>1, <2>1 DEF ChainSound
  <2>4. \A v, w \in Ids' \ Ids : done.table[v].key = done.table[w].key => v = w
    BY <1>1, <2>1 DEF ChainSound
  <2>5. QED
    BY <1>2, <1>3, <2>2, <2>3, <2>4
<1>8. done.prev \in Ids' /\ rows'[done.prev].chat = q.chat
  BY <1>1, <1>3, <1>4 DEF ChainSound
<1>9. q.jobs[m].key \notin q.known => done.prev > N
  BY <1>1, <1>2 DEF ChainSound, N
<1>10. QED
  BY <1>6, <1>7, <1>8, <1>9 DEF done, m, N

\* A step of a queue leaves calls as they were but for what is heard of them,
\* and what it sends is new.
LEMMA QueueCalls ==
  ASSUME NEW t \in Tabs, QueueStep(t)
  PROVE  /\ UNCHANGED <<rows, head, turn, chat, loading, minted, latest>>
         /\ \A r \in calls' : \/ r \in calls
                              \/ \E q \in calls : r = Unheard(q)
                              \/ \E n, c, base, jobs, heard : r = Call(n, c, base, jobs, heard)
<1> USE DEF TriesAgain, Sends, tabVars
<1>1. CASE FlushStarts(t) \/ Beacon(t)
  BY <1>1 DEF FlushStarts, Beacon
<1>2. ASSUME NEW q \in calls, HearsSaved(t, q) \/ HearsStale(t, q) \/ HearsRefused(t, q)
      PROVE  /\ UNCHANGED <<rows, head, turn, chat, loading, minted, latest>>
             /\ \A r \in calls' : \/ r \in calls
                                  \/ \E n, c, base, jobs, heard : r = Call(n, c, base, jobs, heard)
  <2>1. CASE calls' = calls \ {q}
    BY <1>2, <2>1 DEF HearsSaved, HearsStale, HearsRefused
  <2>2. UNCHANGED <<rows, head, turn, chat, loading, minted, latest>>
    BY <1>2 DEF HearsSaved, HearsStale, HearsRefused
  <2>3. CASE TriesAgain(t, q.seen, calls \ {q})
    <3>1. PICK r : /\ calls' = (calls \ {q}) \cup {r}
                   /\ \E n, c, base, jobs, heard : r = Call(n, c, base, jobs, heard)
      BY <2>3
    <3>2. QED
      BY <2>2, <3>1
  <2>4. QED
    BY <1>2, <2>1, <2>2, <2>3 DEF HearsSaved, HearsStale, HearsRefused
<1>3. ASSUME NEW q \in calls, AttemptFails(t, q)
      PROVE  /\ UNCHANGED <<rows, head, turn, chat, loading, minted, latest>>
             /\ \A r \in calls' : \/ r \in calls \/ r = Unheard(q)
                                  \/ \E n, c, base, jobs, heard : r = Call(n, c, base, jobs, heard)
  BY <1>3 DEF AttemptFails
<1>4. QED
  BY <1>1, <1>2, <1>3 DEF QueueStep

LEMMA OwnedStep ==
  ASSUME VersionsInv, [SyncNext]_syncVars
  PROVE  Owned'
<1> USE DEF VersionsInv, Owned
<1>1. PICK owner \in Owners : QueuesOf(owner) /\ CallsOf(owner) /\ RowsOf(owner)
  OBVIOUS
<1>2. DOMAIN owner \subseteq Nat
  BY DEF Owners
<1>3. ASSUME UNCHANGED <<minted, latest>>, QueuesOf(owner)', CallsOf(owner)', RowsOf(owner)'
      PROVE  Owned'
  BY <1>3 DEF Owners
<1>4. ASSUME UNCHANGED rows
      PROVE  RowsOf(owner)'
  BY <1>1, <1>4 DEF RowsOf, Ids
<1>5. ASSUME UNCHANGED <<queue, flush>>
      PROVE  QueuesOf(owner)'
  BY <1>1, <1>5 DEF QueuesOf
<1>6. ASSUME UNCHANGED calls
      PROVE  CallsOf(owner)'
  BY <1>1, <1>6 DEF CallsOf
<1>7. ASSUME NEW t \in Tabs, TabStep(t)
      PROVE  Owned'
  <2>1. /\ UNCHANGED <<versionVars, flush>>
        /\ \/ UNCHANGED <<queue, minted, latest>>
           \/ \E c \in Chats : \E s : Enqueue(t, c, s)
    BY <1>7, TabStepFrame
  <2>2. CASE UNCHANGED <<queue, minted, latest>>
    BY <1>3, <1>4, <1>5, <1>6, <2>1, <2>2 DEF versionVars
  <2>3. CASE \E c \in Chats : \E s : Enqueue(t, c, s)
    <3>1. PICK c \in Chats : \E s : Enqueue(t, c, s)
      BY <2>3
    <3>2. PICK s : Enqueue(t, c, s)
      BY <3>1
    <3>3. PICK wider \in [1 .. minted' -> Chats], k \in 1 .. minted' :
            /\ minted' \in Nat
            /\ \A m \in DOMAIN owner : m \in DOMAIN wider /\ wider[m] = owner[m]
            /\ EnqueuedAs(t, s, k, wider)
      BY <1>1, <3>2, EnqueueEffect
    <3>4. /\ \A u \in Tabs : IsBatch(queue'[u], wider) /\ IsFlush(flush'[u], wider)
          /\ \A q \in calls' : IsCall(q, wider)
      <4>1. \A x : IsBatch(x, owner) => IsBatch(x, wider)
        BY <3>3, BatchWidened
      <4>2. UNCHANGED <<calls, flush>>
        BY <2>1 DEF versionVars
      <4>3. QED
        BY <1>1, <3>3, <4>1, <4>2 DEF QueuesOf, CallsOf, EnqueuedAs, IsFlush, IsCall
    <3>5. ASSUME NEW u \in Tabs
          PROVE  Before(flush'[u].jobs, queue'[u])
      <4>1. Before(flush[u].jobs, queue[u]) /\ UNCHANGED flush
        BY <1>1, <2>1 DEF QueuesOf
      <4>2. CASE u # t
        BY <3>3, <4>1, <4>2 DEF EnqueuedAs
      <4>3. CASE u = t /\ k \in KeysOf(queue[t])
        <5>1. KeysOf(queue'[t]) = KeysOf(queue[t])
          BY <3>3, <4>3 DEF EnqueuedAs
        <5>2. QED
          BY <4>1, <4>3, <5>1 DEF Before
      <4>4. CASE u = t /\ k = minted + 1
        <5>1. KeysOf(queue'[t]) = KeysOf(queue[t]) \cup {k}
          BY <3>3 DEF EnqueuedAs
        <5>2. KeysOf(flush[t].jobs) \subseteq 1 .. minted
          BY <1>1 DEF QueuesOf, IsFlush, IsBatch, KeysOf, Owners
        <5>3. \A l \in KeysOf(flush[t].jobs) : l < k
          BY <4>4, <5>2
        <5>4. QED
          BY <4>1, <4>4, <5>1, <5>3 DEF Before
      <4>5. QED
        BY <3>3, <4>2, <4>3, <4>4 DEF EnqueuedAs
    <3>6. QueuesOf(wider)' /\ CallsOf(wider)'
      <4>1. DOMAIN queue' = Tabs /\ DOMAIN flush' = Tabs
        BY <1>1, <2>1, <3>3 DEF EnqueuedAs, QueuesOf
      <4>2. QED
        BY <3>4, <3>5, <4>1 DEF QueuesOf, CallsOf
    <3>7. RowsOf(wider)'
      <4>1. UNCHANGED rows
        BY <2>1 DEF versionVars
      <4>2. QED
        BY <1>1, <3>3, <4>1 DEF RowsOf, Ids
    <3>8. IsSeq(latest') /\ Len(latest') = minted' /\ wider \in Owners'
      BY <3>3 DEF EnqueuedAs, Owners
    <3>9. QED
      BY <3>3, <3>6, <3>7, <3>8
  <2>4. QED
    BY <2>1, <2>2, <2>3
<1>8. ASSUME NEW t \in Tabs, WriterStep(t)
      PROVE  Owned'
  <2>1. UNCHANGED <<queueVars, calls>>
    BY <1>8 DEF WriterStep, TurnAnswered, ReplacementAccepted, RejectionInserts, RejectionMoves,
                Appends, Accepts, RejectInserts, RejectMoves, versionVars
  <2>2. UNCHANGED rows \/ \E p, s : rows' = Append(rows, Row(turn[t].chat, p, s, NoKey))
    BY <1>8 DEF WriterStep, TurnAnswered, ReplacementAccepted, RejectionInserts, RejectionMoves,
                Appends, Accepts, RejectInserts, RejectMoves, versionVars
  <2>3. RowsOf(owner)'
    <3>1. CASE UNCHANGED rows
      BY <1>4, <3>1
    <3>2. ASSUME NEW p, NEW s, rows' = Append(rows, Row(turn[t].chat, p, s, NoKey))
          PROVE  RowsOf(owner)'
      <4> DEFINE row == Row(turn[t].chat, p, s, NoKey)
      <4>1. row.key = NoKey /\ row.chat \in Chats
        BY DEF Row, TabTypes
      <4>2. IsSeq(rows) /\ rows' = Append(rows, row)
        BY <1>1, <3>2 DEF RowsOf
      <4> HIDE DEF row
      <4>3. /\ Grown /\ Ids' = Ids \cup {Len(rows) + 1}
            /\ rows'[Len(rows) + 1] = row
        BY <4>2, AppendedRow
      <4>4. QED
        BY <1>1, <4>1, <4>3 DEF RowsOf, Grown
    <3>3. QED
      BY <2>2, <3>1, <3>2
  <2>4. QED
    BY <1>3, <1>5, <1>6, <2>1, <2>3 DEF queueVars
<1>9. ASSUME NEW t \in Tabs, QueueStep(t)
      PROVE  Owned'
  <2>1. QueuesOf(owner)' /\ CallsOf(owner)'
    BY <1>1, <1>9, QueuesStep
  <2>2. UNCHANGED <<rows, minted, latest>>
    BY <1>9, QueueCalls
  <2>3. QED
    BY <1>3, <1>4, <2>1, <2>2
<1>10. ASSUME ServerStep
       PROVE  Owned'
  <2>1. PICK q \in calls : \E r : ServedAs(q, r) /\ ServerKind(q, r)
    BY <1>1, <1>10, ServerKinds
  <2>2. PICK r : ServedAs(q, r) /\ ServerKind(q, r)
    BY <2>1
  <2>3. UNCHANGED queueVars
    BY <1>10 DEF ServerStep
  <2>4. IsCall(r, owner)
    BY <1>1, <2>2, SameCallIs DEF ServedAs, CallsOf
  <2>5. CallsOf(owner)'
    BY <1>1, <2>2, <2>4 DEF ServedAs, CallsOf
  <2>6. RowsOf(owner)'
    <3>1. CASE UNCHANGED rows
      BY <1>4, <3>1
    <3>2. CASE q.stage = "checked" /\ q.base = head[q.chat] /\ rows' = Chained(q).table
      <4>1. /\ Grown
            /\ \A v \in Ids' \ Ids : \E i \in DOMAIN q.jobs : WrittenFor(q, rows', v, i)
        BY <1>1, <3>2, WrittenRows
      <4>2. IsCall(q, owner)
        BY <1>1 DEF CallsOf
      <4>3. ASSUME NEW v \in Ids'
            PROVE  /\ rows'[v].chat \in Chats
                   /\ rows'[v].key # NoKey =>
                        rows'[v].key \in DOMAIN owner /\ owner[rows'[v].key] = rows'[v].chat
        <5>1. CASE v \in Ids
          BY <1>1, <4>1, <5>1 DEF RowsOf, Grown
        <5>2. CASE v \in Ids' \ Ids
          <6>1. PICK i \in DOMAIN q.jobs : WrittenFor(q, rows', v, i)
            BY <4>1, <5>2
          <6>2. QED
            BY <4>2, <6>1 DEF WrittenFor, IsCall, IsBatch, OfChat
        <5>3. QED
          BY <5>1, <5>2
      <4>4. QED
        BY <4>1, <4>3 DEF RowsOf, Grown
    <3>3. QED
      BY <2>2, <3>1, <3>2 DEF ServerKind
  <2>7. QED
    BY <1>3, <1>5, <2>3, <2>5, <2>6 DEF queueVars
<1>11. CASE UNCHANGED syncVars
  BY <1>1, <1>3, <1>4, <1>5, <1>6, <1>11 DEF syncVars, versionVars, queueVars
<1>12. QED
  BY <1>7, <1>8, <1>9, <1>10, <1>11, StepKinds

\* Rows are only added, and what is added hangs under a row of its session.
LEMMA RowsGrow ==
  ASSUME VersionsInv, [SyncNext]_syncVars
  PROVE  /\ Grown
         /\ \A v \in Ids' \ Ids : /\ rows'[v].parent \in 1 .. v - 1
                                  /\ rows'[rows'[v].parent].chat = rows'[v].chat
<1>1. PICK owner \in Owners : CallsOf(owner) /\ RowsOf(owner)
  BY DEF VersionsInv, Owned
<1>2. ASSUME UNCHANGED rows
      PROVE  Grown /\ Ids' = Ids
  BY <1>1, <1>2 DEF Grown, RowsOf, Ids, IsSeq
<1>3. ASSUME NEW t \in Tabs, TabStep(t) \/ QueueStep(t)
      PROVE  UNCHANGED rows
  BY <1>3, TabStepFrame, QueueCalls DEF VersionsInv, versionVars
<1>4. ASSUME NEW t \in Tabs, WriterStep(t)
      PROVE  \/ UNCHANGED rows
             \/ \E p \in Ids : \E s : /\ rows[p].chat = turn[t].chat
                                  /\ rows' = Append(rows, Row(turn[t].chat, p, s, NoKey))
  <2>1. head[turn[t].chat] \in Ids /\ rows[head[turn[t].chat]].chat = turn[t].chat
    BY DEF VersionsInv, TabTypes, HeadsOwn
  <2>2. CASE TurnAnswered(t)
    BY <2>1, <2>2 DEF TurnAnswered, Appends, versionVars
  <2>3. CASE RejectionInserts(t)
    BY <2>3 DEF RejectionInserts, RejectInserts, VersionsInv, OffersOwn, TurnAt
  <2>4. CASE ReplacementAccepted(t) \/ RejectionMoves(t)
    BY <2>4 DEF ReplacementAccepted, RejectionMoves, Accepts, RejectMoves
  <2>5. QED
    BY <1>4, <2>2, <2>3, <2>4 DEF WriterStep
<1>5. ASSUME NEW c, NEW p \in Ids, NEW s, rows[p].chat = c,
             rows' = Append(rows, Row(c, p, s, NoKey))
      PROVE  /\ Grown
             /\ \A v \in Ids' \ Ids : /\ rows'[v].parent \in 1 .. v - 1
                                      /\ rows'[rows'[v].parent].chat = rows'[v].chat
  <2> DEFINE row == Row(c, p, s, NoKey)
  <2>1. row.parent = p /\ row.chat = c /\ IsSeq(rows) /\ rows' = Append(rows, row)
    BY <1>1, <1>5 DEF Row, RowsOf
  <2> HIDE DEF row
  <2>2. /\ Grown /\ Ids' = Ids \cup {Len(rows) + 1}
        /\ rows'[Len(rows) + 1] = row /\ Len(rows) \in Nat /\ Ids = 1 .. Len(rows)
    BY <2>1, AppendedRow
  <2>3. p \in 1 .. (Len(rows) + 1) - 1 /\ rows'[p] = rows[p]
    BY <2>2 DEF Grown
  <2>4. QED
    BY <1>5, <2>1, <2>2, <2>3
<1>6. ASSUME ServerStep
      PROVE  /\ Grown
             /\ \A v \in Ids' \ Ids : /\ rows'[v].parent \in 1 .. v - 1
                                      /\ rows'[rows'[v].parent].chat = rows'[v].chat
  <2>1. PICK q \in calls : \E r : ServedAs(q, r) /\ ServerKind(q, r)
    BY <1>1, <1>6, ServerKinds
  <2>2. PICK r : ServedAs(q, r) /\ ServerKind(q, r)
    BY <2>1
  <2>3. CASE UNCHANGED rows
    BY <1>2, <2>3
  <2>4. CASE q.stage = "checked" /\ q.base = head[q.chat] /\ rows' = Chained(q).table
    <3>1. /\ Grown
          /\ \A v \in Ids' \ Ids : \E i \in DOMAIN q.jobs : WrittenFor(q, rows', v, i)
      BY <1>1, <2>4, WrittenRows DEF VersionsInv
    <3>2. QED
      BY <3>1 DEF WrittenFor
  <2>5. QED
    BY <2>2, <2>3, <2>4 DEF ServerKind
<1>7. CASE UNCHANGED syncVars
  BY <1>2, <1>7 DEF syncVars, versionVars
<1>8. QED
  BY <1>2, <1>3, <1>4, <1>5, <1>6, <1>7, StepKinds

LEMMA RowsHangStep ==
  ASSUME VersionsInv, [SyncNext]_syncVars
  PROVE  RowsHang'
<1>1. /\ Grown
      /\ \A v \in Ids' \ Ids : /\ rows'[v].parent \in 1 .. v - 1
                               /\ rows'[rows'[v].parent].chat = rows'[v].chat
  BY RowsGrow
<1>2. IsSeq(rows)
  BY DEF VersionsInv, Owned, RowsOf
<1>3. Ids = 1 .. Len(rows) /\ Len(rows) \in Nat
  BY <1>2, SeqFacts DEF Ids
<1>4. IsSeq(rows')
  BY <1>1 DEF Grown
<1>5. Ids' = 1 .. Len(rows') /\ Len(rows') \in Nat
  BY <1>4, SeqFacts DEF Ids
<1>6. ASSUME NEW v \in Ids'
      PROVE  /\ rows'[v].parent \in 0 .. v - 1
             /\ rows'[v].parent # 0 => rows'[rows'[v].parent].chat = rows'[v].chat
  <2>1. CASE v \in Ids
    <3>1. /\ rows[v].parent \in 0 .. v - 1
          /\ rows[v].parent # 0 => rows[rows[v].parent].chat = rows[v].chat
      BY <2>1 DEF VersionsInv, RowsHang
    <3>2. rows'[v] = rows[v]
      BY <1>1, <2>1 DEF Grown
    <3>3. rows[v].parent # 0 => rows[v].parent \in Ids
      BY <1>3, <2>1, <3>1
    <3>4. rows[v].parent # 0 => rows'[rows[v].parent] = rows[rows[v].parent]
      BY <1>1, <3>3 DEF Grown
    <3>5. QED
      BY <3>1, <3>2, <3>4
  <2>2. CASE v \notin Ids
    <3>1. rows'[v].parent \in 1 .. v - 1 /\ rows'[rows'[v].parent].chat = rows'[v].chat
      BY <1>1, <2>2
    <3>2. QED
      BY <1>5, <3>1
  <2>3. QED
    BY <2>1, <2>2
<1>7. QED
  BY <1>6 DEF RowsHang

\* A head goes to a version of its session.
LEMMA HeadsOwnStep ==
  ASSUME VersionsInv, [SyncNext]_syncVars
  PROVE  HeadsOwn'
<1>1. PICK owner \in Owners : CallsOf(owner) /\ RowsOf(owner)
  BY DEF VersionsInv, Owned
<1>2. Grown
  BY RowsGrow
<1>3. ASSUME UNCHANGED head
      PROVE  HeadsOwn'
  BY <1>2, <1>3 DEF VersionsInv, HeadsOwn, Grown
<1>4. ASSUME NEW c, NEW v \in Ids', rows'[v].chat = c, head' = [head EXCEPT ![c] = v]
      PROVE  HeadsOwn'
  BY <1>2, <1>4 DEF VersionsInv, HeadsOwn, Grown, TabTypes
<1>5. ASSUME NEW t \in Tabs, TabStep(t) \/ QueueStep(t)
      PROVE  HeadsOwn'
  BY <1>3, <1>5, TabStepFrame, QueueCalls DEF VersionsInv, versionVars
<1>6. ASSUME NEW t \in Tabs, WriterStep(t)
      PROVE  HeadsOwn'
  <2>1. CASE TurnAnswered(t)
    <3>1. CASE \E s, bump : Appends(turn[t].chat, s, bump)
      <4>1. PICK s, bump : Appends(turn[t].chat, s, bump)
        BY <3>1
      <4> DEFINE c == turn[t].chat
                 row == Row(c, head[c], s, NoKey)
      <4>2. row.chat = c /\ rows' = Append(rows, row) /\ IsSeq(rows)
        BY <1>1, <4>1 DEF Row, Appends, RowsOf
      <4> HIDE DEF row
      <4>3. Ids' = Ids \cup {Len(rows) + 1} /\ rows'[Len(rows) + 1] = row
        BY <4>2, AppendedRow
      <4>4. UNCHANGED head \/ head' = [head EXCEPT ![c] = Len(rows) + 1]
        BY <4>1 DEF Appends
      <4>5. QED
        BY <1>3, <1>4, <4>2, <4>3, <4>4
    <3>2. CASE UNCHANGED versionVars
      BY <1>3, <3>2 DEF versionVars
    <3>3. QED
      BY <2>1, <3>1, <3>2 DEF TurnAnswered
  <2>2. CASE ReplacementAccepted(t) \/ RejectionMoves(t)
    <3>1. head' = [head EXCEPT ![turn[t].chat] = turn[t].id]
      BY <2>2 DEF ReplacementAccepted, RejectionMoves, Accepts, RejectMoves
    <3>2. turn[t].id \in Ids /\ rows[turn[t].id].chat = turn[t].chat
      BY <2>2 DEF VersionsInv, OffersOwn, Waiting, TurnAt, ReplacementAccepted, RejectionMoves
    <3>3. QED
      BY <1>2, <1>4, <3>1, <3>2 DEF Grown
  <2>3. CASE RejectionInserts(t)
    BY <1>3, <2>3 DEF RejectionInserts, RejectInserts
  <2>4. QED
    BY <1>6, <2>1, <2>2, <2>3 DEF WriterStep
<1>7. ASSUME ServerStep
      PROVE  HeadsOwn'
  <2>1. PICK q \in calls : \E r : ServedAs(q, r) /\ ServerKind(q, r)
    BY <1>1, <1>7, ServerKinds
  <2>2. PICK r : ServedAs(q, r) /\ ServerKind(q, r)
    BY <2>1
  <2>3. CASE UNCHANGED head
    BY <1>3, <2>3
  <2>4. CASE /\ q.stage = "checked" /\ q.base = head[q.chat] /\ rows' = Chained(q).table
             /\ head' = [head EXCEPT ![q.chat] = Chained(q).prev]
    <3>1. Chained(q).prev \in Ids' /\ rows'[Chained(q).prev].chat = q.chat
      BY <1>1, <2>4, WrittenRows DEF VersionsInv
    <3>2. QED
      BY <1>4, <2>4, <3>1
  <2>5. QED
    BY <2>2, <2>3, <2>4 DEF ServerKind
<1>8. CASE UNCHANGED syncVars
  BY <1>3, <1>8 DEF syncVars, versionVars
<1>9. QED
  BY <1>5, <1>6, <1>7, <1>8, StepKinds

LEMMA KnownStoredStep ==
  ASSUME VersionsInv, [SyncNext]_syncVars
  PROVE  KnownStored'
<1>1. PICK owner \in Owners : CallsOf(owner) /\ RowsOf(owner)
  BY DEF VersionsInv, Owned
<1>2. \A k : RowsWithKey(k) # {} => RowsWithKey(k)' # {}
  BY RowsGrow, GrownKeeps
<1>3. ASSUME \A r \in calls' : r.stage = "checked" =>
               \E q \in calls : r.known = q.known /\ q.stage = "checked"
      PROVE  KnownStored'
  BY <1>2, <1>3 DEF VersionsInv, KnownStored
<1>4. ASSUME UNCHANGED calls
      PROVE  KnownStored'
  BY <1>3, <1>4
<1>5. ASSUME NEW t \in Tabs, TabStep(t)
      PROVE  KnownStored'
  BY <1>4, <1>5, TabStepFrame DEF VersionsInv, versionVars
<1>6. ASSUME NEW t \in Tabs, WriterStep(t)
      PROVE  KnownStored'
  BY <1>4, <1>6 DEF WriterStep, TurnAnswered, ReplacementAccepted, RejectionInserts,
         RejectionMoves, Appends, Accepts, RejectInserts, RejectMoves, versionVars
<1>7. ASSUME NEW t \in Tabs, QueueStep(t)
      PROVE  KnownStored'
  <2>1. \A n, c, base, jobs, heard : Call(n, c, base, jobs, heard).stage # "checked"
    BY DEF Call
  <2>2. \A q \in calls : Unheard(q).stage = q.stage /\ Unheard(q).known = q.known
    BY <1>1, UnheardIs DEF CallsOf, IsCall
  <2>3. QED
    BY <1>3, <1>7, <2>1, <2>2, QueueCalls
<1>8. ASSUME ServerStep
      PROVE  KnownStored'
  <2>1. PICK q \in calls : \E r : ServedAs(q, r) /\ ServerKind(q, r)
    BY <1>1, <1>8, ServerKinds
  <2>2. PICK r : ServedAs(q, r) /\ ServerKind(q, r)
    BY <2>1
  <2>3. r.stage = "checked" => \A k \in r.known : RowsWithKey(k) # {}
    BY <2>2 DEF ServerKind, KnownKeys
  <2>4. \A x \in calls' : x \in calls \/ x = r
    BY <2>2 DEF ServedAs
  <2>5. QED
    BY <1>2, <2>3, <2>4 DEF VersionsInv, KnownStored
<1>9. CASE UNCHANGED syncVars
  BY <1>4, <1>9 DEF syncVars, versionVars
<1>10. QED
  BY <1>5, <1>6, <1>7, <1>8, <1>9, StepKinds

\* A candidate is a version of its session from the answer to the decision.
LEMMA OffersOwnStep ==
  ASSUME VersionsInv, [SyncNext]_syncVars
  PROVE  OffersOwn'
<1>1. Grown
  BY RowsGrow
<1> DEFINE Sound(r) ==
      /\ r.stage \in {"offered", "deciding", "reverting"} =>
           r.id \in Ids' /\ rows'[r.id].chat = r.chat
      /\ r.stage = "rejecting" => r.other \in Ids' /\ rows'[r.other].chat = r.chat
<1>2. \A t \in Tabs : Sound(turn[t]) /\ DOMAIN turn[t] = TurnFields
  BY <1>1 DEF VersionsInv, OffersOwn, Waiting, Grown, TabTypes
<1> HIDE DEF Sound
<1>3. DOMAIN turn = Tabs
  BY DEF VersionsInv, TabTypes
<1>4. SUFFICES \A t \in Tabs : Sound(turn'[t])
  BY DEF OffersOwn, Waiting, Sound
<1>5. ASSUME UNCHANGED turn
      PROVE  \A t \in Tabs : Sound(turn'[t])
  BY <1>2, <1>5
<1>6. ASSUME NEW t \in Tabs, NEW r, TurnGoes(t, r), Sound(r)
      PROVE  \A u \in Tabs : Sound(turn'[u])
  BY <1>2, <1>3, <1>6 DEF TurnGoes
<1>7. ASSUME NEW t \in Tabs, NEW r, TurnGoes(t, r),
             r.stage \notin {"offered", "deciding", "reverting", "rejecting"}
      PROVE  \A u \in Tabs : Sound(turn'[u])
  BY <1>6, <1>7 DEF Sound
<1>8. ASSUME NEW t \in Tabs, TurnOver(t)
      PROVE  \A u \in Tabs : Sound(turn'[u])
  BY <1>2, <1>7, <1>8 DEF TurnOver, TurnFields
<1>9. ASSUME NEW t \in Tabs, TurnAnswered(t)
      PROVE  \A u \in Tabs : Sound(turn'[u])
  <2>1. CASE TurnOver(t)
    BY <1>8, <2>1
  <2>2. CASE \E s, bump, st : /\ Appends(turn[t].chat, s, bump)
                              /\ TurnGoes(t, [turn[t] EXCEPT !.stage = st, !.id = Len(rows) + 1])
                              /\ st # "rejecting"
    <3>1. PICK s, bump, st : /\ Appends(turn[t].chat, s, bump)
                             /\ TurnGoes(t, [turn[t] EXCEPT !.stage = st, !.id = Len(rows) + 1])
                             /\ st # "rejecting"
      BY <2>2
    <3> DEFINE r == [turn[t] EXCEPT !.stage = st, !.id = Len(rows) + 1]
               c == turn[t].chat
               row == Row(c, head[c], s, NoKey)
    <3>2. r.stage = st /\ r.id = Len(rows) + 1 /\ r.chat = c
      BY <1>2 DEF TurnFields
    <3>3. row.chat = c /\ rows' = Append(rows, row) /\ IsSeq(rows)
      BY <3>1 DEF Row, Appends, VersionsInv, Owned, RowsOf
    <3> HIDE DEF row, r
    <3>4. Ids' = Ids \cup {Len(rows) + 1} /\ rows'[Len(rows) + 1] = row
      BY <3>3, AppendedRow
    <3>5. Sound(r)
      BY <3>1, <3>2, <3>3, <3>4 DEF Sound
    <3>6. QED
      BY <1>6, <3>1, <3>5 DEF r
  <2>3. QED
    BY <1>9, <2>1, <2>2 DEF TurnAnswered
<1>10. ASSUME NEW t \in Tabs, TurnStep(t)
       PROVE  \A u \in Tabs : Sound(turn'[u])
  <2>1. CASE Submit(t)
    BY <1>7, <2>1 DEF Submit
  <2>2. CASE TurnShown(t) \/ DecisionShown(t)
    BY <1>8, <2>2 DEF TurnShown, DecisionShown
  <2>3. CASE OfferShown(t)
    <3> DEFINE r == [turn[t] EXCEPT !.stage = "deciding"]
    <3>1. r.stage = "deciding" /\ r.id = turn[t].id /\ r.chat = turn[t].chat /\ turn[t].stage = "offered"
      BY <1>2, <2>3 DEF TurnFields, OfferShown, TurnAt
    <3>2. TurnGoes(t, r)
      BY <2>3 DEF OfferShown
    <3> HIDE DEF r
    <3>3. QED
      BY <1>2, <1>6, <3>1, <3>2 DEF Sound
  <2>4. CASE ReplacementAccepted(t) \/ RejectionMoves(t)
    <3>1. PICK st : TurnGoes(t, [turn[t] EXCEPT !.stage = st]) /\ st \in {"accepted", "rejected"}
      BY <2>4 DEF ReplacementAccepted, RejectionMoves
    <3>2. [turn[t] EXCEPT !.stage = st].stage = st
      BY <1>2 DEF TurnFields
    <3>3. QED
      BY <1>7, <3>1, <3>2
  <2>5. CASE RejectionReads(t)
    <3> DEFINE c == turn[t].chat
               r == [turn[t] EXCEPT !.stage = "rejecting", !.other = head[c]]
    <3>1. r.stage = "rejecting" /\ r.other = head[c] /\ r.chat = c
      BY <1>2 DEF TurnFields
    <3>2. TurnGoes(t, r)
      BY <2>5 DEF RejectionReads
    <3>3. head[c] \in Ids /\ rows[head[c]].chat = c
      BY DEF VersionsInv, TabTypes, HeadsOwn
    <3> HIDE DEF r
    <3>4. QED
      BY <1>1, <1>6, <3>1, <3>2, <3>3 DEF Sound, Grown
  <2>6. CASE RejectionInserts(t)
    <3> DEFINE c == turn[t].chat
               r == [turn[t] EXCEPT !.stage = "reverting", !.id = Len(rows) + 1]
               row == Row(c, turn[t].other, rows[turn[t].other].score, NoKey)
    <3>1. r.stage = "reverting" /\ r.id = Len(rows) + 1 /\ r.chat = c
      BY <1>2 DEF TurnFields
    <3>2. TurnGoes(t, r)
      BY <2>6 DEF RejectionInserts
    <3>3. row.chat = c /\ rows' = Append(rows, row) /\ IsSeq(rows)
      BY <2>6 DEF Row, RejectionInserts, RejectInserts, VersionsInv, Owned, RowsOf
    <3> HIDE DEF row, r
    <3>4. Ids' = Ids \cup {Len(rows) + 1} /\ rows'[Len(rows) + 1] = row
      BY <3>3, AppendedRow
    <3>5. Sound(r)
      BY <3>1, <3>3, <3>4 DEF Sound
    <3>6. QED
      BY <1>6, <3>2, <3>5
  <2>7. QED
    BY <1>9, <1>10, <2>1, <2>2, <2>3, <2>4, <2>5, <2>6 DEF TurnStep
<1>11. ASSUME NEW t \in Tabs, UserStep(t) \/ LoadStep(t)
       PROVE  UNCHANGED turn
  BY <1>11 DEF UserStep, LoadStep, Edit, Undo, Redo, MoveTo, ResetToLLM, Switch,
       TranscriptRead, TranscriptShown, TranscriptFails
<1>12. ASSUME NEW t \in Tabs, QueueStep(t)
       PROVE  UNCHANGED turn
  BY <1>12, QueueCalls
<1>13. CASE ServerStep \/ UNCHANGED syncVars
  BY <1>5, <1>13 DEF ServerStep, syncVars
<1>14. QED
  BY <1>5, <1>10, <1>11, <1>12, <1>13 DEF SyncNext

LEMMA OpeningIs ==
  /\ \E n \in Nat : Opening \in [1 .. n -> Chats]
  /\ \A c \in Chats : \E v \in DOMAIN Opening : Opening[v] = c
<1> DEFINE n == Cardinality(Chats)
<1>1. n \in Nat /\ ExistsBijection(1 .. n, Chats)
  BY FS_CardinalityType, VersionsAssumption
<1>2. \E order \in [1 .. n -> Chats] : \A c \in Chats : \E v \in DOMAIN order : order[v] = c
  BY <1>1 DEF ExistsBijection, Bijection, Surjection
<1>3. /\ Opening \in [1 .. n -> Chats]
      /\ \A c \in Chats : \E v \in DOMAIN Opening : Opening[v] = c
  BY <1>2 DEF Opening
<1>4. QED
  BY <1>1, <1>3

LEMMA InitVersions ==
  ASSUME VersionsInit
  PROVE  /\ IsSeq(rows) /\ DOMAIN head = Chats /\ calls = {} /\ Ids = DOMAIN Opening
         /\ \A v \in Ids : rows[v].chat \in Chats /\ rows[v].parent = 0 /\ rows[v].key = NoKey
         /\ \A c \in Chats : head[c] \in Ids /\ rows[head[c]].chat = c
<1>1. PICK n \in Nat : Opening \in [1 .. n -> Chats]
  BY OpeningIs
<1> DEFINE first(v) == Row(Opening[v], 0, Score(Opening[v], 0), NoKey)
           S == {first(v) : v \in 1 .. n}
<1>2. rows = [v \in 1 .. n |-> first(v)]
  BY <1>1 DEF VersionsInit
<1>3. \A v \in 1 .. n : first(v).chat \in Chats /\ first(v).parent = 0 /\ first(v).key = NoKey
                        /\ first(v).chat = Opening[v]
  BY <1>1 DEF Row
<1> HIDE DEF first
<1>4. rows \in [1 .. n -> S]
  BY <1>2
<1> HIDE DEF S
<1>5. rows \in Seq(S)
  BY <1>4
<1>6. IsSeq(rows)
  BY <1>5, SeqOf
<1>7. Ids = 1 .. n /\ \A v \in 1 .. n : rows[v] = first(v)
  BY <1>2 DEF Ids
<1>8. ASSUME NEW c \in Chats
      PROVE  head[c] \in 1 .. n /\ Opening[head[c]] = c
  <2>1. \E v \in DOMAIN Opening : Opening[v] = c
    BY OpeningIs
  <2>2. head[c] = CHOOSE v \in DOMAIN Opening : Opening[v] = c
    BY DEF VersionsInit
  <2>3. QED
    BY <1>1, <2>1, <2>2
<1>9. DOMAIN head = Chats /\ calls = {}
  BY DEF VersionsInit
<1>10. QED
  BY <1>1, <1>3, <1>6, <1>7, <1>8, <1>9

LEMMA InitVersionsInv == SyncInit => VersionsInv
<1> SUFFICES ASSUME SyncInit PROVE VersionsInv
  OBVIOUS
<1>1. /\ IsSeq(rows) /\ DOMAIN head = Chats /\ calls = {}
      /\ \A v \in Ids : rows[v].chat \in Chats /\ rows[v].parent = 0 /\ rows[v].key = NoKey
      /\ \A c \in Chats : head[c] \in Ids /\ rows[head[c]].chat = c
  BY InitVersions DEF SyncInit
<1>2. FirstChat \in Chats
  BY EditSyncAssumption
<1>3. TabTypes
  BY <1>1, <1>2 DEF SyncInit, TabTypes, NoTurn, TurnFields
<1>4. IsSeq(<<>>) /\ Len(<<>>) = 0 /\ DOMAIN <<>> = {}
  BY EmptySeq DEF IsSeq
<1>5. Owned
  <2>1. minted = 0 /\ latest = <<>> /\ queue = [t \in Tabs |-> <<>>] /\ flush = [t \in Tabs |-> NoFlush]
    BY DEF SyncInit
  <2> DEFINE owner == [k \in 1 .. 0 |-> FirstChat]
  <2>2. owner \in Owners
    BY <1>2, <2>1 DEF Owners
  <2> HIDE DEF owner
  <2>3. IsBatch(<<>>, owner)
    BY <1>4 DEF IsBatch
  <2>4. QueuesOf(owner)
    BY <2>1, <2>3, NothingInFlush DEF QueuesOf
  <2>5. CallsOf(owner) /\ RowsOf(owner)
    BY <1>1 DEF CallsOf, RowsOf
  <2>6. QED
    BY <1>4, <2>1, <2>2, <2>4, <2>5 DEF Owned
<1>6. RowsHang
  <2>1. IsSeq(rows)
    BY <1>1
  <2>2. Ids = 1 .. Len(rows) /\ Len(rows) \in Nat
    BY <2>1, SeqFacts DEF Ids
  <2>3. \A v \in Ids : 0 \in 0 .. v - 1
    BY <2>2
  <2>4. QED
    BY <1>1, <2>3 DEF RowsHang
<1>7. HeadsOwn /\ KnownStored
  BY <1>1 DEF HeadsOwn, KnownStored
<1>8. OffersOwn
  BY DEF SyncInit, OffersOwn, Waiting, NoTurn
<1>9. QED
  BY <1>3, <1>5, <1>6, <1>7, <1>8 DEF VersionsInv

LEMMA VersionsStep ==
  ASSUME VersionsInv, [SyncNext]_syncVars
  PROVE  VersionsInv'
<1>1. TabTypes' /\ Owned'
  BY TabTypesStep, OwnedStep DEF VersionsInv
<1>2. RowsHang' /\ HeadsOwn' /\ KnownStored' /\ OffersOwn'
  BY RowsHangStep, HeadsOwnStep, KnownStoredStep, OffersOwnStep
<1>3. QED
  BY <1>1, <1>2 DEF VersionsInv

LEMMA VersionsAlways == SyncSpec => []VersionsInv
<1>1. VersionsInv /\ [SyncNext]_syncVars => VersionsInv'
  BY VersionsStep
<1>2. QED
  BY <1>1, InitVersionsInv, PTL DEF SyncSpec

\* A session's versions hang together and stay its own, whatever the tabs
\* queue and wherever they flush it.
THEOREM SyncChainsSeparate == SyncSpec => []ChainsStaySeparate
<1>1. VersionsInv => ChainsStaySeparate
  <2> SUFFICES ASSUME VersionsInv PROVE ChainsStaySeparate
    OBVIOUS
  <2>1. IsSeq(rows)
    BY DEF VersionsInv, Owned, RowsOf
  <2>2. Ids = 1 .. Len(rows) /\ Len(rows) \in Nat
    BY <2>1, SeqFacts DEF Ids
  <2>3. ASSUME NEW v \in Ids, rows[v].parent # 0
        PROVE  rows[v].parent < v /\ rows[rows[v].parent].chat = rows[v].chat
    <3>1. rows[v].parent \in 0 .. v - 1 /\ rows[rows[v].parent].chat = rows[v].chat
      BY <2>3 DEF VersionsInv, RowsHang
    <3>2. QED
      BY <2>2, <3>1
  <2>4. QED
    BY <2>3 DEF ChainsStaySeparate, VersionsInv, HeadsOwn
<1>2. QED
  BY <1>1, VersionsAlways, PTL

-----------------------------------------------------------------------------
(* Keys in hand and keys on their way *)

FKeys(t) == KeysOf(flush[t].jobs)
QKeys(t) == KeysOf(queue[t])
HandKeys(t) == FKeys(t) \cup QKeys(t)
CallKeys == {KeysOf(q.jobs) : q \in calls}
KeySets == {HandKeys(t) : t \in Tabs} \cup CallKeys

CallsApart == \A q, r \in calls : q.n = r.n => q = r
\* A flush under way has its call, and the call is for what the flush holds.
Linked ==
  \A t \in Tabs : Flushing(t) =>
    \E q \in calls : q.n = flush[t].call /\ q.jobs = flush[t].jobs /\ q.heard
HandsApart == \A t, u \in Tabs : t # u => HandKeys(t) \cap HandKeys(u) = {}
\* Sets of keys that meet agree on what comes before the keys they share.
Under(A, B) == \A l \in A \cap B, k \in B : k < l => k \in A
Prefixed ==
  /\ \A A, B \in KeySets : Under(A, B)
  /\ \A B \in CallKeys, t \in Tabs : B \cap FKeys(t) # {} => B \cap QKeys(t) = {}
HandsInv == VersionsInv /\ CallsApart /\ Linked /\ HandsApart /\ Prefixed

\* A call as it is sent.
SentAs(r, n, c, base, jobs) ==
  /\ DOMAIN r = CallFields /\ r.n = n /\ r.chat = c /\ r.base = base /\ r.jobs = jobs
  /\ r.stage = "sent" /\ r.seen = 0 /\ r.known = {} /\ r.code = 0

LEMMA CallSent ==
  ASSUME NEW n, NEW c, NEW base, NEW jobs
  PROVE  /\ \E r : r = Call(n, c, base, jobs, TRUE) /\ SentAs(r, n, c, base, jobs) /\ r.heard
         /\ \E r : r = Call(n, c, base, jobs, FALSE) /\ SentAs(r, n, c, base, jobs) /\ ~r.heard
<1>1. PICK r : r = Call(n, c, base, jobs, TRUE)
  OBVIOUS
<1>2. SentAs(r, n, c, base, jobs) /\ r.heard
  BY <1>1 DEF Call, SentAs, CallFields
<1>3. PICK s : s = Call(n, c, base, jobs, FALSE)
  OBVIOUS
<1>4. SentAs(s, n, c, base, jobs) /\ ~s.heard
  BY <1>3 DEF Call, SentAs, CallFields
<1>5. QED
  BY <1>1, <1>2, <1>3, <1>4

Others(t) == \A u \in Tabs : u # t => queue'[u] = queue[u] /\ flush'[u] = flush[u]

\* What a step of a queue is: a flush starts, a beacon leaves, an attempt is
\* repeated, a flush ends, or its batch goes back.
QStart(t) ==
  /\ queue[t] # <<>> /\ ~Flushing(t) /\ Others(t)
  /\ queue'[t] = AfterRun(t)
  /\ \E n \in FreeNumbers(calls) :
       /\ flush'[t].jobs = Run(t) /\ flush'[t].call = n /\ flush'[t].base = belief[t]
       /\ flush'[t] # NoFlush
       /\ \E r : /\ SentAs(r, n, Run(t)[1].chat, belief[t], Run(t)) /\ r.heard
                 /\ calls' = calls \cup {r}
  /\ UNCHANGED <<belief, dropped, retried>>
QBeacon(t) ==
  /\ queue[t] # <<>> /\ Others(t)
  /\ queue'[t] = AfterRun(t) /\ flush'[t] = flush[t]
  /\ \E n \in FreeNumbers(calls) : \E r :
       /\ SentAs(r, n, Run(t)[1].chat, belief[t], Run(t)) /\ ~r.heard
       /\ calls' = calls \cup {r}
  /\ dropped' = dropped \cup KeysOf(Run(t))
  /\ UNCHANGED <<belief, retried>>
Stays(q, rest) == rest \in {calls \ {q}, (calls \ {q}) \cup {Unheard(q)}}
QRetry(t, q) ==
  /\ Flushing(t) /\ q.n = flush[t].call /\ Others(t)
  /\ queue'[t] = queue[t] /\ flush'[t].jobs = flush[t].jobs /\ flush'[t] # NoFlush
  /\ flush'[t].base \in {flush[t].base, q.seen}
  /\ \E rest : \E n \in FreeNumbers(rest) :
       /\ Stays(q, rest) /\ flush'[t].call = n
       /\ \E r : /\ SentAs(r, n, flush[t].jobs[1].chat, flush'[t].base, flush[t].jobs)
                 /\ r.heard /\ calls' = rest \cup {r}
       /\ \/ retried' = retried \cup KeysOf(q.jobs)
          \/ UNCHANGED retried /\ rest = calls \ {q} /\ q.stage = "answered" /\ q.code = 409
  /\ UNCHANGED <<belief, dropped>>
QEnd(t, q) ==
  /\ Flushing(t) /\ q.n = flush[t].call /\ Others(t)
  /\ queue'[t] = queue[t] /\ flush'[t] = NoFlush
  /\ Stays(q, calls')
  /\ \/ /\ q.stage = "answered" /\ q.code = 200 /\ calls' = calls \ {q}
        /\ UNCHANGED <<dropped, retried>>
        /\ belief' = [belief EXCEPT ![t] = q.seen]
     \/ /\ dropped' = dropped \cup KeysOf(flush[t].jobs)
        /\ retried' \in {retried, retried \cup KeysOf(q.jobs)}
        /\ UNCHANGED belief
QPutBack(t, q) ==
  /\ Flushing(t) /\ q.n = flush[t].call /\ Others(t)
  /\ queue'[t] = flush[t].jobs \o queue[t] /\ flush'[t] = NoFlush
  /\ calls' = calls \ {q} /\ q.stage = "answered" /\ q.code = 409
  /\ UNCHANGED <<belief, dropped, retried>>

LEMMA QueueKinds ==
  ASSUME VersionsInv, NEW t \in Tabs, QueueStep(t)
  PROVE  \/ QStart(t) \/ QBeacon(t)
         \/ \E q \in calls : QRetry(t, q) \/ QEnd(t, q) \/ QPutBack(t, q)
<1>1. PICK owner \in Owners : QueuesOf(owner) /\ CallsOf(owner)
  BY DEF VersionsInv, Owned
<1>2. /\ DOMAIN queue = Tabs /\ DOMAIN flush = Tabs /\ DOMAIN flush[t] = FlushFields
      /\ IsFlush(flush[t], owner) /\ IsBatch(queue[t], owner) /\ DOMAIN owner \subseteq Nat
  BY <1>1 DEF QueuesOf, IsFlush, Owners
<1>3. ASSUME Done(t), UNCHANGED queue
      PROVE  Others(t) /\ queue'[t] = queue[t] /\ flush'[t] = NoFlush
  BY <1>2, <1>3 DEF Done, Others
<1>4. ASSUME NEW base, NEW rest, TriesAgain(t, base, rest), Flushing(t), UNCHANGED queue
      PROVE  /\ Others(t) /\ queue'[t] = queue[t]
             /\ flush'[t].jobs = flush[t].jobs /\ flush'[t] # NoFlush /\ flush'[t].base = base
             /\ flush'[t].call = NextNumber(rest) /\ NextNumber(rest) \in FreeNumbers(rest)
             /\ \E r : /\ SentAs(r, NextNumber(rest), flush[t].jobs[1].chat, flush'[t].base,
                                 flush[t].jobs)
                       /\ r.heard /\ calls' = rest \cup {r}
  <2>1. /\ \A u \in Tabs : u # t => flush'[u] = flush[u]
        /\ flush'[t].jobs = flush[t].jobs /\ flush'[t].base = base
        /\ flush'[t].call = NextNumber(rest) /\ NextNumber(rest) \in FreeNumbers(rest)
        /\ calls' = rest \cup {Call(NextNumber(rest), flush[t].jobs[1].chat, base,
                                    flush[t].jobs, TRUE)}
    BY <1>2, <1>4, TriesAgainIs
  <2>2. flush[t].jobs # <<>> /\ NoFlush.jobs = <<>>
    BY <1>2, <1>4, NothingInFlush DEF IsFlush, Flushing
  <2>3. \E r : /\ SentAs(r, NextNumber(rest), flush[t].jobs[1].chat, base, flush[t].jobs)
               /\ r.heard /\ calls' = rest \cup {r}
    <3> DEFINE n == NextNumber(rest)
               jobs == flush[t].jobs
               c == jobs[1].chat
    <3>1. calls' = rest \cup {Call(n, c, base, jobs, TRUE)}
      BY <2>1
    <3> HIDE DEF n, jobs, c
    <3>2. \E r : SentAs(r, n, c, base, jobs) /\ r.heard /\ calls' = rest \cup {r}
      BY <3>1, CallSent
    <3>3. QED
      BY <3>2 DEF n, jobs, c
  <2>4. QED
    BY <1>4, <2>1, <2>2, <2>3 DEF Others
<1>5. CASE FlushStarts(t)
  <2>1. queue[t] # <<>> /\ ~Flushing(t) /\ FreeNumbers(calls) # {}
    BY <1>5 DEF FlushStarts, Sends
  <2>2. Run(t) # <<>> /\ NoFlush.jobs = <<>>
    BY <1>2, <2>1, RunSplits, NothingInFlush
  <2>3. NextNumber(calls) \in FreeNumbers(calls)
    BY <2>1, NumberIsFree
  <2>4. /\ Others(t) /\ queue'[t] = AfterRun(t)
        /\ flush'[t].jobs = Run(t) /\ flush'[t].call = NextNumber(calls)
        /\ flush'[t].base = belief[t]
    BY <1>2, <1>5 DEF FlushStarts, Others
  <2>5. /\ calls' = calls \cup {Call(NextNumber(calls), Run(t)[1].chat, belief[t], Run(t), TRUE)}
        /\ UNCHANGED <<belief, dropped, retried>>
    BY <1>5 DEF FlushStarts, Sends, tabVars
  <2>6. \E r : /\ SentAs(r, NextNumber(calls), Run(t)[1].chat, belief[t], Run(t)) /\ r.heard
               /\ calls' = calls \cup {r}
    BY <2>5, CallSent
  <2>7. flush'[t] # NoFlush
    BY <2>2, <2>4
  <2>8. QStart(t)
    BY <2>1, <2>3, <2>4, <2>5, <2>6, <2>7 DEF QStart
  <2>9. QED
    BY <2>8
<1>6. CASE Beacon(t)
  <2>1. queue[t] # <<>> /\ FreeNumbers(calls) # {}
    BY <1>6 DEF Beacon, Sends
  <2>2. NextNumber(calls) \in FreeNumbers(calls)
    BY <2>1, NumberIsFree
  <2>3. Others(t) /\ queue'[t] = AfterRun(t) /\ flush'[t] = flush[t]
    BY <1>2, <1>6 DEF Beacon, Others
  <2>4. /\ calls' = calls \cup {Call(NextNumber(calls), Run(t)[1].chat, belief[t], Run(t), FALSE)}
        /\ dropped' = dropped \cup KeysOf(Run(t)) /\ UNCHANGED <<belief, retried>>
    BY <1>6 DEF Beacon, Sends, tabVars
  <2>5. \E r : /\ SentAs(r, NextNumber(calls), Run(t)[1].chat, belief[t], Run(t)) /\ ~r.heard
               /\ calls' = calls \cup {r}
    BY <2>4, CallSent
  <2>6. QBeacon(t)
    BY <2>1, <2>2, <2>3, <2>4, <2>5 DEF QBeacon
  <2>7. QED
    BY <2>6
<1>7. ASSUME NEW q \in calls, HearsSaved(t, q)
      PROVE  QEnd(t, q)
  BY <1>3, <1>7 DEF HearsSaved, Awaited, QEnd, Stays
<1>8. ASSUME NEW q \in calls, HearsRefused(t, q)
      PROVE  QEnd(t, q)
  BY <1>3, <1>8 DEF HearsRefused, Awaited, GivesUp, QEnd, Stays, tabVars
<1>9. ASSUME NEW q \in calls, HearsStale(t, q)
      PROVE  QRetry(t, q) \/ QPutBack(t, q)
  <2>1. /\ Flushing(t) /\ q.n = flush[t].call /\ q.stage = "answered" /\ q.code = 409
        /\ UNCHANGED <<belief, dropped, retried>>
    BY <1>9 DEF HearsStale, Awaited, tabVars
  <2>2. CASE TriesAgain(t, q.seen, calls \ {q}) /\ UNCHANGED queue
    <3>1. Stays(q, calls \ {q})
      BY DEF Stays
    <3> DEFINE rest == calls \ {q}
               n == NextNumber(rest)
    <3>2. /\ Others(t) /\ queue'[t] = queue[t]
          /\ flush'[t].jobs = flush[t].jobs /\ flush'[t] # NoFlush /\ flush'[t].base = q.seen
          /\ flush'[t].call = n /\ n \in FreeNumbers(rest)
          /\ \E r : /\ SentAs(r, n, flush[t].jobs[1].chat, flush'[t].base, flush[t].jobs)
                    /\ r.heard /\ calls' = rest \cup {r}
      BY <1>4, <2>1, <2>2
    <3> HIDE DEF n
    <3>3. QRetry(t, q)
      BY <2>1, <3>1, <3>2 DEF QRetry
    <3>4. QED
      BY <3>3
  <2>3. CASE PutBack(t) /\ Done(t) /\ calls' = calls \ {q}
    <3>1. QPutBack(t, q)
      BY <1>2, <2>1, <2>3 DEF QPutBack, PutBack, Done, Others
    <3>2. QED
      BY <3>1
  <2>4. QED
    BY <1>9, <2>2, <2>3 DEF HearsStale
<1>10. ASSUME NEW q \in calls, AttemptFails(t, q)
       PROVE  QRetry(t, q) \/ QEnd(t, q)
  <2>1. /\ Flushing(t) /\ q.n = flush[t].call /\ UNCHANGED <<belief, queue>>
        /\ retried' = retried \cup KeysOf(q.jobs)
    BY <1>10 DEF AttemptFails, tabVars
  <2>2. PICK rest : /\ Stays(q, rest)
                    /\ \/ TriesAgain(t, flush[t].base, rest) /\ UNCHANGED dropped
                       \/ GivesUp(t) /\ calls' = rest
    BY <1>10 DEF AttemptFails, Stays
  <2>3. CASE TriesAgain(t, flush[t].base, rest) /\ UNCHANGED dropped
    <3> DEFINE n == NextNumber(rest)
    <3>1. /\ Others(t) /\ queue'[t] = queue[t]
          /\ flush'[t].jobs = flush[t].jobs /\ flush'[t] # NoFlush /\ flush'[t].base = flush[t].base
          /\ flush'[t].call = n /\ n \in FreeNumbers(rest)
          /\ \E r : /\ SentAs(r, n, flush[t].jobs[1].chat, flush'[t].base, flush[t].jobs)
                    /\ r.heard /\ calls' = rest \cup {r}
      BY <1>4, <2>1, <2>3
    <3> HIDE DEF n
    <3>2. QRetry(t, q)
      BY <2>1, <2>2, <2>3, <3>1 DEF QRetry
    <3>3. QED
      BY <3>2
  <2>4. CASE GivesUp(t) /\ calls' = rest
    <3>1. QEnd(t, q)
      BY <1>3, <2>1, <2>2, <2>4 DEF QEnd, GivesUp
    <3>2. QED
      BY <3>1
  <2>5. QED
    BY <2>2, <2>3, <2>4
<1>11. QED
  BY <1>5, <1>6, <1>7, <1>8, <1>9, <1>10 DEF QueueStep

LEMMA KeyFacts ==
  ASSUME VersionsInv
  PROVE  /\ minted \in Nat
         /\ \A B \in KeySets : B \subseteq 1 .. minted
         /\ \A t \in Tabs : /\ \A k \in FKeys(t), l \in QKeys(t) : k < l
                            /\ FKeys(t) \subseteq 1 .. minted /\ QKeys(t) \subseteq 1 .. minted
                            /\ Flushing(t) <=> FKeys(t) # {}
         /\ \A q \in calls : KeysOf(q.jobs) # {}
<1>1. PICK owner \in Owners : QueuesOf(owner) /\ CallsOf(owner)
  BY DEF VersionsInv, Owned
<1>2. DOMAIN owner = 1 .. minted
  BY DEF Owners
<1>3. \A s : IsBatch(s, owner) => KeysOf(s) \subseteq 1 .. minted
  BY <1>2 DEF IsBatch, KeysOf
<1>4. \A s : IsBatch(s, owner) /\ s # <<>> => KeysOf(s) # {}
  <2>1. ASSUME NEW s, IsBatch(s, owner), s # <<>>
        PROVE  1 \in DOMAIN s
    <3>1. IsSeq(s)
      BY <2>1 DEF IsBatch
    <3>2. QED
      BY <2>1, <3>1, SeqFacts
  <2>2. QED
    BY <2>1 DEF KeysOf
<1>5. ASSUME NEW t \in Tabs
      PROVE  /\ \A k \in FKeys(t), l \in QKeys(t) : k < l
             /\ FKeys(t) \subseteq 1 .. minted /\ QKeys(t) \subseteq 1 .. minted
             /\ Flushing(t) <=> FKeys(t) # {}
  <2>1. IsFlush(flush[t], owner) /\ IsBatch(queue[t], owner) /\ Before(flush[t].jobs, queue[t])
    BY <1>1 DEF QueuesOf
  <2>2. Flushing(t) <=> FKeys(t) # {}
    BY <1>4, <2>1, NothingInFlush DEF IsFlush, Flushing, FKeys
  <2>3. QED
    BY <1>3, <2>1, <2>2 DEF IsFlush, FKeys, QKeys, Before
<1>6. ASSUME NEW q \in calls
      PROVE  KeysOf(q.jobs) \subseteq 1 .. minted /\ KeysOf(q.jobs) # {}
  BY <1>1, <1>3, <1>4 DEF CallsOf, IsCall
<1>7. \A B \in KeySets : B \subseteq 1 .. minted
  BY <1>5, <1>6 DEF KeySets, CallKeys, HandKeys, FKeys, QKeys
<1>8. minted \in Nat
  BY DEF VersionsInv, Owned
<1>9. QED
  BY <1>5, <1>6, <1>7, <1>8

LEMMA LinkedCall ==
  ASSUME HandsInv, NEW t \in Tabs, Flushing(t), NEW q \in calls, q.n = flush[t].call
  PROVE  q.jobs = flush[t].jobs /\ q.heard
BY DEF HandsInv, CallsApart, Linked

\* The run of a queue and what follows it never share a call.
Splits(t, R, S) ==
  /\ QKeys(t) = R \cup S /\ \A k \in R, l \in S : k < l
  /\ \A B \in CallKeys : B \cap R = {} \/ B \cap S = {}

LEMMA RunKeys ==
  ASSUME HandsInv, NEW t \in Tabs, queue[t] # <<>>
  PROVE  Splits(t, KeysOf(Run(t)), KeysOf(AfterRun(t)))
<1> DEFINE R == KeysOf(Run(t))
           S == KeysOf(AfterRun(t))
<1>1. PICK owner \in Owners : QueuesOf(owner) /\ CallsOf(owner)
  BY DEF HandsInv, VersionsInv, Owned
<1>2. IsBatch(queue[t], owner) /\ DOMAIN owner \subseteq Nat
  BY <1>1 DEF QueuesOf, Owners
<1>3. /\ IsBatch(Run(t), owner) /\ OfChat(Run(t), Run(t)[1].chat)
      /\ QKeys(t) = R \cup S /\ Before(Run(t), AfterRun(t))
      /\ \A k \in S : \E f \in S : f <= k /\ owner[f] # Run(t)[1].chat
  BY <1>2, RunSplits DEF QKeys
<1>4. \A k \in R : owner[k] = Run(t)[1].chat
  BY <1>3 DEF KeysOf, IsBatch, OfChat
<1>5. ASSUME NEW q \in calls, NEW k \in KeysOf(q.jobs) \cap R, NEW l \in KeysOf(q.jobs) \cap S
      PROVE  FALSE
  <2>1. \A m \in KeysOf(q.jobs) : owner[m] = q.chat
    BY <1>1 DEF CallsOf, IsCall, IsBatch, KeysOf, OfChat
  <2>2. PICK f \in S : f <= l /\ owner[f] # Run(t)[1].chat
    BY <1>3
  <2>3. f \in HandKeys(t) /\ l \in HandKeys(t) /\ HandKeys(t) \in KeySets
        /\ KeysOf(q.jobs) \in KeySets
    BY <1>3 DEF HandKeys, QKeys, KeySets, CallKeys
  <2>4. f \in Nat /\ l \in Nat
    BY <2>3, KeyFacts DEF HandsInv
  <2>5. f = l \/ f < l
    BY <2>2, <2>4
  <2>6. f \in KeysOf(q.jobs)
    BY <2>3, <2>5 DEF HandsInv, Prefixed, Under
  <2>7. QED
    BY <1>4, <2>1, <2>2, <2>6
<1>6. QED
  BY <1>3, <1>5 DEF Splits, CallKeys, Before

SameKeys(t) == FKeys(t)' = FKeys(t) /\ QKeys(t)' = QKeys(t)
KeysStay == (\A t \in Tabs : SameKeys(t)) /\ CallKeys' \subseteq CallKeys

\* What a step does to the keys of tab t and of the calls.
KeyStep(t) ==
  /\ \A u \in Tabs : u # t => SameKeys(u)
  /\ \/ /\ FKeys(t)' = FKeys(t) /\ QKeys(t)' = QKeys(t) \cup {minted + 1}
        /\ CallKeys' = CallKeys /\ minted' = minted + 1 /\ UNCHANGED rows
     \/ \E R, S : /\ Splits(t, R, S) /\ QKeys(t)' = S
                  /\ CallKeys' \subseteq CallKeys \cup {R} /\ minted' = minted
                  /\ \/ FKeys(t) = {} /\ FKeys(t)' = R
                     \/ FKeys(t)' = FKeys(t)
     \/ /\ FKeys(t)' = {} /\ QKeys(t)' \in {QKeys(t), FKeys(t) \cup QKeys(t)}
        /\ CallKeys' \subseteq CallKeys /\ minted' = minted

LEMMA KeyKinds ==
  ASSUME HandsInv, [SyncNext]_syncVars
  PROVE  \/ KeysStay /\ minted' = minted
         \/ \E t \in Tabs : KeyStep(t)
<1>1. ASSUME UNCHANGED <<queue, flush>>, CallKeys' \subseteq CallKeys
      PROVE  KeysStay
  BY <1>1 DEF KeysStay, SameKeys, FKeys, QKeys
<1>2. ASSUME UNCHANGED calls
      PROVE  CallKeys' = CallKeys
  BY <1>2 DEF CallKeys
<1>3. PICK owner \in Owners : QueuesOf(owner) /\ CallsOf(owner)
  BY DEF HandsInv, VersionsInv, Owned
<1>4. ASSUME NEW t \in Tabs, TabStep(t)
      PROVE  (KeysStay /\ minted' = minted) \/ KeyStep(t)
  <2>1. /\ UNCHANGED <<versionVars, flush>>
        /\ \/ UNCHANGED <<queue, minted>>
           \/ \E c \in Chats : \E s : Enqueue(t, c, s)
    BY <1>4, TabStepFrame DEF HandsInv, VersionsInv
  <2>2. UNCHANGED calls /\ UNCHANGED rows
    BY <2>1 DEF versionVars
  <2>3. CASE UNCHANGED <<queue, minted>>
    BY <1>1, <1>2, <2>1, <2>2, <2>3
  <2>4. CASE \E c \in Chats : \E s : Enqueue(t, c, s)
    <3>1. PICK c \in Chats : \E s : Enqueue(t, c, s)
      BY <2>4
    <3>2. PICK s : Enqueue(t, c, s)
      BY <3>1
    <3>3. PICK wider \in [1 .. minted' -> Chats], k \in 1 .. minted' : EnqueuedAs(t, s, k, wider)
      BY <1>3, <3>2, EnqueueEffect DEF HandsInv, VersionsInv, Owned
    <3>4. /\ \A u \in Tabs : u # t => SameKeys(u)
          /\ FKeys(t)' = FKeys(t) /\ QKeys(t)' = QKeys(t) \cup {k}
          /\ CallKeys' = CallKeys
      BY <1>2, <2>1, <2>2, <3>3 DEF EnqueuedAs, SameKeys, FKeys, QKeys
    <3>5. CASE k \in QKeys(t) /\ minted' = minted
      BY <3>4, <3>5 DEF KeysStay, SameKeys
    <3>6. CASE k = minted + 1 /\ minted' = minted + 1
      BY <2>2, <3>4, <3>6 DEF KeyStep
    <3>7. QED
      BY <3>3, <3>5, <3>6 DEF EnqueuedAs, QKeys
  <2>5. QED
    BY <2>1, <2>3, <2>4
<1>5. ASSUME NEW t \in Tabs, WriterStep(t)
      PROVE  KeysStay /\ minted' = minted
  <2>1. UNCHANGED <<queueVars, calls>>
    BY <1>5 DEF WriterStep, TurnAnswered, ReplacementAccepted, RejectionInserts, RejectionMoves,
                Appends, Accepts, RejectInserts, RejectMoves, versionVars
  <2>2. QED
    BY <1>1, <1>2, <2>1 DEF queueVars
<1>6. ASSUME NEW t \in Tabs, QueueStep(t)
      PROVE  (KeysStay /\ minted' = minted) \/ KeyStep(t)
  <2>1. minted' = minted
    BY <1>6, QueueCalls
  <2>2. ASSUME Others(t)
        PROVE  \A u \in Tabs : u # t => SameKeys(u)
    BY <2>2 DEF Others, SameKeys, FKeys, QKeys
  <2>4. \A q \in calls : Unheard(q).jobs = q.jobs
    BY <1>3, UnheardIs DEF CallsOf, IsCall, SameCall
  <2>5. KeysOf(<<>>) = {} /\ NoFlush.jobs = <<>>
    BY NothingInFlush
  <2>6. CASE QStart(t)
    <3>1. /\ queue[t] # <<>> /\ FKeys(t) = {} /\ FKeys(t)' = KeysOf(Run(t))
          /\ QKeys(t)' = KeysOf(AfterRun(t)) /\ Others(t)
      BY <2>5, <2>6 DEF QStart, Flushing, FKeys, QKeys
    <3>2. CallKeys' \subseteq CallKeys \cup {KeysOf(Run(t))}
      BY <2>6 DEF QStart, SentAs, CallKeys
    <3>3. Splits(t, KeysOf(Run(t)), KeysOf(AfterRun(t)))
      BY <3>1, RunKeys
    <3>4. QED
      BY <2>1, <2>2, <3>1, <3>2, <3>3 DEF KeyStep
  <2>7. CASE QBeacon(t)
    <3>1. /\ queue[t] # <<>> /\ FKeys(t)' = FKeys(t)
          /\ QKeys(t)' = KeysOf(AfterRun(t)) /\ Others(t)
      BY <2>7 DEF QBeacon, FKeys, QKeys
    <3>2. CallKeys' \subseteq CallKeys \cup {KeysOf(Run(t))}
      BY <2>7 DEF QBeacon, SentAs, CallKeys
    <3>3. Splits(t, KeysOf(Run(t)), KeysOf(AfterRun(t)))
      BY <3>1, RunKeys
    <3>4. QED
      BY <2>1, <2>2, <3>1, <3>2, <3>3 DEF KeyStep
  <2>8. ASSUME NEW q \in calls, QRetry(t, q)
        PROVE  KeysStay
    <3>1. q.jobs = flush[t].jobs
      BY <2>8, LinkedCall DEF QRetry
    <3>2. \A r \in calls' : r \in calls \/ r = Unheard(q) \/ r.jobs = flush[t].jobs
      BY <2>8 DEF QRetry, SentAs, Stays
    <3>3. CallKeys' \subseteq CallKeys
      BY <2>4, <3>1, <3>2 DEF CallKeys
    <3>4. SameKeys(t) /\ Others(t)
      BY <2>8 DEF QRetry, SameKeys, FKeys, QKeys
    <3>5. QED
      BY <2>2, <3>3, <3>4 DEF KeysStay
  <2>9. ASSUME NEW q \in calls, QEnd(t, q)
        PROVE  KeyStep(t)
    <3>1. CallKeys' \subseteq CallKeys
      BY <2>4, <2>9 DEF QEnd, Stays, CallKeys
    <3>2. Others(t) /\ FKeys(t)' = {} /\ QKeys(t)' = QKeys(t)
      BY <2>5, <2>9 DEF QEnd, FKeys, QKeys
    <3>3. QED
      BY <2>1, <2>2, <3>1, <3>2 DEF KeyStep
  <2>10. ASSUME NEW q \in calls, QPutBack(t, q)
         PROVE  KeyStep(t)
    <3>1. CallKeys' \subseteq CallKeys
      BY <2>10 DEF QPutBack, CallKeys
    <3>2. KeysOf(flush[t].jobs \o queue[t]) = FKeys(t) \cup QKeys(t)
      <4>1. IsBatch(flush[t].jobs, owner) /\ IsBatch(queue[t], owner) /\ Before(flush[t].jobs, queue[t])
        BY <1>3 DEF QueuesOf, IsFlush
      <4>2. QED
        BY <4>1, BatchConcat DEF FKeys, QKeys
    <3>3. Others(t) /\ FKeys(t)' = {} /\ QKeys(t)' = FKeys(t) \cup QKeys(t)
      BY <2>5, <2>10, <3>2 DEF QPutBack, FKeys, QKeys
    <3>4. QED
      BY <2>1, <2>2, <3>1, <3>3 DEF KeyStep
  <2>11. QED
    BY <1>6, <2>1, <2>6, <2>7, <2>8, <2>9, <2>10, QueueKinds DEF HandsInv
<1>7. ASSUME ServerStep
      PROVE  KeysStay /\ minted' = minted
  <2>1. PICK q \in calls : \E r : ServedAs(q, r)
    BY <1>3, <1>7, ServerKinds
  <2>2. CallKeys' \subseteq CallKeys
    BY <2>1 DEF ServedAs, SameCall, CallKeys
  <2>3. QED
    BY <1>1, <1>7, <2>2 DEF ServerStep, queueVars
<1>8. CASE UNCHANGED syncVars
  BY <1>1, <1>2, <1>8 DEF syncVars, versionVars, queueVars
<1>9. QED
  BY <1>4, <1>5, <1>6, <1>7, <1>8, StepKinds


LEMMA KeyStepKeeps ==
  ASSUME HandsInv, NEW t \in Tabs, KeyStep(t)
  PROVE  HandsApart' /\ Prefixed'
<1> DEFINE F == FKeys(t)
           Q == QKeys(t)
           H == HandKeys(t)
           G == HandKeys(t)'
           Other == {HandKeys(u) : u \in Tabs \ {t}}
<1>1. /\ minted \in Nat /\ H = F \cup Q /\ F \subseteq 1 .. minted /\ Q \subseteq 1 .. minted
      /\ \A k \in F, l \in Q : k < l
      /\ \A B \in KeySets : B \subseteq 1 .. minted
  BY KeyFacts DEF HandsInv, HandKeys
<1>2. /\ \A A, B \in KeySets : Under(A, B)
      /\ H \in KeySets /\ CallKeys \subseteq KeySets /\ Other \subseteq KeySets
      /\ \A B \in CallKeys, u \in Tabs : B \cap FKeys(u) # {} => B \cap QKeys(u) = {}
  BY DEF HandsInv, Prefixed, KeySets
<1>3. \A A \in Other : A \cap H = {}
  BY DEF HandsInv, HandsApart
<1>4. \A u \in Tabs : u # t =>
        /\ HandKeys(u)' = HandKeys(u) /\ FKeys(u)' = FKeys(u) /\ QKeys(u)' = QKeys(u)
        /\ HandKeys(u) \in Other
  BY DEF KeyStep, SameKeys, HandKeys
<1>5. G = FKeys(t)' \cup QKeys(t)'
  BY DEF HandKeys
<1>6. \A A \in KeySets' : A = G \/ A \in Other \/ A \in CallKeys'
  BY <1>4 DEF KeySets
<1>7. ASSUME G \subseteq H \cup {minted + 1}
      PROVE  HandsApart'
  <2>1. \A A \in Other : A \cap G = {}
    <3>1. \A A \in Other : minted + 1 \notin A
      BY <1>1, <1>2
    <3>2. QED
      BY <1>3, <1>7, <3>1
  <2>2. \A u, w \in Tabs : u # t /\ w # t /\ u # w => HandKeys(u)' \cap HandKeys(w)' = {}
    BY <1>4 DEF HandsInv, HandsApart
  <2>3. \A u \in Tabs : u # t => HandKeys(u)' \cap G = {}
    BY <1>4, <2>1
  <2>4. QED
    BY <2>2, <2>3 DEF HandsApart
<1> DEFINE One == \A A, B \in KeySets' : Under(A, B)
           Two == \A B \in CallKeys', u \in Tabs : B \cap FKeys(u)' # {} => B \cap QKeys(u)' = {}
<1>8. ASSUME One, Two
      PROVE  Prefixed'
  BY <1>8 DEF Prefixed
<1> HIDE DEF F, Q, H, G, Other
<1>9. CASE /\ FKeys(t)' = F /\ QKeys(t)' = Q \cup {minted + 1} /\ CallKeys' = CallKeys
  <2>1. G = H \cup {minted + 1}
    BY <1>1, <1>5, <1>9
  <2>2. \A A \in KeySets' : A = G \/ A \in KeySets
    BY <1>2, <1>6, <1>9
  <2>3. \A B \in KeySets : \A k \in B : k \in Nat /\ k # minted + 1 /\ k < minted + 1
    BY <1>1, <1>2
  <2>4. \A B \in KeySets : Under(G, B)
    BY <1>2, <2>1, <2>3 DEF Under
  <2>5. \A B \in KeySets : Under(B, G)
    <3>1. ASSUME NEW B \in KeySets, NEW l \in B \cap G, NEW k \in G, k < l
          PROVE  k \in B
      <4>1. l \in H /\ k # minted + 1
        BY <1>1, <2>1, <2>3, <3>1
      <4>2. k \in H
        BY <2>1, <4>1
      <4>3. QED
        BY <1>2, <3>1, <4>1, <4>2 DEF Under
    <3>2. QED
      BY <3>1 DEF Under
  <2>6. One
    BY <1>2, <2>2, <2>4, <2>5 DEF Under
  <2>7. Two
    <3>1. ASSUME NEW B \in CallKeys, NEW u \in Tabs, B \cap FKeys(u)' # {}
          PROVE  B \cap QKeys(u)' = {}
      <4>1. minted + 1 \notin B
        BY <1>2, <2>3
      <4>2. FKeys(u)' = FKeys(u) /\ QKeys(u)' \subseteq QKeys(u) \cup {minted + 1}
        BY <1>4, <1>9 DEF F, Q
      <4>3. QED
        BY <1>2, <3>1, <4>1, <4>2
    <3>2. QED
      BY <1>9, <3>1
  <2>8. QED
    BY <1>7, <1>8, <2>1, <2>6, <2>7
<1>10. ASSUME NEW R, NEW S, Splits(t, R, S), QKeys(t)' = S, CallKeys' \subseteq CallKeys \cup {R},
              FKeys(t)' = F \/ (F = {} /\ FKeys(t)' = R)
       PROVE  HandsApart' /\ Prefixed'
  <2>1. /\ Q = R \cup S /\ \A k \in R, l \in S : k < l
        /\ \A B \in CallKeys : B \cap R = {} \/ B \cap S = {}
    BY <1>10 DEF Splits, Q
  <2>2. /\ \A k \in H : k \in Nat
        /\ R \cap S = {} /\ R \cap F = {} /\ R \subseteq H /\ G \subseteq H
        /\ \A k \in R, l \in R : k < l => l \in H /\ k \in H
    <3>1. \A k \in H : k \in Nat
      BY <1>1
    <3>2. R \subseteq H /\ S \subseteq H /\ F \subseteq H
      BY <1>1, <2>1
    <3>3. R \cap S = {}
      BY <2>1, <3>1, <3>2
    <3>4. R \cap F = {}
      BY <1>1, <2>1, <3>1, <3>2
    <3>5. G \subseteq H
      BY <1>5, <1>10, <3>2
    <3>6. QED
      BY <3>1, <3>2, <3>3, <3>4, <3>5
  <2>3. \A A \in KeySets' : A = G \/ A = R \/ A \in Other \/ A \in CallKeys
    BY <1>6, <1>10
  <2>4. \A B \in Other \cup CallKeys : Under(R, B) /\ Under(B, R)
    <3>1. ASSUME NEW B \in Other \cup CallKeys, NEW l \in R \cap B, NEW k \in B, k < l
          PROVE  k \in R
      <4>1. k \in H
        BY <1>2, <2>2, <3>1 DEF Under
      <4>2. k \notin S
        BY <2>1, <2>2, <3>1, <4>1
      <4>3. k \notin F
        BY <1>2, <1>3, <2>1, <3>1, <4>1 DEF F, Q
      <4>4. QED
        BY <1>1, <2>1, <4>1, <4>2, <4>3
    <3>2. ASSUME NEW B \in Other \cup CallKeys, NEW l \in B \cap R, NEW k \in R, k < l
          PROVE  k \in B
      BY <1>2, <2>2, <3>2 DEF Under
    <3>3. QED
      BY <3>1, <3>2 DEF Under
  <2>5. R \cap G = {} \/ (F = {} /\ G = H)
    BY <1>1, <1>5, <1>10, <2>1, <2>2
  <2>6. Under(R, G) /\ Under(G, R)
    <3>1. CASE R \cap G = {}
      BY <3>1 DEF Under
    <3>2. CASE F = {} /\ G = H
      <4>1. H = R \cup S
        BY <1>1, <2>1, <3>2
      <4>2. \A k \in S, l \in R : ~(k < l)
        BY <2>1, <2>2, <4>1
      <4>3. QED
        BY <3>2, <4>1, <4>2 DEF Under
    <3>3. QED
      BY <2>5, <3>1, <3>2
  <2>7. \A B \in Other : B \cap G = {}
    BY <1>3, <2>2
  <2>8. \A B \in Other : Under(G, B) /\ Under(B, G)
    BY <2>7 DEF Under
  <2>9. ASSUME NEW B \in CallKeys
        PROVE  Under(G, B) /\ Under(B, G)
    <3>1. Under(B, G)
      BY <1>2, <2>2 DEF Under
    <3>2. ASSUME NEW l \in G \cap B, NEW k \in B, k < l
          PROVE  k \in G
      <4>1. k \in H /\ l \in H /\ k \in Nat /\ l \in Nat
        BY <1>2, <2>2, <3>2 DEF Under
      <4>2. CASE G = H
        BY <4>1, <4>2
      <4>3. CASE FKeys(t)' = F
        <5>1. G = F \cup S
          BY <1>5, <1>10, <4>3
        <5>2. ASSUME k \in R
              PROVE  FALSE
          <6>1. l \notin S
            BY <2>1, <3>2, <5>2
          <6>2. l \in F
            BY <3>2, <5>1, <6>1
          <6>3. l < k
            BY <1>1, <2>1, <5>2, <6>2
          <6>4. QED
            BY <3>2, <4>1, <6>3
        <5>3. QED
          BY <1>1, <2>1, <4>1, <5>1, <5>2
      <4>4. QED
        BY <1>1, <1>5, <1>10, <2>1, <4>2, <4>3
    <3>3. QED
      BY <3>1, <3>2 DEF Under
  <2>10. One
    <3>1. \A A : Under(A, A)
      BY DEF Under
    <3>2. \A A, B \in Other \cup CallKeys : Under(A, B)
      BY <1>2
    <3>3. QED
      BY <2>3, <2>4, <2>6, <2>8, <2>9, <3>1, <3>2
  <2>11. Two
    <3>1. ASSUME NEW B \in CallKeys', NEW u \in Tabs, B \cap FKeys(u)' # {}
          PROVE  B \cap QKeys(u)' = {}
      <4>1. CASE u # t
        <5>1. FKeys(u)' = FKeys(u) /\ QKeys(u)' = QKeys(u) /\ HandKeys(u) \in Other
          BY <1>4, <4>1
        <5>2. CASE B = R
          BY <1>3, <2>2, <3>1, <5>1, <5>2 DEF HandKeys
        <5>3. CASE B \in CallKeys
          BY <1>2, <3>1, <5>1, <5>3
        <5>4. QED
          BY <1>10, <5>2, <5>3
      <4>2. CASE u = t
        <5>1. CASE B = R
          BY <1>10, <2>2, <4>2, <5>1
        <5>2. CASE B \in CallKeys /\ FKeys(t)' = F
          <6>1. B \cap Q = {}
            BY <1>2, <3>1, <4>2, <5>2 DEF F, Q
          <6>2. QED
            BY <1>10, <2>1, <4>2, <6>1
        <5>3. CASE B \in CallKeys /\ FKeys(t)' = R
          BY <1>10, <2>1, <3>1, <4>2, <5>3
        <5>4. QED
          BY <1>10, <5>1, <5>2, <5>3
      <4>3. QED
        BY <4>1, <4>2
    <3>2. QED
      BY <3>1
  <2>12. QED
    BY <1>7, <1>8, <2>2, <2>10, <2>11
<1>11. CASE /\ FKeys(t)' = {} /\ QKeys(t)' \in {Q, F \cup Q} /\ CallKeys' \subseteq CallKeys
  <2>1. G = H \/ G = Q
    BY <1>1, <1>5, <1>11
  <2>2. G \subseteq H /\ \A A \in KeySets' : A = G \/ A \in Other \/ A \in CallKeys
    BY <1>1, <1>6, <1>11, <2>1
  <2>3. \A B \in Other : Under(G, B) /\ Under(B, G)
    BY <1>3, <2>2 DEF Under
  <2>4. ASSUME NEW B \in CallKeys
        PROVE  Under(G, B) /\ Under(B, G)
    <3>1. Under(B, G)
      BY <1>2, <2>2 DEF Under
    <3>2. ASSUME NEW l \in G \cap B, NEW k \in B, k < l
          PROVE  k \in G
      <4>1. k \in H
        BY <1>2, <2>2, <3>2 DEF Under
      <4>2. CASE G = Q
        <5>1. B \cap F = {}
          BY <1>2, <3>2, <4>2 DEF F, Q
        <5>2. QED
          BY <1>1, <3>2, <4>1, <4>2, <5>1
      <4>3. QED
        BY <2>1, <4>1, <4>2
    <3>3. QED
      BY <3>1, <3>2 DEF Under
  <2>5. One
    <3>1. \A A : Under(A, A)
      BY DEF Under
    <3>2. QED
      BY <1>2, <2>2, <2>3, <2>4, <3>1
  <2>6. Two
    <3>1. ASSUME NEW B \in CallKeys', NEW u \in Tabs, B \cap FKeys(u)' # {}
          PROVE  B \cap QKeys(u)' = {}
      <4>1. u # t
        BY <1>11, <3>1
      <4>2. FKeys(u)' = FKeys(u) /\ QKeys(u)' = QKeys(u) /\ B \in CallKeys
        BY <1>4, <1>11, <4>1
      <4>3. QED
        BY <1>2, <3>1, <4>2
    <3>2. QED
      BY <3>1
  <2>7. QED
    BY <1>7, <1>8, <2>2, <2>5, <2>6
<1>12. QED
  BY <1>9, <1>10, <1>11 DEF KeyStep, F, Q

LEMMA KeysStayKeeps ==
  ASSUME HandsInv, KeysStay
  PROVE  HandsApart' /\ Prefixed'
<1>1. \A t \in Tabs : /\ FKeys(t)' = FKeys(t) /\ QKeys(t)' = QKeys(t)
                      /\ HandKeys(t)' = HandKeys(t)
  BY DEF KeysStay, SameKeys, HandKeys
<1>2. CallKeys' \subseteq CallKeys /\ KeySets' \subseteq KeySets
  BY <1>1 DEF KeysStay, KeySets
<1>3. HandsApart'
  BY <1>1 DEF HandsInv, HandsApart
<1>4. Prefixed'
  BY <1>1, <1>2 DEF HandsInv, Prefixed
<1>5. QED
  BY <1>3, <1>4

LEMMA CallsStep ==
  ASSUME HandsInv, [SyncNext]_syncVars
  PROVE  CallsApart' /\ Linked'
<1>1. PICK owner \in Owners : QueuesOf(owner) /\ CallsOf(owner)
  BY DEF HandsInv, VersionsInv, Owned
<1>2. CallsApart /\ Linked
  BY DEF HandsInv
<1>3. ASSUME UNCHANGED <<calls, flush>>
      PROVE  CallsApart' /\ Linked'
  BY <1>2, <1>3 DEF CallsApart, Linked, Flushing
<1>4. ASSUME NEW t \in Tabs, TabStep(t)
      PROVE  UNCHANGED <<calls, flush>>
  BY <1>4, TabStepFrame DEF HandsInv, VersionsInv, versionVars
<1>5. ASSUME NEW t \in Tabs, WriterStep(t)
      PROVE  UNCHANGED <<calls, flush>>
  BY <1>5 DEF WriterStep, TurnAnswered, ReplacementAccepted, RejectionInserts, RejectionMoves,
              Appends, Accepts, RejectInserts, RejectMoves, versionVars, queueVars
<1>6. CASE ServerStep
  <2>1. PICK q \in calls : \E r : ServedAs(q, r)
    BY <1>1, <1>6, ServerKinds
  <2>2. PICK r : ServedAs(q, r)
    BY <2>1
  <2>3. UNCHANGED flush /\ r.n = q.n /\ r.jobs = q.jobs /\ r.heard = q.heard
    BY <1>6, <2>2 DEF ServerStep, queueVars, ServedAs, SameCall
  <2>4. CallsApart'
    BY <1>2, <2>2, <2>3 DEF CallsApart, ServedAs
  <2>5. Linked'
    <3>1. ASSUME NEW t \in Tabs, Flushing(t)
          PROVE  \E p \in calls' : p.n = flush[t].call /\ p.jobs = flush[t].jobs /\ p.heard
      <4>1. PICK p \in calls : p.n = flush[t].call /\ p.jobs = flush[t].jobs /\ p.heard
        BY <1>2, <3>1 DEF Linked
      <4>2. CASE p = q
        BY <2>2, <2>3, <4>1, <4>2 DEF ServedAs
      <4>3. CASE p # q
        BY <2>2, <4>1, <4>3 DEF ServedAs
      <4>4. QED
        BY <4>2, <4>3
    <3>2. QED
      BY <2>3, <3>1 DEF Linked, Flushing
  <2>6. QED
    BY <2>4, <2>5
<1>7. ASSUME NEW t \in Tabs, NEW rest, NEW n \in FreeNumbers(rest), NEW r, r.n = n,
             calls' = rest \cup {r}, \A p, q \in rest : p.n = q.n => p = q
      PROVE  CallsApart'
  BY <1>7 DEF CallsApart, FreeNumbers
<1>8. ASSUME NEW q \in calls, NEW rest, Stays(q, rest)
      PROVE  \A p, r \in rest : p.n = r.n => p = r
  <2>1. Unheard(q).n = q.n
    BY <1>1, UnheardIs DEF CallsOf, IsCall, SameCall
  <2>2. QED
    BY <1>2, <1>8, <2>1 DEF CallsApart, Stays
\* The calls of the other tabs are not touched.
<1>9. ASSUME NEW t \in Tabs, Others(t), \A q \in calls : q.n # flush[t].call => q \in calls',
             NEW u \in Tabs, u # t, Flushing(t), (Flushing(u))'
      PROVE  (\E q \in calls : q.n = flush[u].call /\ q.jobs = flush[u].jobs /\ q.heard)'
  <2>1. Flushing(u) /\ flush'[u] = flush[u]
    BY <1>9 DEF Others, Flushing
  <2>2. PICK q \in calls : q.n = flush[u].call /\ q.jobs = flush[u].jobs /\ q.heard
    BY <1>2, <2>1 DEF Linked
  <2>3. q.jobs # flush[t].jobs
    <3>1. FKeys(t) # {} /\ FKeys(t) \cap FKeys(u) = {}
      BY <1>9, KeyFacts DEF HandsInv, HandsApart, HandKeys
    <3>2. QED
      BY <2>2, <3>1 DEF FKeys
  <2>4. q.n # flush[t].call
    BY <1>9, <2>3, LinkedCall
  <2>5. QED
    BY <1>9, <2>1, <2>2, <2>4
<1>10. ASSUME NEW t \in Tabs, Others(t), calls \subseteq calls',
              NEW u \in Tabs, u # t, (Flushing(u))'
       PROVE  (\E q \in calls : q.n = flush[u].call /\ q.jobs = flush[u].jobs /\ q.heard)'
  <2>1. Flushing(u) /\ flush'[u] = flush[u]
    BY <1>10 DEF Others, Flushing
  <2>2. PICK q \in calls : q.n = flush[u].call /\ q.jobs = flush[u].jobs /\ q.heard
    BY <1>2, <2>1 DEF Linked
  <2>3. QED
    BY <1>10, <2>1, <2>2
<1>11. ASSUME NEW t \in Tabs, QStart(t) \/ QBeacon(t)
       PROVE  CallsApart' /\ Linked'
  <2>0. PICK n \in FreeNumbers(calls) : \E r :
          /\ SentAs(r, n, Run(t)[1].chat, belief[t], Run(t)) /\ calls' = calls \cup {r}
          /\ \/ flush'[t].jobs = Run(t) /\ flush'[t].call = n /\ r.heard
             \/ flush'[t] = flush[t]
    BY <1>11 DEF QStart, QBeacon
  <2>1. PICK r : /\ SentAs(r, n, Run(t)[1].chat, belief[t], Run(t)) /\ calls' = calls \cup {r}
                 /\ \/ flush'[t].jobs = Run(t) /\ flush'[t].call = n /\ r.heard
                    \/ flush'[t] = flush[t]
    BY <2>0
  <2>2. r.n = n /\ r.jobs = Run(t)
    BY <2>1 DEF SentAs
  <2>3. CallsApart'
    BY <1>2, <1>7, <2>1, <2>2 DEF CallsApart
  <2>4. Others(t)
    BY <1>11 DEF QStart, QBeacon
  <2>5. (Flushing(t))' => (\E q \in calls : q.n = flush[t].call /\ q.jobs = flush[t].jobs /\ q.heard)'
    BY <1>2, <2>1, <2>2 DEF Linked, Flushing
  <2>6. Linked'
    BY <1>10, <2>1, <2>4, <2>5 DEF Linked
  <2>7. QED
    BY <2>3, <2>6
<1>12. ASSUME NEW t \in Tabs, NEW q \in calls, QRetry(t, q)
       PROVE  CallsApart' /\ Linked'
  <2>1. PICK rest : \E n \in FreeNumbers(rest) : \E r :
          /\ Stays(q, rest) /\ r.n = n /\ r.jobs = flush[t].jobs /\ r.heard
          /\ flush'[t].call = n /\ calls' = rest \cup {r}
    BY <1>12 DEF QRetry, SentAs
  <2>2. PICK n \in FreeNumbers(rest) : \E r :
          /\ Stays(q, rest) /\ r.n = n /\ r.jobs = flush[t].jobs /\ r.heard
          /\ flush'[t].call = n /\ calls' = rest \cup {r}
    BY <2>1
  <2>3. PICK r : /\ Stays(q, rest) /\ r.n = n /\ r.jobs = flush[t].jobs /\ r.heard
                 /\ flush'[t].call = n /\ calls' = rest \cup {r}
    BY <2>2
  <2>4. CallsApart'
    BY <1>7, <1>8, <2>2, <2>3
  <2>5. /\ Flushing(t) /\ Others(t) /\ flush'[t].jobs = flush[t].jobs
        /\ \A p \in calls : p.n # flush[t].call => p \in calls'
    BY <1>12, <2>3 DEF QRetry, Stays
  <2>6. Linked'
    BY <1>9, <2>3, <2>5 DEF Linked
  <2>7. QED
    BY <2>4, <2>6
<1>13. ASSUME NEW t \in Tabs, NEW q \in calls, QEnd(t, q) \/ QPutBack(t, q)
       PROVE  CallsApart' /\ Linked'
  <2>1. /\ Stays(q, calls') /\ Flushing(t) /\ q.n = flush[t].call /\ Others(t)
        /\ flush'[t] = NoFlush
    BY <1>13 DEF QEnd, QPutBack, Stays
  <2>2. CallsApart'
    BY <1>8, <2>1 DEF CallsApart
  <2>3. \A p \in calls : p.n # flush[t].call => p \in calls'
    BY <2>1 DEF Stays
  <2>4. Linked'
    BY <1>9, <2>1, <2>3 DEF Linked, Flushing
  <2>5. QED
    BY <2>2, <2>4
<1>14. ASSUME NEW t \in Tabs, QueueStep(t)
       PROVE  CallsApart' /\ Linked'
  BY <1>11, <1>12, <1>13, <1>14, QueueKinds DEF HandsInv
<1>15. CASE UNCHANGED syncVars
  BY <1>3, <1>15 DEF syncVars, versionVars, queueVars
<1>16. QED
  BY <1>3, <1>4, <1>5, <1>6, <1>14, <1>15, StepKinds

LEMMA HandsStep ==
  ASSUME HandsInv, [SyncNext]_syncVars
  PROVE  HandsInv'
<1>1. VersionsInv'
  BY VersionsStep DEF HandsInv
<1>2. QED
  BY <1>1, CallsStep, KeyKinds, KeyStepKeeps, KeysStayKeeps DEF HandsInv

LEMMA InitHands == SyncInit => HandsInv
<1>1. SUFFICES ASSUME SyncInit PROVE HandsInv
  OBVIOUS
<1>2. VersionsInv
  BY <1>1, InitVersionsInv
<1>3. calls = {} /\ \A t \in Tabs : queue[t] = <<>> /\ flush[t] = NoFlush
  BY <1>1 DEF SyncInit, VersionsInit
<1>4. KeysOf(<<>>) = {} /\ NoFlush.jobs = <<>>
  BY NothingInFlush
<1>5. \A t \in Tabs : HandKeys(t) = {} /\ ~Flushing(t)
  BY <1>3, <1>4 DEF HandKeys, FKeys, QKeys, Flushing
<1>6. CallKeys = {} /\ \A B \in KeySets : B = {}
  BY <1>3, <1>5 DEF KeySets, CallKeys
<1>7. CallsApart /\ Linked /\ HandsApart
  BY <1>3, <1>5 DEF CallsApart, Linked, HandsApart
<1>8. Prefixed
  BY <1>6 DEF Prefixed, Under
<1>9. QED
  BY <1>2, <1>7, <1>8 DEF HandsInv


-----------------------------------------------------------------------------
(* What a turn moves *)

Settled(t) == turn[t].stage \in {"answered", "accepted", "rejected"}

\* How a step of the turn of tab t moves versions and heads.
TurnMoves(t) ==
  \/ turn'[t].stage \in {"none", "asked", "rejecting"} /\ UNCHANGED <<rows, head>>
  \/ /\ turn[t].stage = "offered" /\ turn'[t].stage = "deciding" /\ turn'[t].id = turn[t].id
     /\ UNCHANGED <<rows, head>>
  \/ /\ Waiting(t) /\ turn'[t].stage \in {"accepted", "rejected"} /\ turn'[t].id = turn[t].id
     /\ UNCHANGED rows /\ head' = [head EXCEPT ![turn[t].chat] = turn[t].id]
  \/ /\ \E p, s : rows' = Append(rows, Row(turn[t].chat, p, s, NoKey))
     /\ turn'[t].id = Len(rows) + 1
     /\ \/ turn'[t].stage \in {"offered", "reverting"} /\ UNCHANGED head
        \/ turn'[t].stage = "answered" /\ head' = [head EXCEPT ![turn[t].chat] = Len(rows) + 1]

LEMMA TurnKinds ==
  ASSUME TabTypes, NEW t \in Tabs, TurnStep(t)
  PROVE  /\ \A u \in Tabs : u # t => turn'[u] = turn[u]
         /\ TurnMoves(t)
         /\ UNCHANGED <<calls, flush>>
         /\ \A u \in Tabs : /\ belief'[u] = belief[u] \/ (u = t /\ Settled(t) /\ belief'[u] = turn[t].id)
                            /\ loading'[u].id = loading[u].id \/ loading'[u].id = 0
<1> USE DEF queueVars, tabVars, versionVars, Quiet
<1>1. /\ DOMAIN turn = Tabs /\ DOMAIN turn[t] = TurnFields /\ turn[t].chat \in Chats
      /\ DOMAIN belief = Tabs /\ DOMAIN loading = Tabs
  BY DEF TabTypes
<1>2. ASSUME NEW r, TurnGoes(t, r)
      PROVE  turn'[t] = r /\ \A u \in Tabs : u # t => turn'[u] = turn[u]
  BY <1>1, <1>2 DEF TurnGoes
<1>3. ASSUME TurnOver(t)
      PROVE  turn'[t].stage = "none" /\ \A u \in Tabs : u # t => turn'[u] = turn[u]
  BY <1>1, <1>3 DEF TurnOver, TurnGoes, TurnFields
<1>4. NoLoad.id = 0 /\ [stage |-> "asked", id |-> 0].id = 0
  BY DEF NoLoad
<1>5. ASSUME UNCHANGED <<belief, loading>>
      PROVE  \A u \in Tabs : /\ belief'[u] = belief[u] \/ (u = t /\ Settled(t) /\ belief'[u] = turn[t].id)
                             /\ loading'[u].id = loading[u].id \/ loading'[u].id = 0
  BY <1>5
<1>6. ASSUME Settled(t), belief' = [belief EXCEPT ![t] = turn[t].id],
             loading' = loading \/ loading' = [loading EXCEPT ![t] = NoLoad]
      PROVE  \A u \in Tabs : /\ belief'[u] = belief[u] \/ (u = t /\ Settled(t) /\ belief'[u] = turn[t].id)
                             /\ loading'[u].id = loading[u].id \/ loading'[u].id = 0
  BY <1>1, <1>4, <1>6
<1>7. CASE Submit(t)
  <2> DEFINE r == [stage |-> "asked", chat |-> chat[t], id |-> 0, other |-> 0]
  <2>1. TurnGoes(t, r) /\ r.stage = "asked"
    BY <1>7 DEF Submit
  <2>2. turn'[t].stage = "asked" /\ \A u \in Tabs : u # t => turn'[u] = turn[u]
    BY <1>2, <2>1
  <2>3. QED
    BY <1>5, <1>7, <2>2 DEF Submit, TurnMoves
<1>8. CASE TurnAnswered(t)
  <2>1. UNCHANGED <<calls, flush, belief, loading>>
    BY <1>8 DEF TurnAnswered, Appends
  <2>2. CASE TurnOver(t) /\ UNCHANGED versionVars
    BY <1>3, <1>5, <2>1, <2>2 DEF TurnMoves
  <2>3. CASE \E bump \in BOOLEAN : \E st, s :
               /\ st = IF bump THEN "answered" ELSE "offered"
               /\ Appends(turn[t].chat, s, bump)
               /\ TurnGoes(t, [turn[t] EXCEPT !.stage = st, !.id = Len(rows) + 1])
    <3>1. PICK bump \in BOOLEAN : \E st, s :
               /\ st = IF bump THEN "answered" ELSE "offered"
               /\ Appends(turn[t].chat, s, bump)
               /\ TurnGoes(t, [turn[t] EXCEPT !.stage = st, !.id = Len(rows) + 1])
      BY <2>3
    <3>2. PICK st, s :
               /\ st = IF bump THEN "answered" ELSE "offered"
               /\ Appends(turn[t].chat, s, bump)
               /\ TurnGoes(t, [turn[t] EXCEPT !.stage = st, !.id = Len(rows) + 1])
      BY <3>1
    <3> DEFINE r == [turn[t] EXCEPT !.stage = st, !.id = Len(rows) + 1]
    <3>3. r.stage = st /\ r.id = Len(rows) + 1 /\ TurnGoes(t, r)
      BY <1>1, <3>2 DEF TurnFields
    <3> HIDE DEF r
    <3>4. turn'[t].stage = st /\ turn'[t].id = Len(rows) + 1 /\ \A u \in Tabs : u # t => turn'[u] = turn[u]
      BY <1>2, <3>3
    <3>5. /\ rows' = Append(rows, Row(turn[t].chat, head[turn[t].chat], s, NoKey))
          /\ \/ st = "offered" /\ UNCHANGED head
             \/ st = "answered" /\ head' = [head EXCEPT ![turn[t].chat] = Len(rows) + 1]
      BY <3>2 DEF Appends
    <3>6. TurnMoves(t)
      BY <3>4, <3>5 DEF TurnMoves
    <3>7. QED
      BY <1>5, <2>1, <3>4, <3>6
  <2>4. QED
    BY <1>8, <2>2, <2>3 DEF TurnAnswered
<1>9. CASE TurnShown(t)
  <2>1. UNCHANGED <<calls, flush, rows, head>> /\ TurnOver(t) /\ Settled(t)
    BY <1>9 DEF TurnShown, Settled, TurnAt
  <2>2. CASE Resolves(t, turn[t].id)
    BY <1>3, <1>6, <2>1, <2>2 DEF Resolves, TurnMoves
  <2>3. CASE UNCHANGED <<tabVars, loading>>
    BY <1>3, <1>5, <2>1, <2>3 DEF TurnMoves
  <2>4. QED
    BY <1>9, <2>2, <2>3 DEF TurnShown
<1>10. CASE OfferShown(t)
  <2>1. /\ UNCHANGED <<calls, flush, rows, head, belief>> /\ turn[t].stage = "offered"
        /\ TurnGoes(t, [turn[t] EXCEPT !.stage = "deciding"])
        /\ \/ UNCHANGED loading
           \/ \E r : r.id = 0 /\ loading' = [loading EXCEPT ![t] = r]
    <3>1. CASE chat[t] = turn[t].chat
      BY <1>10, <3>1 DEF OfferShown, TurnAt
    <3>2. CASE chat[t] # turn[t].chat
      BY <1>4, <1>10, <3>2 DEF OfferShown, TurnAt
    <3>3. QED
      BY <3>1, <3>2
  <2>2. /\ turn'[t].stage = "deciding" /\ turn'[t].id = turn[t].id
        /\ \A u \in Tabs : u # t => turn'[u] = turn[u]
    <3> DEFINE r == [turn[t] EXCEPT !.stage = "deciding"]
    <3>1. r.stage = "deciding" /\ r.id = turn[t].id /\ TurnGoes(t, r)
      BY <1>1, <2>1 DEF TurnFields
    <3> HIDE DEF r
    <3>2. QED
      BY <1>2, <3>1
  <2>3. TurnMoves(t)
    BY <2>1, <2>2 DEF TurnMoves
  <2>4. QED
    BY <1>1, <2>1, <2>2, <2>3
<1>11. CASE ReplacementAccepted(t) \/ RejectionMoves(t)
  <2>1. /\ UNCHANGED <<calls, flush, rows, belief, loading>> /\ Waiting(t)
        /\ head' = [head EXCEPT ![turn[t].chat] = turn[t].id]
    BY <1>11 DEF ReplacementAccepted, RejectionMoves, Accepts, RejectMoves, TurnAt, Waiting
  <2>2. PICK st \in {"accepted", "rejected"} : TurnGoes(t, [turn[t] EXCEPT !.stage = st])
    BY <1>11 DEF ReplacementAccepted, RejectionMoves
  <2>3. /\ turn'[t].stage = st /\ turn'[t].id = turn[t].id
        /\ \A u \in Tabs : u # t => turn'[u] = turn[u]
    <3> DEFINE r == [turn[t] EXCEPT !.stage = st]
    <3>1. r.stage = st /\ r.id = turn[t].id /\ TurnGoes(t, r)
      BY <1>1, <2>2 DEF TurnFields
    <3> HIDE DEF r
    <3>2. QED
      BY <1>2, <3>1
  <2>4. TurnMoves(t)
    BY <2>1, <2>2, <2>3 DEF TurnMoves
  <2>5. QED
    BY <1>5, <2>1, <2>3, <2>4
<1>12. CASE RejectionReads(t)
  <2> DEFINE x == head[turn[t].chat]
  <2>1. /\ UNCHANGED <<calls, flush, rows, head, belief, loading>>
        /\ TurnGoes(t, [turn[t] EXCEPT !.stage = "rejecting", !.other = x])
    BY <1>12 DEF RejectionReads
  <2> HIDE DEF x
  <2>2. turn'[t].stage = "rejecting" /\ \A u \in Tabs : u # t => turn'[u] = turn[u]
    <3> DEFINE r == [turn[t] EXCEPT !.stage = "rejecting", !.other = x]
    <3>1. r.stage = "rejecting" /\ TurnGoes(t, r)
      BY <1>1, <2>1 DEF TurnFields
    <3> HIDE DEF r
    <3>2. QED
      BY <1>2, <3>1
  <2>3. QED
    BY <1>5, <2>1, <2>2 DEF TurnMoves
<1>13. CASE RejectionInserts(t)
  <2> DEFINE x == Len(rows) + 1
  <2>1. /\ UNCHANGED <<calls, flush, head, belief, loading>>
        /\ \E p, s : rows' = Append(rows, Row(turn[t].chat, p, s, NoKey))
        /\ TurnGoes(t, [turn[t] EXCEPT !.stage = "reverting", !.id = x])
    BY <1>13 DEF RejectionInserts, RejectInserts
  <2> HIDE DEF x
  <2>2. /\ turn'[t].stage = "reverting" /\ turn'[t].id = x
        /\ \A u \in Tabs : u # t => turn'[u] = turn[u]
    <3> DEFINE r == [turn[t] EXCEPT !.stage = "reverting", !.id = x]
    <3>1. r.stage = "reverting" /\ r.id = x /\ TurnGoes(t, r)
      BY <1>1, <2>1 DEF TurnFields
    <3> HIDE DEF r
    <3>2. QED
      BY <1>2, <3>1
  <2>3. TurnMoves(t)
    BY <2>1, <2>2 DEF TurnMoves, x
  <2>4. QED
    BY <1>5, <2>1, <2>2, <2>3
<1>14. CASE DecisionShown(t)
  <2>1. UNCHANGED <<calls, flush, rows, head>> /\ TurnOver(t)
    BY <1>14 DEF DecisionShown
  <2>2. CASE TurnAt(t, "accepted") /\ Resolves(t, turn[t].id)
    BY <1>3, <1>6, <2>1, <2>2 DEF Resolves, TurnMoves, Settled, TurnAt
  <2>3. CASE TurnAt(t, "rejected") /\ belief' = [belief EXCEPT ![t] = turn[t].id] /\ UNCHANGED loading
    BY <1>3, <1>6, <2>1, <2>3 DEF TurnMoves, Settled, TurnAt
  <2>4. CASE UNCHANGED <<belief, loading>>
    BY <1>3, <1>5, <2>1, <2>4 DEF TurnMoves
  <2>5. QED
    BY <1>14, <2>2, <2>3, <2>4 DEF DecisionShown
<1>15. QED
  BY <1>7, <1>8, <1>9, <1>10, <1>11, <1>12, <1>13, <1>14 DEF TurnStep


-----------------------------------------------------------------------------
(* What is stored *)

\* No key has a row before the keys ahead of it in its batch have theirs.
RowsBelow == \A B \in KeySets : \A k, l \in B : k < l /\ RowsWithKey(l) # {} => RowsWithKey(k) # {}
\* Nothing but an open offer refers to version v.
Unused(v) ==
  /\ \A c \in Chats : head[c] # v
  /\ \A t \in Tabs : /\ belief[t] # v /\ flush[t].base # v /\ loading[t].id # v
                     /\ Settled(t) => turn[t].id # v
  /\ \A q \in calls : q.base # v /\ q.seen # v
UsedExist == \A v \in Nat : v > Len(rows) => Unused(v)
\* A head never comes back to a version it has been at: what a confirmation
\* moves it to has been nobody's base.
OffersFresh ==
  /\ \A t \in Tabs : Waiting(t) => Unused(turn[t].id) /\ rows[turn[t].id].key = NoKey
  /\ \A t, u \in Tabs : Waiting(t) /\ Waiting(u) /\ turn[t].id = turn[u].id => t = u
KnownFirst ==
  \A q \in calls : q.stage = "checked" =>
    /\ q.known \subseteq KeysOf(q.jobs) /\ q.known # KeysOf(q.jobs)
    /\ \A l \in q.known, k \in KeysOf(q.jobs) : k < l => k \in q.known
\* The compare of the head stands for a second look at the keys.
UnknownUnstored ==
  \A q \in calls : q.stage = "checked" =>
    \A k \in KeysOf(q.jobs) \ q.known : RowsWithKey(k) = {} \/ head[q.chat] # q.base
SavedStored ==
  \A q \in calls : q.stage = "answered" /\ q.code = 200 =>
    \A k \in KeysOf(q.jobs) : RowsWithKey(k) # {}
StoredOnce == \A v, w \in Ids : rows[v].key = rows[w].key /\ rows[v].key # NoKey => v = w
NothingLost == \A k \in 1 .. minted : k \in dropped \/ InHand(k) \/ RowsWithKey(k) # {}
StoredInv ==
  /\ HandsInv /\ RowsBelow /\ UsedExist /\ OffersFresh /\ KnownFirst /\ UnknownUnstored
  /\ SavedStored /\ StoredOnce /\ NothingLost

RowsStay == \A k \in Nat : RowsWithKey(k)' = RowsWithKey(k)

\* The transaction of call q, answered with r.
Writes(q, r) ==
  /\ q.stage = "checked" /\ q.base = head[q.chat]
  /\ ServedAs(q, r) /\ r.stage = "answered" /\ r.code = 200
  /\ r.seen \in Ids' \ Ids /\ head' = [head EXCEPT ![q.chat] = r.seen]
  /\ \A v \in Ids' \ Ids : \E j \in Elems(q.jobs) :
       j.key \notin q.known /\ rows'[v].key = j.key /\ rows'[v].score = j.score
  /\ \A v \in Ids' \ Ids : rows'[v].chat = q.chat
  /\ \A k \in KeysOf(q.jobs) : RowsWithKey(k)' # {}
  /\ \A v, w \in Ids' \ Ids : rows'[v].key = rows'[w].key => v = w
  /\ UNCHANGED <<tabVars, queueVars, loading, turn>>

LEMMA LastUnknown ==
  ASSUME NEW owner, DOMAIN owner \subseteq Nat, NEW q, IsCall(q, owner),
         q.known \subseteq KeysOf(q.jobs), q.known # KeysOf(q.jobs),
         \A l \in q.known, k \in KeysOf(q.jobs) : k < l => k \in q.known
  PROVE  q.jobs[Len(q.jobs)].key \notin q.known
<1> DEFINE s == q.jobs
           m == Len(s)
<1>1. IsBatch(s, owner) /\ s # <<>>
  BY DEF IsCall
<1>2. m \in Nat \ {0} /\ DOMAIN s = 1 .. m
  BY <1>1, SeqFacts DEF IsBatch
<1>3. PICK i \in DOMAIN s : s[i].key \notin q.known
  BY DEF KeysOf
<1>4. i = m \/ i < m
  BY <1>2
<1>5. i < m => s[i].key < s[m].key
  BY <1>1, <1>2 DEF IsBatch
<1>6. s[i].key \in KeysOf(s)
  BY DEF KeysOf
<1>7. QED
  BY <1>3, <1>4, <1>5, <1>6

\* The head goes to a row the transaction adds.
LEMMA HeadIsNew ==
  ASSUME HandsInv, KnownFirst, NEW q \in calls, q.stage = "checked", q.base = head[q.chat],
         rows' = Chained(q).table
  PROVE  Chained(q).prev \in Ids' \ Ids
<1>1. PICK owner \in Owners : CallsOf(owner) /\ RowsOf(owner)
  BY DEF HandsInv, VersionsInv, Owned
<1>2. DOMAIN owner \subseteq Nat /\ IsSeq(rows)
  BY <1>1 DEF Owners, RowsOf
<1>3. /\ Chained(q).prev \in Ids'
      /\ q.jobs[Len(q.jobs)].key \notin q.known => Chained(q).prev > Len(rows)
  BY <1>1, WrittenRows DEF HandsInv, VersionsInv
<1>4. q.jobs[Len(q.jobs)].key \notin q.known
  BY <1>1, <1>2, LastUnknown DEF CallsOf, KnownFirst
<1>5. Ids = 1 .. Len(rows) /\ Len(rows) \in Nat
  BY <1>2, SeqFacts DEF Ids
<1>6. QED
  BY <1>3, <1>4, <1>5

\* A row of a turn or a confirmation has no key.
LEMMA WriterRows ==
  ASSUME HandsInv, NEW t \in Tabs, WriterStep(t)
  PROVE  RowsStay /\ Grown
<1>1. IsSeq(rows) /\ NoKey \notin Nat
  BY EditSyncAssumption DEF HandsInv, VersionsInv, Owned, RowsOf
<1>2. CASE UNCHANGED rows
  <2>1. RowsStay
    BY <1>2 DEF RowsStay, RowsWithKey, Ids
  <2>2. Len(rows) \in Nat
    BY <1>1, SeqFacts
  <2>3. Grown
    BY <1>1, <1>2, <2>2 DEF Grown, Ids
  <2>4. QED
    BY <2>1, <2>3
<1>3. ASSUME NEW p, NEW s, rows' = Append(rows, Row(turn[t].chat, p, s, NoKey))
      PROVE  RowsStay /\ Grown
  <2> DEFINE row == Row(turn[t].chat, p, s, NoKey)
  <2>1. row.key = NoKey /\ rows' = Append(rows, row)
    BY <1>3 DEF Row
  <2> HIDE DEF row
  <2>2. /\ Grown /\ Ids' = Ids \cup {Len(rows) + 1}
        /\ rows'[Len(rows) + 1] = row
    BY <1>1, <2>1, AppendedRow
  <2>3. QED
    BY <1>1, <2>1, <2>2 DEF RowsStay, RowsWithKey, Grown
<1>4. UNCHANGED rows \/ \E p, s : rows' = Append(rows, Row(turn[t].chat, p, s, NoKey))
  BY DEF WriterStep, TurnAnswered, ReplacementAccepted, RejectionInserts, RejectionMoves,
         Appends, Accepts, RejectInserts, RejectMoves, versionVars
<1>5. QED
  BY <1>2, <1>3, <1>4

\* A step leaves the rows of every key alone, or is a transaction.
LEMMA StepRows ==
  ASSUME HandsInv, KnownFirst, [SyncNext]_syncVars
  PROVE  RowsStay \/ \E q \in calls : \E r : Writes(q, r)
<1>1. PICK owner \in Owners : CallsOf(owner) /\ RowsOf(owner)
  BY DEF HandsInv, VersionsInv, Owned
<1>3. ASSUME UNCHANGED rows
      PROVE  RowsStay
  BY <1>3 DEF RowsStay, RowsWithKey, Ids
<1>4. ASSUME NEW t \in Tabs, TabStep(t) \/ QueueStep(t)
      PROVE  UNCHANGED rows
  BY <1>4, TabStepFrame, QueueCalls DEF HandsInv, VersionsInv, versionVars
<1>5. ASSUME NEW t \in Tabs, WriterStep(t)
      PROVE  RowsStay
  BY <1>5, WriterRows
<1>6. ASSUME ServerStep
      PROVE  RowsStay \/ \E q \in calls : \E r : Writes(q, r)
  <2>1. PICK q \in calls : \E r : ServedAs(q, r) /\ ServerKind(q, r)
    BY <1>1, <1>6, ServerKinds
  <2>2. PICK r : ServedAs(q, r) /\ ServerKind(q, r)
    BY <2>1
  <2>3. CASE UNCHANGED rows
    BY <1>3, <2>3
  <2>4. CASE /\ q.stage = "checked" /\ q.base = head[q.chat]
             /\ r.stage = "answered" /\ r.code = 200
             /\ rows' = Chained(q).table /\ r.seen = Chained(q).prev
             /\ head' = [head EXCEPT ![q.chat] = Chained(q).prev]
    <3>1. /\ Grown
          /\ \A v \in Ids' \ Ids : \E i \in DOMAIN q.jobs : WrittenFor(q, rows', v, i)
          /\ \A i \in DOMAIN q.jobs : q.jobs[i].key \notin q.known =>
               \E v \in Ids' \ Ids : rows'[v].key = q.jobs[i].key
          /\ \A v, w \in Ids' \ Ids : rows'[v].key = rows'[w].key => v = w
      BY <1>1, <2>4, WrittenRows DEF HandsInv, VersionsInv
    <3>2. r.seen \in Ids' \ Ids
      BY <2>4, HeadIsNew
    <3>3. \A v \in Ids' \ Ids : \E j \in Elems(q.jobs) :
            j.key \notin q.known /\ rows'[v].key = j.key /\ rows'[v].score = j.score
      BY <3>1 DEF WrittenFor, Elems
    <3>4. \A v \in Ids' \ Ids : rows'[v].chat = q.chat
      BY <3>1 DEF WrittenFor
    <3>5. \A k \in KeysOf(q.jobs) : RowsWithKey(k)' # {}
      <4>1. ASSUME NEW i \in DOMAIN q.jobs, q.jobs[i].key \notin q.known
            PROVE  RowsWithKey(q.jobs[i].key)' # {}
        BY <3>1, <4>1 DEF RowsWithKey
      <4>2. ASSUME NEW k \in q.known
            PROVE  RowsWithKey(k)' # {}
        BY <2>4, <3>1, <4>2, GrownKeeps DEF HandsInv, VersionsInv, KnownStored
      <4>3. QED
        BY <4>1, <4>2 DEF KeysOf
    <3>6. UNCHANGED <<tabVars, queueVars, loading, turn>>
      BY <1>6 DEF ServerStep
    <3>7. Writes(q, r)
      BY <2>2, <2>4, <3>1, <3>2, <3>3, <3>4, <3>5, <3>6 DEF Writes
    <3>8. QED
      BY <3>7
  <2>5. QED
    BY <2>2, <2>3, <2>4 DEF ServerKind
<1>7. CASE UNCHANGED syncVars
  BY <1>3, <1>7 DEF syncVars, versionVars
<1>8. QED
  BY <1>3, <1>4, <1>5, <1>6, <1>7, StepKinds

LEMMA KeySetsFrom ==
  ASSUME HandsInv, [SyncNext]_syncVars
  PROVE  \A B \in KeySets' : \E A \in KeySets : B \subseteq A \cup {minted + 1}
<1>1. CASE KeysStay
  <2>1. \A t \in Tabs : HandKeys(t)' = HandKeys(t)
    BY <1>1 DEF KeysStay, SameKeys, HandKeys
  <2>2. KeySets' \subseteq KeySets
    BY <1>1, <2>1 DEF KeysStay, KeySets
  <2>3. QED
    BY <2>2
<1>2. ASSUME NEW t \in Tabs, KeyStep(t)
      PROVE  \A B \in KeySets' : \E A \in KeySets : B \subseteq A \cup {minted + 1}
  <2>1. \A u \in Tabs : u # t => HandKeys(u)' = HandKeys(u) /\ HandKeys(u) \in KeySets
    BY <1>2 DEF KeyStep, SameKeys, HandKeys, KeySets
  <2>2. HandKeys(t)' \subseteq HandKeys(t) \cup {minted + 1}
    BY <1>2 DEF KeyStep, HandKeys, Splits
  <2>3. \A B \in CallKeys' : B \in CallKeys \/ B \subseteq HandKeys(t)
    BY <1>2 DEF KeyStep, HandKeys, Splits
  <2>4. HandKeys(t) \in KeySets /\ CallKeys \subseteq KeySets
    BY DEF KeySets
  <2>5. QED
    BY <2>1, <2>2, <2>3, <2>4 DEF KeySets
<1>3. QED
  BY <1>1, <1>2, KeyKinds

\* Only keys that were minted have rows.
LEMMA MintedRows ==
  ASSUME HandsInv
  PROVE  /\ \A v \in Ids : rows[v].key # NoKey => rows[v].key \in 1 .. minted
         /\ \A k \in Nat : RowsWithKey(k) # {} => k \in 1 .. minted
         /\ NoKey \notin Nat
<1>1. PICK owner \in Owners : RowsOf(owner)
  BY DEF HandsInv, VersionsInv, Owned
<1>2. QED
  BY <1>1, EditSyncAssumption DEF RowsOf, Owners, RowsWithKey

LEMMA RowsBelowStep ==
  ASSUME StoredInv, [SyncNext]_syncVars
  PROVE  RowsBelow'
<1>1. /\ minted \in Nat /\ \A B \in KeySets : B \subseteq 1 .. minted
      /\ \A k \in Nat : RowsWithKey(k) # {} => k \in 1 .. minted
  BY KeyFacts, MintedRows DEF StoredInv, HandsInv
<1>2. Grown
  BY RowsGrow DEF StoredInv, HandsInv
<1>3. SUFFICES ASSUME NEW B \in KeySets', NEW k \in B, NEW l \in B, k < l,
                      RowsWithKey(l)' # {}
               PROVE  RowsWithKey(k)' # {}
  BY DEF RowsBelow
<1>4. PICK A \in KeySets : B \subseteq A \cup {minted + 1}
  BY KeySetsFrom DEF StoredInv
<1>5. A \subseteq 1 .. minted
  BY <1>1
<1>6. k \in Nat /\ l \in Nat /\ (l \in A => k \in A) /\ (l \notin A => RowsWithKey(l) = {})
  BY <1>1, <1>3, <1>4, <1>5
<1>7. RowsWithKey(l) # {} => RowsWithKey(k)' # {}
  BY <1>2, <1>3, <1>6, GrownKeeps DEF StoredInv, RowsBelow
<1>8. CASE RowsStay
  BY <1>3, <1>6, <1>7, <1>8 DEF RowsStay
<1>9. ASSUME NEW q \in calls, NEW r, Writes(q, r), RowsWithKey(l) = {}
      PROVE  RowsWithKey(k)' # {}
  <2>1. PICK v \in Ids' : rows'[v].key = l
    BY <1>3 DEF RowsWithKey
  <2>2. v \notin Ids
    BY <1>2, <1>9, <2>1 DEF Grown, RowsWithKey
  <2>3. l \in KeysOf(q.jobs)
    BY <1>9, <2>1, <2>2 DEF Writes, Elems, KeysOf
  <2>4. KeysOf(q.jobs) \in KeySets
    BY DEF KeySets, CallKeys
  <2>5. k \in A /\ l \in A
    <3>1. l \in 1 .. minted
      BY <1>1, <2>3, <2>4
    <3>2. l \in A
      BY <1>1, <1>4, <3>1
    <3>3. QED
      BY <1>6, <3>2
  <2>6. k \in KeysOf(q.jobs)
    BY <1>3, <2>3, <2>4, <2>5 DEF StoredInv, HandsInv, Prefixed, Under
  <2>7. QED
    BY <1>9, <2>6 DEF Writes
<1>10. QED
  BY <1>7, <1>8, <1>9, StepRows DEF StoredInv

LEMMA StoredOnceStep ==
  ASSUME StoredInv, [SyncNext]_syncVars
  PROVE  StoredOnce'
<1>1. Grown /\ \A v \in Ids : rows'[v] = rows[v]
  BY RowsGrow DEF StoredInv, HandsInv, Grown
<1>2. \A v \in Ids' : rows'[v].key # NoKey => rows'[v].key \in Nat
  <2>1. HandsInv'
    BY HandsStep DEF StoredInv
  <2>2. PICK owner : owner \in Owners' /\ RowsOf(owner)'
    BY <2>1 DEF HandsInv, VersionsInv, Owned
  <2>3. QED
    BY <2>2 DEF RowsOf, Owners
<1>3. ASSUME NEW k \in Nat, NEW v \in Ids', NEW w \in Ids', rows'[v].key = k, rows'[w].key = k,
             k # NoKey
      PROVE  v = w
  <2>1. v \in RowsWithKey(k)' /\ w \in RowsWithKey(k)'
    BY <1>3 DEF RowsWithKey
  <2>2. CASE RowsStay
    <3>1. v \in RowsWithKey(k) /\ w \in RowsWithKey(k)
      BY <2>1, <2>2 DEF RowsStay
    <3>2. QED
      BY <1>3, <1>1, <3>1 DEF RowsWithKey, StoredInv, StoredOnce
  <2>3. ASSUME NEW q \in calls, NEW r, Writes(q, r)
        PROVE  v = w
    <3>1. ASSUME NEW x \in Ids' \ Ids
          PROVE  rows'[x].key \notin {rows[y].key : y \in Ids}
      <4>1. PICK j \in Elems(q.jobs) : j.key \notin q.known /\ rows'[x].key = j.key
        BY <2>3 DEF Writes
      <4>2. j.key \in KeysOf(q.jobs) \ q.known
        BY <4>1 DEF Elems, KeysOf
      <4>3. RowsWithKey(j.key) = {}
        BY <2>3, <4>2 DEF Writes, StoredInv, UnknownUnstored
      <4>4. QED
        BY <4>1, <4>3 DEF RowsWithKey
    <3>2. CASE v \in Ids /\ w \in Ids
      BY <1>1, <1>3, <3>2 DEF StoredInv, StoredOnce
    <3>3. CASE v \notin Ids /\ w \notin Ids
      BY <1>3, <2>3, <3>3 DEF Writes
    <3>4. QED
      BY <1>1, <1>3, <3>1, <3>2, <3>3
  <2>4. QED
    BY <2>2, <2>3, StepRows DEF StoredInv
<1>4. QED
  BY <1>2, <1>3 DEF StoredOnce


LEMMA CallsFrom ==
  ASSUME VersionsInv, [SyncNext]_syncVars
  PROVE  \A p \in calls' :
           \/ p.stage = "sent"
           \/ \E q \in calls : /\ SameCall(q, p) /\ p.stage = q.stage /\ p.known = q.known
                               /\ p.code = q.code /\ p.seen = q.seen
           \/ \E q \in calls : ServedAs(q, p) /\ ServerKind(q, p)
<1> DEFINE Kept(p) == \E q \in calls : /\ SameCall(q, p) /\ p.stage = q.stage /\ p.known = q.known
                                       /\ p.code = q.code /\ p.seen = q.seen
<1>1. PICK owner \in Owners : CallsOf(owner)
  BY DEF VersionsInv, Owned
<1>2. \A q \in calls : Kept(q) /\ Kept(Unheard(q))
  <2>1. \A q \in calls : DOMAIN q = CallFields
    BY <1>1 DEF CallsOf, IsCall
  <2>2. QED
    BY <2>1, UnheardIs DEF SameCall
<1> HIDE DEF Kept
<1>3. ASSUME UNCHANGED calls
      PROVE  \A p \in calls' : Kept(p)
  BY <1>2, <1>3
<1>4. ASSUME NEW t \in Tabs, TabStep(t) \/ WriterStep(t)
      PROVE  UNCHANGED calls
  <2>1. CASE TabStep(t)
    BY <2>1, TabStepFrame DEF VersionsInv, versionVars
  <2>2. CASE WriterStep(t)
    BY <2>2 DEF WriterStep, TurnAnswered, ReplacementAccepted, RejectionInserts,
         RejectionMoves, Appends, Accepts, RejectInserts, RejectMoves, versionVars
  <2>3. QED
    BY <1>4, <2>1, <2>2
<1>5. ASSUME NEW t \in Tabs, QueueStep(t)
      PROVE  \A p \in calls' : p.stage = "sent" \/ Kept(p)
  <2>1. \A n, c, base, jobs, heard : Call(n, c, base, jobs, heard).stage = "sent"
    BY DEF Call
  <2>2. QED
    BY <1>2, <1>5, <2>1, QueueCalls
<1>6. ASSUME ServerStep
      PROVE  \A p \in calls' : Kept(p) \/ \E q \in calls : ServedAs(q, p) /\ ServerKind(q, p)
  <2>1. PICK q \in calls : \E r : ServedAs(q, r) /\ ServerKind(q, r)
    BY <1>1, <1>6, ServerKinds
  <2>2. PICK r : ServedAs(q, r) /\ ServerKind(q, r)
    BY <2>1
  <2>3. \A p \in calls' : p \in calls \/ p = r
    BY <2>2 DEF ServedAs
  <2>4. QED
    BY <1>2, <2>2, <2>3
<1>7. ASSUME UNCHANGED syncVars
      PROVE  UNCHANGED calls
  BY <1>7 DEF syncVars, versionVars
<1>8. \A p \in calls' : \/ p.stage = "sent" \/ Kept(p)
                        \/ \E q \in calls : ServedAs(q, p) /\ ServerKind(q, p)
  BY <1>3, <1>4, <1>5, <1>6, <1>7, StepKinds
<1>9. QED
  BY <1>8 DEF Kept

LEMMA KnownFirstStep ==
  ASSUME StoredInv, [SyncNext]_syncVars
  PROVE  KnownFirst'
<1>1. ASSUME NEW p \in calls', p.stage = "checked"
      PROVE  /\ p.known \subseteq KeysOf(p.jobs) /\ p.known # KeysOf(p.jobs)
             /\ \A l \in p.known, k \in KeysOf(p.jobs) : k < l => k \in p.known
  <2>1. CASE \E q \in calls : /\ SameCall(q, p) /\ p.stage = q.stage /\ p.known = q.known
    BY <1>1, <2>1 DEF StoredInv, KnownFirst, SameCall
  <2>2. ASSUME NEW q \in calls, ServedAs(q, p), ServerKind(q, p)
        PROVE  /\ p.known \subseteq KeysOf(p.jobs) /\ p.known # KeysOf(p.jobs)
               /\ \A l \in p.known, k \in KeysOf(p.jobs) : k < l => k \in p.known
    <3>1. p.jobs = q.jobs /\ p.known = KnownKeys(q) /\ KnownKeys(q) # KeysOf(q.jobs)
      BY <1>1, <2>2 DEF ServedAs, SameCall, ServerKind
    <3>2. KeysOf(q.jobs) \in KeySets
      BY DEF KeySets, CallKeys
    <3>3. QED
      BY <3>1, <3>2 DEF KnownKeys, StoredInv, RowsBelow
  <2>3. QED
    BY <1>1, <2>1, <2>2, CallsFrom DEF StoredInv, HandsInv
<1>2. QED
  BY <1>1 DEF KnownFirst

LEMMA SavedStoredStep ==
  ASSUME StoredInv, [SyncNext]_syncVars
  PROVE  SavedStored'
<1>1. \A k : RowsWithKey(k) # {} => RowsWithKey(k)' # {}
  BY RowsGrow, GrownKeeps DEF StoredInv, HandsInv
<1>2. ASSUME NEW p \in calls', p.stage = "answered", p.code = 200
      PROVE  \A k \in KeysOf(p.jobs) : RowsWithKey(k)' # {}
  <2>1. CASE \E q \in calls : SameCall(q, p) /\ p.stage = q.stage /\ p.code = q.code
    BY <1>1, <1>2, <2>1 DEF StoredInv, SavedStored, SameCall
  <2>2. ASSUME NEW q \in calls, ServedAs(q, p), ServerKind(q, p)
        PROVE  \A k \in KeysOf(p.jobs) : RowsWithKey(k)' # {}
    <3>1. p.jobs = q.jobs
      BY <2>2 DEF ServedAs, SameCall
    <3>2. CASE KnownKeys(q) = KeysOf(q.jobs)
      BY <1>1, <3>1, <3>2 DEF KnownKeys
    <3>3. CASE q.stage = "checked" /\ q.base = head[q.chat] /\ rows' = Chained(q).table
      <4>1. PICK owner \in Owners : CallsOf(owner) /\ RowsOf(owner)
        BY DEF StoredInv, HandsInv, VersionsInv, Owned
      <4>2. \A i \in DOMAIN q.jobs : q.jobs[i].key \notin q.known =>
               \E v \in Ids' \ Ids : rows'[v].key = q.jobs[i].key
        BY <3>3, <4>1, WrittenRows DEF StoredInv, HandsInv, VersionsInv
      <4>3. \A k \in q.known : RowsWithKey(k)' # {}
        BY <1>1, <3>3 DEF StoredInv, HandsInv, VersionsInv, KnownStored
      <4>4. QED
        BY <3>1, <4>2, <4>3 DEF KeysOf, RowsWithKey
    <3>4. QED
      BY <1>2, <2>2, <3>2, <3>3 DEF ServerKind
  <2>3. QED
    BY <1>2, <2>1, <2>2, CallsFrom DEF StoredInv, HandsInv
<1>3. QED
  BY <1>2 DEF SavedStored

LEMMA TurnsFrom ==
  ASSUME VersionsInv, [SyncNext]_syncVars
  PROVE  UNCHANGED turn \/ \E t \in Tabs : TurnStep(t)
<1>1. ASSUME NEW t \in Tabs, UserStep(t) \/ LoadStep(t)
      PROVE  UNCHANGED turn
  BY <1>1 DEF UserStep, LoadStep, Edit, Undo, Redo, MoveTo, ResetToLLM, Switch,
       TranscriptRead, TranscriptShown, TranscriptFails
<1>2. ASSUME NEW t \in Tabs, QueueStep(t)
      PROVE  UNCHANGED turn
  BY <1>2, QueueCalls
<1>3. CASE ServerStep \/ UNCHANGED syncVars
  BY <1>3 DEF ServerStep, syncVars
<1>4. QED
  BY <1>1, <1>2, <1>3 DEF SyncNext

\* What nobody refers to comes into use as a new row, as the old row of a job
\* sent again, or by a decision.
LEMMA StaysUnused ==
  ASSUME StoredInv, [SyncNext]_syncVars, NEW v \in Nat \ {0}, Unused(v), v \notin Ids' \ Ids,
         \A k \in Nat : v \notin RowsWithKey(k),
         \A t \in Tabs : Waiting(t) /\ turn[t].id = v => turn'[t].stage \notin {"accepted", "rejected"}
  PROVE  Unused(v)'
<1> USE DEF queueVars, tabVars, versionVars, Quiet
<1>1. PICK owner \in Owners : QueuesOf(owner) /\ CallsOf(owner) /\ RowsOf(owner)
  BY DEF StoredInv, HandsInv, VersionsInv, Owned
<1>2. /\ DOMAIN head = Chats /\ DOMAIN belief = Tabs /\ DOMAIN loading = Tabs /\ DOMAIN turn = Tabs
      /\ DOMAIN flush = Tabs /\ \A t \in Tabs : chat[t] \in Chats /\ turn[t].chat \in Chats
      /\ DOMAIN owner \subseteq Nat
  BY <1>1 DEF StoredInv, HandsInv, VersionsInv, TabTypes, QueuesOf, Owners
<1>3. /\ \A c \in Chats : head[c] # v
      /\ \A t \in Tabs : /\ belief[t] # v /\ flush[t].base # v /\ loading[t].id # v
                         /\ Settled(t) => turn[t].id # v
      /\ \A q \in calls : q.base # v /\ q.seen # v
  BY DEF Unused
<1>4. NoLoad.id = 0 /\ [stage |-> "asked", id |-> 0].id = 0 /\ NoFlush.base = 0
  BY DEF NoLoad, NoFlush
<1>5. ASSUME NEW t \in Tabs, UserStep(t)
      PROVE  Unused(v)'
  <2>1. /\ UNCHANGED <<head, belief, flush, calls, turn>>
        /\ \/ UNCHANGED loading
           \/ loading' = [loading EXCEPT ![t] = [stage |-> "asked", id |-> 0]]
    BY <1>5 DEF UserStep, Edit, Undo, Redo, MoveTo, ResetToLLM, Switch
  <2>2. \A u \in Tabs : loading'[u].id # v
    BY <1>2, <1>3, <1>4, <2>1
  <2>3. QED
    BY <1>3, <2>1, <2>2 DEF Unused, Settled
<1>6. ASSUME NEW t \in Tabs, LoadStep(t)
      PROVE  Unused(v)'
  <2>1. /\ UNCHANGED <<head, flush, calls, turn>>
        /\ UNCHANGED belief \/ belief' = [belief EXCEPT ![t] = loading[t].id]
        /\ \/ loading' = [loading EXCEPT ![t] = NoLoad]
           \/ \E r : r.id = head[chat[t]] /\ loading' = [loading EXCEPT ![t] = r]
    <3>1. CASE TranscriptRead(t)
      <4> DEFINE x == head[chat[t]]
                 r == [stage |-> "answered", id |-> x]
      <4>1. r.id = x /\ loading' = [loading EXCEPT ![t] = r]
        BY <3>1 DEF TranscriptRead
      <4>2. UNCHANGED <<head, flush, calls, turn, belief>>
        BY <3>1 DEF TranscriptRead
      <4> HIDE DEF r
      <4>3. QED
        BY <4>1, <4>2
    <3>2. CASE TranscriptShown(t) \/ TranscriptFails(t)
      BY <3>2 DEF TranscriptShown, TranscriptFails
    <3>3. QED
      BY <1>6, <3>1, <3>2 DEF LoadStep
  <2>2. \A u \in Tabs : loading'[u].id # v /\ belief'[u] # v
    BY <1>2, <1>3, <1>4, <2>1
  <2>3. QED
    BY <1>3, <2>1, <2>2 DEF Unused, Settled
<1>7. ASSUME NEW t \in Tabs, TurnStep(t)
      PROVE  Unused(v)'
  <2>1. /\ \A u \in Tabs : u # t => turn'[u] = turn[u]
        /\ TurnMoves(t)
        /\ UNCHANGED <<calls, flush>>
        /\ \A u \in Tabs : /\ belief'[u] = belief[u] \/ (u = t /\ Settled(t) /\ belief'[u] = turn[t].id)
                           /\ loading'[u].id = loading[u].id \/ loading'[u].id = 0
    BY <1>7, TurnKinds DEF StoredInv, HandsInv, VersionsInv
  <2>2. \A u \in Tabs : belief'[u] # v /\ loading'[u].id # v
    BY <1>3, <2>1
  <2>3. \A c \in Chats : head'[c] # v
    <3>1. CASE UNCHANGED head
      BY <1>3, <3>1
    <3>2. CASE head' = [head EXCEPT ![turn[t].chat] = turn[t].id] /\ turn[t].id # v
      BY <1>2, <1>3, <3>2
    <3>3. ASSUME NEW p, NEW s, rows' = Append(rows, Row(turn[t].chat, p, s, NoKey)),
                 head' = [head EXCEPT ![turn[t].chat] = Len(rows) + 1]
          PROVE  \A c \in Chats : head'[c] # v
      <4> DEFINE row == Row(turn[t].chat, p, s, NoKey)
      <4>1. IsSeq(rows) /\ rows' = Append(rows, row)
        BY <1>1, <3>3 DEF RowsOf
      <4> HIDE DEF row
      <4>2. Len(rows) + 1 \in Ids' \ Ids
        BY <4>1, AppendedRow
      <4>3. QED
        BY <1>2, <1>3, <3>3, <4>2
    <3>4. QED
      BY <2>1, <3>1, <3>2, <3>3 DEF TurnMoves
  <2>4. Settled(t)' => turn'[t].id # v
    <3>1. ASSUME NEW p, NEW s, rows' = Append(rows, Row(turn[t].chat, p, s, NoKey)),
                 turn'[t].id = Len(rows) + 1
          PROVE  turn'[t].id # v
      <4> DEFINE row == Row(turn[t].chat, p, s, NoKey)
      <4>1. IsSeq(rows) /\ rows' = Append(rows, row)
        BY <1>1, <3>1 DEF RowsOf
      <4> HIDE DEF row
      <4>2. Len(rows) + 1 \in Ids' \ Ids
        BY <4>1, AppendedRow
      <4>3. QED
        BY <3>1, <4>2
    <3>2. QED
      BY <2>1, <3>1 DEF TurnMoves, Settled
  <2>5. \A u \in Tabs : Settled(u)' => turn'[u].id # v
    BY <1>3, <2>1, <2>4 DEF Settled
  <2>6. QED
    BY <1>3, <2>1, <2>2, <2>3, <2>5 DEF Unused
<1>8. ASSUME NEW t \in Tabs, QueueStep(t)
      PROVE  Unused(v)'
  <2>1. UNCHANGED <<rows, head, turn, loading>>
    BY <1>8, QueueCalls
  <2>2. \A q \in calls : Unheard(q).base = q.base /\ Unheard(q).seen = q.seen
    BY <1>1, UnheardIs DEF CallsOf, IsCall, SameCall
  <2>3. ASSUME NEW belief2, belief' = belief2, \A u \in Tabs : belief2[u] # v,
               \A u \in Tabs : flush'[u].base # v,
               \A q \in calls' : q.base # v /\ q.seen # v
        PROVE  Unused(v)'
    BY <1>3, <2>1, <2>3 DEF Unused, Settled
  <2>4. CASE QStart(t) \/ QBeacon(t)
    <3>1. /\ \A u \in Tabs : flush'[u].base = flush[u].base \/ flush'[u].base = belief[t]
          /\ UNCHANGED belief
          /\ \A r \in calls' : r \in calls \/ (r.base = belief[t] /\ r.seen = 0)
      BY <2>4 DEF QStart, QBeacon, Others, SentAs
    <3>2. QED
      BY <1>3, <2>3, <3>1
  <2>5. ASSUME NEW q \in calls, QRetry(t, q)
        PROVE  Unused(v)'
    <3>1. /\ \A u \in Tabs : flush'[u].base \in {flush[u].base, q.seen}
          /\ UNCHANGED belief
          /\ \A r \in calls' : \/ r \in calls \/ r = Unheard(q)
                               \/ r.base \in {flush[t].base, q.seen} /\ r.seen = 0
      BY <2>5 DEF QRetry, Others, SentAs, Stays
    <3>2. QED
      BY <1>3, <2>2, <2>3, <3>1
  <2>6. ASSUME NEW q \in calls, QEnd(t, q) \/ QPutBack(t, q)
        PROVE  Unused(v)'
    <3>1. /\ \A u \in Tabs : flush'[u].base \in {flush[u].base, 0}
          /\ UNCHANGED belief \/ belief' = [belief EXCEPT ![t] = q.seen]
          /\ \A r \in calls' : r \in calls \/ r = Unheard(q)
      <4>1. /\ Others(t) /\ flush'[t] = NoFlush /\ Stays(q, calls')
            /\ UNCHANGED belief \/ belief' = [belief EXCEPT ![t] = q.seen]
        BY <2>6 DEF QEnd, QPutBack, Stays
      <4>2. \A u \in Tabs : flush'[u].base \in {flush[u].base, 0}
        BY <1>4, <4>1 DEF Others
      <4>3. \A r \in calls' : r \in calls \/ r = Unheard(q)
        BY <4>1 DEF Stays
      <4>4. QED
        BY <4>1, <4>2, <4>3
    <3>2. \A u \in Tabs : belief'[u] # v
      BY <1>2, <1>3, <3>1
    <3>3. QED
      BY <1>3, <2>2, <2>3, <3>1, <3>2
  <2>7. QED
    BY <1>8, <2>4, <2>5, <2>6, QueueKinds DEF StoredInv, HandsInv
<1>9. ASSUME ServerStep
      PROVE  Unused(v)'
  <2>1. PICK q \in calls : \E r : ServedAs(q, r) /\ ServerKind(q, r)
    BY <1>1, <1>9, ServerKinds
  <2>2. PICK r : ServedAs(q, r) /\ ServerKind(q, r)
    BY <2>1
  <2>3. UNCHANGED <<belief, flush, loading, turn>>
    BY <1>9 DEF ServerStep
  <2>4. r.base # v /\ q.chat \in Chats /\ IsCall(q, owner)
    BY <1>1, <1>3, <2>2 DEF ServedAs, SameCall, CallsOf, IsCall
  <2>5. r.seen # v /\ \A c \in Chats : head'[c] # v
    <3>1. CASE r.stage = "answered" /\ KnownKeys(q) = KeysOf(q.jobs) /\ UNCHANGED head
               /\ r.seen = CHOOSE w \in RowsWithKey(q.jobs[Len(q.jobs)].key) : TRUE
      <4> DEFINE k == q.jobs[Len(q.jobs)].key
      <4>1. k \in KeysOf(q.jobs) /\ k \in Nat
        <5>1. IsSeq(q.jobs) /\ q.jobs # <<>>
          BY <2>4 DEF IsCall, IsBatch
        <5>2. Len(q.jobs) \in DOMAIN q.jobs
          BY <5>1, SeqFacts
        <5>3. QED
          BY <1>2, <2>4, <5>2 DEF IsCall, IsBatch, KeysOf
      <4>2. RowsWithKey(k) # {}
        BY <3>1, <4>1 DEF KnownKeys
      <4> HIDE DEF k
      <4>3. r.seen \in RowsWithKey(k)
        BY <3>1, <4>2 DEF k
      <4>4. QED
        BY <1>3, <3>1, <4>1, <4>3
    <3>2. CASE /\ q.stage = "checked" /\ q.base = head[q.chat]
               /\ r.stage = "answered" /\ r.code = 200
               /\ rows' = Chained(q).table /\ r.seen = Chained(q).prev
               /\ head' = [head EXCEPT ![q.chat] = Chained(q).prev]
      <4>1. Chained(q).prev \in Ids' \ Ids
        BY <3>2, HeadIsNew DEF StoredInv
      <4>2. QED
        BY <1>2, <1>3, <3>2, <4>1
    <3>3. QED
      BY <1>3, <2>2, <2>4, <3>1, <3>2 DEF ServerKind
  <2>6. \A p \in calls' : p.base # v /\ p.seen # v
    BY <1>3, <2>2, <2>4, <2>5 DEF ServedAs
  <2>7. QED
    BY <1>3, <2>3, <2>5, <2>6 DEF Unused, Settled
<1>10. CASE UNCHANGED syncVars
  BY <1>3, <1>10 DEF syncVars, Unused, Settled
<1>11. QED
  BY <1>5, <1>6, <1>7, <1>8, <1>9, <1>10 DEF SyncNext


LEMMA UsedExistStep ==
  ASSUME StoredInv, [SyncNext]_syncVars
  PROVE  UsedExist'
<1>1. Grown
  BY RowsGrow DEF StoredInv, HandsInv
<1>2. IsSeq(rows)
  BY DEF StoredInv, HandsInv, VersionsInv, Owned, RowsOf
<1>3. Ids = 1 .. Len(rows) /\ Len(rows) \in Nat
  BY <1>2, SeqFacts DEF Ids
<1>4. IsSeq(rows')
  BY <1>1 DEF Grown
<1>5. Ids' = 1 .. Len(rows') /\ Len(rows') \in Nat
  BY <1>4, SeqFacts DEF Ids
<1>6. Len(rows) <= Len(rows')
  BY <1>1, <1>3, <1>5 DEF Grown
<1>7. ASSUME NEW v \in Nat, v > Len(rows')
      PROVE  Unused(v)'
  <2>1. v > Len(rows) /\ v \in Nat \ {0} /\ v \notin Ids /\ v \notin Ids' \ Ids
    BY <1>3, <1>5, <1>6, <1>7
  <2>2. Unused(v)
    BY <2>1 DEF StoredInv, UsedExist
  <2>3. \A k \in Nat : v \notin RowsWithKey(k)
    BY <2>1 DEF RowsWithKey
  <2>4. \A t \in Tabs : Waiting(t) /\ turn[t].id = v => turn'[t].stage \notin {"accepted", "rejected"}
    BY <2>1 DEF StoredInv, HandsInv, VersionsInv, OffersOwn
  <2>5. QED
    BY <2>1, <2>2, <2>3, <2>4, StaysUnused
<1>8. QED
  BY <1>7 DEF UsedExist

\* Version v is an offer's, and nobody's base.
OnOffer(v) == Unused(v) /\ rows[v].key = NoKey

LEMMA OffersFreshStep ==
  ASSUME StoredInv, [SyncNext]_syncVars
  PROVE  OffersFresh'
<1>1. Grown
  BY RowsGrow DEF StoredInv, HandsInv
<1>2. IsSeq(rows) /\ DOMAIN turn = Tabs
  BY DEF StoredInv, HandsInv, VersionsInv, Owned, RowsOf, TabTypes
<1>3. Ids = 1 .. Len(rows) /\ Len(rows) \in Nat
  BY <1>2, SeqFacts DEF Ids
<1>4. NoKey \notin Nat
  BY MintedRows DEF StoredInv
\* An offer that stays open is still nobody's base.
<1>5. ASSUME NEW t \in Tabs, Waiting(t), turn'[t].stage \notin {"accepted", "rejected"},
             NEW v, turn[t].id = v
      PROVE  OnOffer(v)'
  <2>1. v \in Ids /\ Unused(v) /\ rows[v].key = NoKey
    BY <1>5 DEF StoredInv, OffersFresh, HandsInv, VersionsInv, OffersOwn
  <2>2. v \in Nat \ {0} /\ v \notin Ids' \ Ids /\ rows'[v] = rows[v]
    BY <1>1, <1>3, <2>1 DEF Grown
  <2>3. \A k \in Nat : v \notin RowsWithKey(k)
    BY <1>4, <2>1 DEF RowsWithKey
  <2>4. \A u \in Tabs : Waiting(u) /\ turn[u].id = v => turn'[u].stage \notin {"accepted", "rejected"}
    BY <1>5 DEF StoredInv, OffersFresh
  <2>5. Unused(v)'
    BY <2>1, <2>2, <2>3, <2>4, StaysUnused
  <2>6. QED
    BY <2>1, <2>2, <2>5 DEF OnOffer
\* An offer that is new.
<1>6. ASSUME NEW t \in Tabs, TurnStep(t), turn'[t].stage \notin {"answered", "accepted", "rejected"},
             UNCHANGED head, NEW v, v = Len(rows) + 1,
             NEW p, NEW s, rows' = Append(rows, Row(turn[t].chat, p, s, NoKey))
      PROVE  OnOffer(v)'
  <2> DEFINE row == Row(turn[t].chat, p, s, NoKey)
  <2>1. row.key = NoKey /\ rows' = Append(rows, row)
    BY <1>6 DEF Row
  <2> HIDE DEF row
  <2>2. rows'[v] = row
    BY <1>2, <1>6, <2>1, AppendedRow
  <2>3. v \in Nat /\ v > Len(rows) /\ v # 0
    BY <1>3, <1>6
  <2>4. Unused(v)
    BY <2>3 DEF StoredInv, UsedExist
  <2>5. /\ \A u \in Tabs : u # t => turn'[u] = turn[u]
        /\ UNCHANGED <<calls, flush, head>>
        /\ \A u \in Tabs : /\ belief'[u] = belief[u] \/ (u = t /\ Settled(t) /\ belief'[u] = turn[t].id)
                           /\ loading'[u].id = loading[u].id \/ loading'[u].id = 0
    BY <1>6, TurnKinds DEF StoredInv, HandsInv, VersionsInv
  <2>6. ~Settled(t)'
    BY <1>6 DEF Settled
  <2>7. Unused(v)'
    BY <2>3, <2>4, <2>5, <2>6 DEF Unused, Settled
  <2>8. QED
    BY <2>1, <2>2, <2>7 DEF OnOffer
<1>7. ASSUME UNCHANGED turn
      PROVE  OffersFresh'
  <2>1. ASSUME NEW t \in Tabs, Waiting(t)', NEW v, turn'[t].id = v
        PROVE  OnOffer(v)'
    BY <1>5, <1>7, <2>1 DEF Waiting
  <2>2. \A t, u \in Tabs : Waiting(t)' /\ Waiting(u)' /\ turn'[t].id = turn'[u].id => t = u
    BY <1>7 DEF Waiting, StoredInv, OffersFresh
  <2>3. \A t \in Tabs : (Waiting(t) => OnOffer(turn[t].id))'
    BY <2>1 DEF OnOffer, Unused, Settled
  <2>4. QED
    BY <2>2, <2>3 DEF OffersFresh, OnOffer
<1>8. ASSUME NEW t \in Tabs, TurnStep(t)
      PROVE  OffersFresh'
  <2>1. (\A u \in Tabs : u # t => turn'[u] = turn[u]) /\ TurnMoves(t)
    BY <1>8, TurnKinds DEF StoredInv, HandsInv, VersionsInv
  <2>2. ASSUME NEW u \in Tabs, u # t, Waiting(u)', NEW v, turn'[u].id = v
        PROVE  Waiting(u) /\ turn[u].id = v /\ OnOffer(v)'
    <3>1. Waiting(u) /\ turn[u].id = v /\ turn'[u].stage \notin {"accepted", "rejected"}
      BY <2>1, <2>2 DEF Waiting
    <3>2. QED
      BY <1>5, <3>1
  <2>3. ASSUME Waiting(t)', NEW v, turn'[t].id = v
        PROVE  /\ (Waiting(t) /\ turn[t].id = v) \/ v = Len(rows) + 1
               /\ OnOffer(v)'
    <3>1. turn'[t].stage \in {"offered", "deciding", "reverting"}
      BY <2>3 DEF Waiting
    <3>2. CASE turn[t].stage = "offered" /\ turn'[t].id = turn[t].id
      <4>1. Waiting(t) /\ turn[t].id = v
        BY <2>3, <3>2 DEF Waiting
      <4>2. QED
        BY <1>5, <3>1, <4>1
    <3>3. ASSUME NEW p, NEW s, rows' = Append(rows, Row(turn[t].chat, p, s, NoKey)),
                 turn'[t].id = Len(rows) + 1, UNCHANGED head
          PROVE  v = Len(rows) + 1 /\ OnOffer(v)'
      <4>1. v = Len(rows) + 1
        BY <2>3, <3>3
      <4>2. QED
        BY <1>6, <1>8, <3>1, <3>3, <4>1
    <3>4. QED
      BY <2>1, <3>1, <3>2, <3>3 DEF TurnMoves
  <2>4. \A u \in Tabs : Waiting(u) => turn[u].id # Len(rows) + 1
    BY <1>3 DEF StoredInv, HandsInv, VersionsInv, OffersOwn
  <2>5. \A u, w \in Tabs : Waiting(u)' /\ Waiting(w)' /\ turn'[u].id = turn'[w].id => u = w
    BY <2>2, <2>3, <2>4 DEF StoredInv, OffersFresh
  <2>6. ASSUME NEW u \in Tabs, Waiting(u)', NEW v, turn'[u].id = v
        PROVE  OnOffer(v)'
    BY <2>2, <2>3, <2>6
  <2>7. \A u \in Tabs : (Waiting(u) => OnOffer(turn[u].id))'
    BY <2>6 DEF OnOffer, Unused, Settled
  <2>8. QED
    BY <2>5, <2>7 DEF OffersFresh, OnOffer
<1>9. QED
  BY <1>7, <1>8, TurnsFrom DEF StoredInv, HandsInv

LEMMA HeadsMove ==
  ASSUME StoredInv, [SyncNext]_syncVars, NEW c \in Chats, head'[c] # head[c]
  PROVE  Unused(head'[c])
<1>1. PICK owner \in Owners : CallsOf(owner) /\ RowsOf(owner)
  BY DEF StoredInv, HandsInv, VersionsInv, Owned
<1>2. DOMAIN head = Chats /\ IsSeq(rows)
  BY <1>1 DEF StoredInv, HandsInv, VersionsInv, TabTypes, RowsOf
<1>3. Ids = 1 .. Len(rows) /\ Len(rows) \in Nat
  BY <1>2, SeqFacts DEF Ids
<1>4. ASSUME NEW v \in Nat, v > Len(rows)
      PROVE  Unused(v)
  BY <1>4 DEF StoredInv, UsedExist
<1>5. ASSUME NEW t \in Tabs, UserStep(t) \/ LoadStep(t)
      PROVE  UNCHANGED head
  BY <1>5 DEF UserStep, LoadStep, Edit, Undo, Redo, MoveTo, ResetToLLM, Switch,
       TranscriptRead, TranscriptShown, TranscriptFails, versionVars
<1>6. ASSUME NEW t \in Tabs, TurnStep(t)
      PROVE  Unused(head'[c])
  <2>1. TurnMoves(t)
    BY <1>6, TurnKinds DEF StoredInv, HandsInv, VersionsInv
  <2>2. CASE Waiting(t) /\ head' = [head EXCEPT ![turn[t].chat] = turn[t].id]
    <3>1. head'[c] = turn[t].id
      BY <1>2, <2>2
    <3>2. QED
      BY <2>2, <3>1 DEF StoredInv, OffersFresh
  <2>3. CASE head' = [head EXCEPT ![turn[t].chat] = Len(rows) + 1]
    <3>1. head'[c] = Len(rows) + 1
      BY <1>2, <2>3
    <3>2. QED
      BY <1>3, <1>4, <3>1
  <2>4. QED
    BY <2>1, <2>2, <2>3 DEF TurnMoves
<1>7. ASSUME ServerStep
      PROVE  Unused(head'[c])
  <2>1. PICK q \in calls : \E r : ServedAs(q, r) /\ ServerKind(q, r)
    BY <1>1, <1>7, ServerKinds
  <2>2. q.stage = "checked" /\ q.base = head[q.chat] /\ rows' = Chained(q).table
        /\ head' = [head EXCEPT ![q.chat] = Chained(q).prev]
    BY <2>1 DEF ServerKind
  <2>3. Chained(q).prev \in Ids' \ Ids /\ Grown
    BY <2>2, HeadIsNew, RowsGrow DEF StoredInv, HandsInv
  <2>4. Ids' = 1 .. Len(rows') /\ Len(rows') \in Nat
    <3>1. IsSeq(rows')
      BY <2>3 DEF Grown
    <3>2. QED
      BY <3>1, SeqFacts DEF Ids
  <2>5. head'[c] = Chained(q).prev
    BY <1>2, <2>2
  <2>6. head'[c] \in Nat /\ head'[c] > Len(rows)
    BY <1>3, <2>3, <2>4, <2>5
  <2>7. QED
    BY <1>4, <2>6
<1>8. ASSUME NEW t \in Tabs, QueueStep(t)
      PROVE  UNCHANGED head
  BY <1>8, QueueCalls
<1>9. ASSUME UNCHANGED syncVars
      PROVE  UNCHANGED head
  BY <1>9 DEF syncVars, versionVars
<1>10. QED
  BY <1>5, <1>6, <1>7, <1>8, <1>9 DEF SyncNext

LEMMA UnknownUnstoredStep ==
  ASSUME StoredInv, [SyncNext]_syncVars
  PROVE  UnknownUnstored'
<1>1. PICK owner \in Owners : CallsOf(owner) /\ RowsOf(owner)
  BY DEF StoredInv, HandsInv, VersionsInv, Owned
<1>2. DOMAIN head = Chats /\ DOMAIN owner \subseteq Nat /\ Grown
  BY <1>1, RowsGrow DEF StoredInv, HandsInv, VersionsInv, TabTypes, Owners
<1>3. ASSUME NEW q \in calls, NEW k \in KeysOf(q.jobs)
      PROVE  k \in Nat /\ owner[k] = q.chat /\ q.chat \in Chats
  BY <1>1, <1>2, <1>3 DEF CallsOf, IsCall, IsBatch, OfChat, KeysOf
<1>4. ASSUME NEW p \in calls', p.stage = "checked", NEW k \in KeysOf(p.jobs) \ p.known
      PROVE  RowsWithKey(k)' = {} \/ head'[p.chat] # p.base
  <2>1. ASSUME NEW q \in calls, SameCall(q, p), p.stage = q.stage, p.known = q.known
        PROVE  RowsWithKey(k)' = {} \/ head'[p.chat] # p.base
    <3>1. p.jobs = q.jobs /\ p.chat = q.chat /\ p.base = q.base
      BY <2>1 DEF SameCall
    <3>2. RowsWithKey(k) = {} \/ head[q.chat] # q.base
      BY <1>4, <2>1, <3>1 DEF StoredInv, UnknownUnstored
    <3>3. k \in Nat /\ owner[k] = q.chat /\ q.chat \in Chats
      BY <1>3, <1>4, <3>1
    <3>4. head'[q.chat] # head[q.chat] => head'[q.chat] # q.base
      BY <3>3, HeadsMove DEF Unused
    <3>5. CASE RowsStay
      BY <3>1, <3>2, <3>3, <3>4, <3>5 DEF RowsStay
    <3>6. ASSUME NEW w \in calls, NEW r, Writes(w, r)
          PROVE  RowsWithKey(k)' = {} \/ head'[q.chat] # q.base
      <4>1. CASE w.chat = q.chat
        <5>1. head'[q.chat] = r.seen /\ r.seen \notin Ids
          BY <1>2, <3>3, <3>6, <4>1 DEF Writes
        <5>2. head[q.chat] \in Ids
          BY <3>3 DEF StoredInv, HandsInv, VersionsInv, HeadsOwn
        <5>3. QED
          BY <3>4, <5>1, <5>2
      <4>2. CASE w.chat # q.chat
        <5>1. head'[q.chat] = head[q.chat]
          BY <1>2, <3>3, <3>6, <4>2 DEF Writes
        <5>2. \A v \in Ids' \ Ids : rows'[v].key # k
          <6>1. ASSUME NEW v \in Ids' \ Ids
                PROVE  rows'[v].key \in KeysOf(w.jobs)
            BY <3>6 DEF Writes, Elems, KeysOf
          <6>2. QED
            BY <1>3, <3>3, <4>2, <6>1
        <5>3. RowsWithKey(k)' = RowsWithKey(k)
          BY <1>2, <5>2 DEF RowsWithKey, Grown
        <5>4. QED
          BY <3>2, <5>1, <5>3
      <4>3. QED
        BY <4>1, <4>2
    <3>7. QED
      BY <3>1, <3>5, <3>6, StepRows DEF StoredInv
  <2>2. ASSUME NEW q \in calls, ServedAs(q, p), ServerKind(q, p)
        PROVE  RowsWithKey(k)' = {}
    <3>1. p.jobs = q.jobs /\ p.known = KnownKeys(q) /\ UNCHANGED rows
      BY <1>4, <2>2 DEF ServedAs, SameCall, ServerKind
    <3>2. QED
      BY <1>4, <3>1 DEF KnownKeys, RowsWithKey, Ids
  <2>3. QED
    BY <1>4, <2>1, <2>2, CallsFrom DEF StoredInv, HandsInv
<1>5. QED
  BY <1>4 DEF UnknownUnstored


\* A key leaves a tab's hands stored or dropped.
LEMMA HandsKept ==
  ASSUME StoredInv, [SyncNext]_syncVars
  PROVE  /\ dropped \subseteq dropped'
         /\ \A u \in Tabs : \A k \in HandKeys(u) :
              k \in HandKeys(u)' \/ k \in dropped' \/ RowsWithKey(k)' # {}
<1> DEFINE Kept(u) == \A k \in HandKeys(u) :
                        k \in HandKeys(u)' \/ k \in dropped' \/ RowsWithKey(k)' # {}
<1>1. \A k : RowsWithKey(k) # {} => RowsWithKey(k)' # {}
  BY RowsGrow, GrownKeeps DEF StoredInv, HandsInv
<1>2. PICK owner \in Owners : QueuesOf(owner) /\ CallsOf(owner)
  BY DEF StoredInv, HandsInv, VersionsInv, Owned
<1>3. ASSUME NEW u \in Tabs, queue'[u] = queue[u], flush'[u].jobs = flush[u].jobs
      PROVE  Kept(u)
  BY <1>3 DEF HandKeys, FKeys, QKeys
<1>4. CASE UNCHANGED queueVars
  BY <1>3, <1>4 DEF queueVars
<1>5. ASSUME NEW t \in Tabs, TabStep(t)
      PROVE  dropped \subseteq dropped' /\ \A u \in Tabs : Kept(u)
  <2>1. /\ UNCHANGED <<flush, dropped>>
        /\ \/ UNCHANGED queue
           \/ \E c \in Chats : \E s : Enqueue(t, c, s)
    BY <1>5, TabStepFrame DEF StoredInv, HandsInv, VersionsInv
  <2>2. CASE UNCHANGED queue
    BY <1>3, <2>1, <2>2
  <2>3. ASSUME NEW c \in Chats, NEW s, Enqueue(t, c, s)
        PROVE  \A u \in Tabs : Kept(u)
    <3>1. PICK wider \in [1 .. minted' -> Chats], k \in 1 .. minted' : EnqueuedAs(t, s, k, wider)
      BY <1>2, <2>3, EnqueueEffect DEF StoredInv, HandsInv, VersionsInv, Owned
    <3>2. /\ \A u \in Tabs : u # t => queue'[u] = queue[u]
          /\ KeysOf(queue'[t]) = KeysOf(queue[t]) \cup {k}
      BY <3>1 DEF EnqueuedAs
    <3>3. Kept(t)
      BY <2>1, <3>2 DEF HandKeys, FKeys, QKeys
    <3>4. \A u \in Tabs : u # t => Kept(u)
      BY <1>3, <2>1, <3>2
    <3>5. QED
      BY <3>3, <3>4
  <2>4. QED
    BY <2>1, <2>2, <2>3
<1>6. ASSUME NEW t \in Tabs, WriterStep(t)
      PROVE  UNCHANGED queueVars
  BY <1>6 DEF WriterStep, TurnAnswered, ReplacementAccepted, RejectionInserts, RejectionMoves
<1>7. ASSUME NEW t \in Tabs, QueueStep(t)
      PROVE  dropped \subseteq dropped' /\ \A u \in Tabs : Kept(u)
  <2>1. Others(t) => \A u \in Tabs : u # t => Kept(u)
    BY <1>3 DEF Others
  <2>2. CASE QStart(t) \/ QBeacon(t)
    <3>1. queue[t] # <<>> /\ Others(t) /\ dropped \subseteq dropped'
      BY <2>2 DEF QStart, QBeacon
    <3>2. QKeys(t) = KeysOf(Run(t)) \cup KeysOf(AfterRun(t))
      BY <3>1, RunKeys DEF Splits, StoredInv
    <3>3. Kept(t)
      <4>1. QKeys(t)' = KeysOf(AfterRun(t))
        BY <2>2 DEF QStart, QBeacon, QKeys
      <4>2. CASE QStart(t)
        <5>1. FKeys(t)' = KeysOf(Run(t)) /\ FKeys(t) = {}
          BY <4>2, NothingInFlush DEF QStart, FKeys, Flushing
        <5>2. QED
          BY <3>2, <4>1, <5>1 DEF HandKeys
      <4>3. CASE QBeacon(t)
        <5>1. FKeys(t)' = FKeys(t) /\ KeysOf(Run(t)) \subseteq dropped'
          BY <4>3 DEF QBeacon, FKeys
        <5>2. QED
          BY <3>2, <4>1, <5>1 DEF HandKeys
      <4>4. QED
        BY <2>2, <4>2, <4>3
    <3>4. QED
      BY <2>1, <3>1, <3>3
  <2>3. ASSUME NEW q \in calls, QRetry(t, q)
        PROVE  dropped \subseteq dropped' /\ \A u \in Tabs : Kept(u)
    <3>1. Others(t) /\ UNCHANGED dropped /\ queue'[t] = queue[t] /\ flush'[t].jobs = flush[t].jobs
      BY <2>3 DEF QRetry
    <3>2. QED
      BY <1>3, <2>1, <3>1
  <2>4. ASSUME NEW q \in calls, QEnd(t, q)
        PROVE  dropped \subseteq dropped' /\ \A u \in Tabs : Kept(u)
    <3>1. Others(t) /\ Flushing(t) /\ q.n = flush[t].call /\ queue'[t] = queue[t]
          /\ dropped \subseteq dropped'
          /\ \/ q.stage = "answered" /\ q.code = 200
             \/ dropped' = dropped \cup KeysOf(flush[t].jobs)
      BY <2>4 DEF QEnd
    <3>2. q.jobs = flush[t].jobs
      BY <3>1, LinkedCall DEF StoredInv
    <3>3. \A k \in FKeys(t) : k \in dropped' \/ RowsWithKey(k)' # {}
      BY <1>1, <3>1, <3>2 DEF FKeys, StoredInv, SavedStored
    <3>4. QKeys(t)' = QKeys(t)
      BY <3>1 DEF QKeys
    <3>5. Kept(t)
      BY <3>3, <3>4 DEF HandKeys
    <3>6. QED
      BY <2>1, <3>1, <3>5
  <2>5. ASSUME NEW q \in calls, QPutBack(t, q)
        PROVE  dropped \subseteq dropped' /\ \A u \in Tabs : Kept(u)
    <3>1. Others(t) /\ UNCHANGED dropped /\ queue'[t] = flush[t].jobs \o queue[t]
      BY <2>5 DEF QPutBack
    <3>2. KeysOf(flush[t].jobs \o queue[t]) = FKeys(t) \cup QKeys(t)
      <4>1. IsBatch(flush[t].jobs, owner) /\ IsBatch(queue[t], owner) /\ Before(flush[t].jobs, queue[t])
        BY <1>2 DEF QueuesOf, IsFlush
      <4>2. QED
        BY <4>1, BatchConcat DEF FKeys, QKeys
    <3>3. Kept(t)
      BY <3>1, <3>2 DEF HandKeys, QKeys
    <3>4. QED
      BY <2>1, <3>1, <3>3
  <2>6. QED
    BY <1>7, <2>2, <2>3, <2>4, <2>5, QueueKinds DEF StoredInv, HandsInv
<1>8. (ServerStep \/ UNCHANGED syncVars) => UNCHANGED queueVars
  BY DEF ServerStep, syncVars
<1>9. ASSUME UNCHANGED queueVars
      PROVE  dropped \subseteq dropped' /\ \A u \in Tabs : Kept(u)
  BY <1>3, <1>9 DEF queueVars
<1>10. QED
  BY <1>5, <1>6, <1>7, <1>8, <1>9, StepKinds

LEMMA NothingLostStep ==
  ASSUME StoredInv, [SyncNext]_syncVars
  PROVE  NothingLost'
<1>1. \A k : RowsWithKey(k) # {} => RowsWithKey(k)' # {}
  BY RowsGrow, GrownKeeps DEF StoredInv, HandsInv
<1>2. /\ dropped \subseteq dropped'
      /\ \A u \in Tabs : \A k \in HandKeys(u) :
           k \in HandKeys(u)' \/ k \in dropped' \/ RowsWithKey(k)' # {}
  BY HandsKept
<1>3. /\ \A k : InHand(k) <=> \E t \in Tabs : k \in HandKeys(t)
      /\ \A k : InHand(k)' <=> \E t \in Tabs : k \in HandKeys(t)'
  BY DEF InHand, HandKeys, FKeys, QKeys
<1>4. ASSUME NEW k \in 1 .. minted
      PROVE  k \in dropped' \/ InHand(k)' \/ RowsWithKey(k)' # {}
  BY <1>1, <1>2, <1>3 DEF StoredInv, NothingLost
<1>5. ASSUME NEW k \in 1 .. minted'
      PROVE  k \in 1 .. minted \/ InHand(k)'
  <2>1. minted' = minted \/ (minted' = minted + 1 /\ \E t \in Tabs : QKeys(t)' = QKeys(t) \cup {minted + 1})
    BY KeyKinds DEF KeyStep, StoredInv
  <2>2. minted \in Nat
    BY KeyFacts DEF StoredInv, HandsInv
  <2>3. k \in 1 .. minted \/ k = minted + 1
    BY <2>1, <2>2
  <2>4. k \in 1 .. minted \/ \E t \in Tabs : k \in HandKeys(t)'
    BY <2>1, <2>2, <2>3 DEF HandKeys
  <2>5. QED
    BY <1>3, <2>4
<1>6. QED
  BY <1>4, <1>5 DEF NothingLost

LEMMA StoredStep ==
  ASSUME StoredInv, [SyncNext]_syncVars
  PROVE  StoredInv'
<1>1. HandsInv' /\ RowsBelow' /\ UsedExist' /\ OffersFresh'
  BY HandsStep, RowsBelowStep, UsedExistStep, OffersFreshStep DEF StoredInv
<1>2. KnownFirst' /\ UnknownUnstored' /\ SavedStored' /\ StoredOnce' /\ NothingLost'
  BY KnownFirstStep, UnknownUnstoredStep, SavedStoredStep, StoredOnceStep, NothingLostStep
<1>3. QED
  BY <1>1, <1>2 DEF StoredInv

LEMMA InitStored == SyncInit => StoredInv
<1> SUFFICES ASSUME SyncInit PROVE StoredInv
  OBVIOUS
<1>1. HandsInv
  BY InitHands
<1>2. /\ IsSeq(rows) /\ calls = {}
      /\ \A v \in Ids : rows[v].key = NoKey
      /\ \A c \in Chats : head[c] \in Ids
  BY InitVersions DEF SyncInit
<1>3. Ids = 1 .. Len(rows) /\ Len(rows) \in Nat
  BY <1>2, SeqFacts DEF Ids
<1>4. \A t \in Tabs : /\ belief[t] = head[FirstChat] /\ flush[t] = NoFlush /\ loading[t] = NoLoad
                      /\ turn[t].stage = "none"
  BY DEF SyncInit, NoTurn
<1>5. minted = 0
  BY DEF SyncInit
<1>6. FirstChat \in Chats /\ NoFlush.base = 0 /\ NoLoad.id = 0 /\ NoKey \notin Nat
  BY EditSyncAssumption DEF NoFlush, NoLoad
<1>7. RowsBelow
  <2>1. \A B \in KeySets : B = {}
    <3>1. \A B \in KeySets : B \subseteq 1 .. 0
      BY <1>1, <1>5, KeyFacts DEF HandsInv
    <3>2. QED
      BY <3>1
  <2>2. QED
    BY <2>1 DEF RowsBelow
<1>8. UsedExist
  <2>1. ASSUME NEW v \in Nat, v > Len(rows)
        PROVE  Unused(v)
    <3>1. v \notin Ids /\ v # 0
      BY <1>3, <2>1
    <3>2. QED
      BY <1>2, <1>4, <1>6, <3>1 DEF Unused, Settled
  <2>2. QED
    BY <2>1 DEF UsedExist
<1>9. OffersFresh
  BY <1>4 DEF OffersFresh, Waiting
<1>10. KnownFirst /\ UnknownUnstored /\ SavedStored
  BY <1>2 DEF KnownFirst, UnknownUnstored, SavedStored
<1>11. StoredOnce
  BY <1>2 DEF StoredOnce
<1>12. NothingLost
  BY <1>5 DEF NothingLost
<1>13. QED
  BY <1>1, <1>7, <1>8, <1>9, <1>10, <1>11, <1>12 DEF StoredInv

LEMMA StoredAlways == SyncSpec => []StoredInv
<1>1. StoredInv /\ [SyncNext]_syncVars => StoredInv'
  BY StoredStep
<1>2. QED
  BY <1>1, InitStored, PTL DEF SyncSpec

\* No job is lost on its way without a trace, and none is stored twice: the
\* head's comparison stands for a look at the keys inside the transaction.
THEOREM SyncKeysAccounted == SyncSpec => []KeysAreAccountedFor
<1>1. StoredInv => KeysAreAccountedFor
  <2> SUFFICES ASSUME StoredInv, NEW k \in 1 .. minted
               PROVE  /\ k \in dropped \/ InHand(k) \/ RowsWithKey(k) # {}
                      /\ Cardinality(RowsWithKey(k)) <= 1
    BY DEF KeysAreAccountedFor
  <2>1. k \in dropped \/ InHand(k) \/ RowsWithKey(k) # {}
    BY DEF StoredInv, NothingLost
  <2>2. k # NoKey
    BY MintedRows, KeyFacts DEF StoredInv, HandsInv
  <2>3. \A v, w \in RowsWithKey(k) : v = w
    BY <2>2 DEF StoredInv, StoredOnce, RowsWithKey
  <2>4. RowsWithKey(k) = {} \/ \E v : RowsWithKey(k) = {v}
    <3>1. \A v \in RowsWithKey(k) : RowsWithKey(k) = {v}
      BY <2>3
    <3>2. QED
      BY <3>1
  <2>5. Cardinality(RowsWithKey(k)) \in {0, 1}
    BY <2>4, FS_EmptySet, FS_Singleton
  <2>6. QED
    BY <2>1, <2>5
<1>2. QED
  BY <1>1, StoredAlways, PTL

-----------------------------------------------------------------------------
(* What is stored is what the user left *)

\* Keys of jobs a queue neither gave up nor sent a second time unheard.
Heard == 1 .. minted \ (dropped \cup retried)
JobsLatest ==
  \A t \in Tabs : \A j \in Elems(queue[t]) \cup Elems(flush[t].jobs) : j.score = latest[j.key]
\* No call but the one its flush waits for carries such a key ...
HeardLinked ==
  \A q \in calls : KeysOf(q.jobs) \cap Heard # {} =>
    \E t \in Tabs : Flushing(t) /\ q.n = flush[t].call
\* ... and it has stored it only if the flush is to hear so.
HeardUnstored ==
  /\ \A q \in calls : \A k \in KeysOf(q.jobs) \cap Heard :
       RowsWithKey(k) # {} => q.stage = "answered" /\ q.code = 200
  /\ \A t \in Tabs : \A k \in QKeys(t) \cap Heard : RowsWithKey(k) = {}
RowsLatest == \A k \in Heard : \A v \in RowsWithKey(k) : rows[v].score = latest[k]
NewestInv == StoredInv /\ JobsLatest /\ HeardLinked /\ HeardUnstored /\ RowsLatest
Newest == JobsLatest /\ HeardLinked /\ HeardUnstored /\ RowsLatest

LEMMA NewestByEdit ==
  ASSUME NewestInv, NEW t \in Tabs, TabStep(t)
  PROVE  Newest'
<1>1. /\ UNCHANGED <<rows, calls, flush, dropped, retried>>
      /\ \/ UNCHANGED <<queue, minted, latest>>
         \/ \E c \in Chats : \E s : Enqueue(t, c, s)
  BY TabStepFrame DEF NewestInv, StoredInv, HandsInv, VersionsInv, versionVars
<1>2. \A k : RowsWithKey(k)' = RowsWithKey(k)
  BY <1>1 DEF RowsWithKey, Ids
<1>3. CASE UNCHANGED <<queue, minted, latest>>
  <2>1. Heard' = Heard /\ \A u \in Tabs : QKeys(u)' = QKeys(u)
    BY <1>1, <1>3 DEF Heard, QKeys
  <2>2. QED
    BY <1>1, <1>2, <1>3, <2>1
       DEF NewestInv, Newest, JobsLatest, HeardLinked, HeardUnstored, RowsLatest, Flushing
<1>4. ASSUME NEW c \in Chats, NEW s, Enqueue(t, c, s)
      PROVE  Newest'
  <2>1. PICK owner \in Owners : QueuesOf(owner)
    BY DEF NewestInv, StoredInv, HandsInv, VersionsInv, Owned
  <2>2. PICK wider \in [1 .. minted' -> Chats], k \in 1 .. minted' : EnqueuedAs(t, s, k, wider)
    BY <1>4, <2>1, EnqueueEffect DEF NewestInv, StoredInv, HandsInv, VersionsInv, Owned
  <2>3. /\ \A u \in Tabs : u # t => queue'[u] = queue[u]
        /\ KeysOf(queue'[t]) = KeysOf(queue[t]) \cup {k}
        /\ \A j \in Elems(queue'[t]) : IF j.key = k THEN j.score = s ELSE j \in Elems(queue[t])
        /\ latest'[k] = s /\ \A m \in 1 .. minted : m # k => latest'[m] = latest[m]
        /\ \/ k \in QKeys(t) /\ minted' = minted
           \/ k = minted + 1 /\ minted' = minted + 1
    BY <2>2 DEF EnqueuedAs, QKeys
  <2>4. /\ minted \in Nat
        /\ \A u \in Tabs : FKeys(u) \subseteq 1 .. minted /\ QKeys(u) \subseteq 1 .. minted
        /\ \A q \in calls : KeysOf(q.jobs) \subseteq 1 .. minted
        /\ \A l \in FKeys(t), m \in QKeys(t) : l < m
    BY KeyFacts DEF NewestInv, StoredInv, HandsInv, KeySets, CallKeys
  <2>5. /\ RowsWithKey(minted + 1) = {} /\ minted + 1 \notin 1 .. minted
        /\ Heard' \subseteq Heard \cup {minted + 1}
    <3>1. minted + 1 \notin 1 .. minted /\ minted + 1 \in Nat
      BY <2>4
    <3>2. RowsWithKey(minted + 1) = {}
      BY <3>1, MintedRows DEF NewestInv, StoredInv
    <3>3. 1 .. minted' \subseteq (1 .. minted) \cup {minted + 1}
      BY <2>3, <2>4
    <3>4. QED
      BY <1>1, <3>1, <3>2, <3>3 DEF Heard
  <2>6. k \notin FKeys(t) /\ \A u \in Tabs : u # t => k \notin HandKeys(u)
    <3>1. CASE k \in QKeys(t)
      <4>1. k \notin FKeys(t)
        BY <2>4, <3>1
      <4>2. \A u \in Tabs : u # t => k \notin HandKeys(u)
        BY <3>1 DEF NewestInv, StoredInv, HandsInv, HandsApart, HandKeys
      <4>3. QED
        BY <4>1, <4>2
    <3>2. CASE k = minted + 1
      BY <2>4, <2>5, <3>2 DEF HandKeys
    <3>3. QED
      BY <2>3, <3>1, <3>2
  <2>7. \A u \in Tabs : /\ \A j \in Elems(queue[u]) : j.key \in QKeys(u)
                        /\ \A j \in Elems(flush[u].jobs) : j.key \in FKeys(u)
    BY DEF Elems, KeysOf, QKeys, FKeys
  <2>8. JobsLatest'
    <3>1. ASSUME NEW u \in Tabs, NEW j \in Elems(queue[u]) \cup Elems(flush[u].jobs), j.key # k
          PROVE  j.score = latest'[j.key]
      BY <2>3, <2>4, <2>7, <3>1 DEF NewestInv, JobsLatest
    <3>2. ASSUME NEW j \in Elems(queue'[t])
          PROVE  j.score = latest'[j.key]
      BY <2>3, <3>1
    <3>3. ASSUME NEW u \in Tabs, NEW j \in Elems(flush[u].jobs)
          PROVE  j.score = latest'[j.key]
      BY <2>6, <2>7, <3>1 DEF HandKeys
    <3>4. ASSUME NEW u \in Tabs, u # t, NEW j \in Elems(queue[u])
          PROVE  j.score = latest'[j.key]
      BY <2>6, <2>7, <3>1, <3>4 DEF HandKeys
    <3>5. QED
      BY <1>1, <2>3, <3>2, <3>3, <3>4 DEF JobsLatest
  <2>9. HeardLinked'
    BY <1>1, <2>4, <2>5 DEF NewestInv, HeardLinked, Flushing
  <2>10. HeardUnstored'
    <3>1. \A q \in calls : \A m \in KeysOf(q.jobs) \cap Heard' :
            RowsWithKey(m) # {} => q.stage = "answered" /\ q.code = 200
      BY <2>4, <2>5 DEF NewestInv, HeardUnstored
    <3>2. \A u \in Tabs : QKeys(u)' \subseteq QKeys(u) \cup {minted + 1}
      BY <2>3 DEF QKeys
    <3>3. \A u \in Tabs : \A m \in QKeys(u)' \cap Heard' : RowsWithKey(m) = {}
      BY <2>4, <2>5, <3>2 DEF NewestInv, HeardUnstored
    <3>4. QED
      BY <1>1, <1>2, <3>1, <3>3 DEF HeardUnstored
  <2>11. RowsLatest'
    <3>1. ASSUME NEW m \in Heard', NEW v \in RowsWithKey(m)
          PROVE  rows[v].score = latest'[m]
      <4>1. m \in Heard /\ m # minted + 1
        BY <2>5, <3>1
      <4>2. m # k
        BY <2>3, <3>1, <4>1 DEF NewestInv, HeardUnstored
      <4>3. m \in 1 .. minted
        BY <4>1 DEF Heard
      <4>4. QED
        BY <2>3, <4>1, <4>2, <4>3 DEF NewestInv, RowsLatest
    <3>2. QED
      BY <1>1, <1>2, <3>1 DEF RowsLatest
  <2>12. QED
    BY <2>8, <2>9, <2>10, <2>11 DEF Newest
<1>5. QED
  BY <1>1, <1>3, <1>4

LEMMA NewestByTurn ==
  ASSUME NewestInv, NEW t \in Tabs, WriterStep(t)
  PROVE  Newest'
<1>1. RowsStay /\ Grown
  BY WriterRows DEF NewestInv, StoredInv
<1>2. UNCHANGED <<calls, queue, flush, minted, latest, dropped, retried>>
  BY DEF WriterStep, TurnAnswered, ReplacementAccepted, RejectionInserts, RejectionMoves,
         Appends, Accepts, RejectInserts, RejectMoves, versionVars, queueVars
<1>3. /\ Heard' = Heard /\ \A u \in Tabs : QKeys(u)' = QKeys(u)
      /\ \A k \in Heard : k \in Nat
  BY <1>2 DEF Heard, QKeys
<1>4. \A k \in Heard : RowsWithKey(k)' = RowsWithKey(k)
  BY <1>1, <1>3 DEF RowsStay
<1>5. JobsLatest' /\ HeardLinked' /\ HeardUnstored'
  BY <1>2, <1>3, <1>4 DEF NewestInv, JobsLatest, HeardLinked, HeardUnstored, Flushing
<1>6. \A k : \A v \in RowsWithKey(k) : rows'[v] = rows[v]
  BY <1>1 DEF Grown, RowsWithKey
<1>7. RowsLatest'
  BY <1>2, <1>3, <1>4, <1>6 DEF NewestInv, RowsLatest
<1>8. QED
  BY <1>5, <1>7 DEF Newest

\* A key of that kind is on its way in one call, for one flush.
LEMMA HeardAlone ==
  ASSUME NewestInv, NEW q \in calls, NEW k \in KeysOf(q.jobs) \cap Heard
  PROVE  /\ \E t \in Tabs : Flushing(t) /\ q.n = flush[t].call /\ q.jobs = flush[t].jobs
         /\ \A u \in Tabs : k \notin QKeys(u)
         /\ \A p \in calls : k \in KeysOf(p.jobs) => p = q
<1>1. HandsInv
  BY DEF NewestInv, StoredInv
<1>2. ASSUME NEW p \in calls, k \in KeysOf(p.jobs)
      PROVE  \E t \in Tabs : /\ Flushing(t) /\ p.n = flush[t].call /\ p.jobs = flush[t].jobs
                            /\ k \in FKeys(t)
  <2>1. PICK t \in Tabs : Flushing(t) /\ p.n = flush[t].call
    BY <1>2 DEF NewestInv, HeardLinked
  <2>2. p.jobs = flush[t].jobs
    BY <1>1, <2>1, LinkedCall
  <2>3. QED
    BY <1>2, <2>1, <2>2 DEF FKeys
<1>3. PICK t \in Tabs : Flushing(t) /\ q.n = flush[t].call /\ q.jobs = flush[t].jobs /\ k \in FKeys(t)
  BY <1>2
<1>4. \A u \in Tabs : u # t => k \notin HandKeys(u)
  BY <1>1, <1>3 DEF HandsInv, HandsApart, HandKeys
<1>5. k \notin QKeys(t)
  <2>1. k \in QKeys(t) => k < k
    BY <1>1, <1>3, KeyFacts DEF HandsInv
  <2>2. k \in Nat
    BY DEF Heard
  <2>3. QED
    BY <2>1, <2>2
<1>6. ASSUME NEW p \in calls, k \in KeysOf(p.jobs)
      PROVE  p = q
  <2>1. PICK u \in Tabs : Flushing(u) /\ p.n = flush[u].call /\ k \in FKeys(u)
    BY <1>2, <1>6
  <2>2. u = t
    BY <1>4, <2>1 DEF HandKeys
  <2>3. QED
    BY <1>1, <1>3, <2>1, <2>2 DEF HandsInv, CallsApart
<1>7. QED
  BY <1>3, <1>4, <1>5, <1>6 DEF HandKeys

LEMMA NewestByQueue ==
  ASSUME NewestInv, NEW t \in Tabs, QueueStep(t)
  PROVE  Newest'
<1>1. UNCHANGED <<rows, minted, latest>>
  BY QueueCalls
<1>2. PICK owner \in Owners : QueuesOf(owner) /\ CallsOf(owner)
  BY DEF NewestInv, StoredInv, HandsInv, VersionsInv, Owned
<1>3. \A k : RowsWithKey(k)' = RowsWithKey(k)
  BY <1>1 DEF RowsWithKey, Ids
<1>4. HandsInv
  BY DEF NewestInv, StoredInv
\* What is left to show of any step of the queue.
<1>5. ASSUME Others(t), Heard' \subseteq Heard,
             Elems(queue'[t]) \cup Elems(flush'[t].jobs)
               \subseteq Elems(queue[t]) \cup Elems(flush[t].jobs),
             \A k \in QKeys(t)' \cap Heard' : RowsWithKey(k) = {},
             \A p \in calls' : KeysOf(p.jobs) \cap Heard' # {} =>
               \/ p \in calls /\ ~(Flushing(t) /\ p.n = flush[t].call)
               \/ /\ (Flushing(t))' /\ p.n = flush'[t].call
                  /\ \A k \in KeysOf(p.jobs) \cap Heard' : RowsWithKey(k) = {}
      PROVE  Newest'
  <2>1. JobsLatest'
    BY <1>1, <1>5 DEF NewestInv, JobsLatest, Others
  <2>2. HeardLinked'
    <3>1. ASSUME NEW p \in calls, ~(Flushing(t) /\ p.n = flush[t].call), KeysOf(p.jobs) \cap Heard' # {}
          PROVE  \E u \in Tabs : (Flushing(u))' /\ p.n = flush'[u].call
      <4>1. PICK u \in Tabs : Flushing(u) /\ p.n = flush[u].call
        BY <1>5, <3>1 DEF NewestInv, HeardLinked
      <4>2. u # t
        BY <3>1, <4>1
      <4>3. QED
        BY <1>5, <4>1, <4>2 DEF Others, Flushing
    <3>2. QED
      BY <1>5, <3>1 DEF HeardLinked
  <2>3. HeardUnstored'
    <3>1. \A u \in Tabs : u # t => QKeys(u)' = QKeys(u)
      BY <1>5 DEF Others, QKeys
    <3>2. \A u \in Tabs : \A k \in QKeys(u)' \cap Heard' : RowsWithKey(k) = {}
      BY <1>5, <3>1 DEF NewestInv, HeardUnstored
    <3>3. \A p \in calls' : \A k \in KeysOf(p.jobs) \cap Heard' :
            RowsWithKey(k) # {} => p.stage = "answered" /\ p.code = 200
      BY <1>5 DEF NewestInv, HeardUnstored
    <3>4. QED
      BY <1>3, <3>2, <3>3 DEF HeardUnstored
  <2>4. RowsLatest'
    BY <1>1, <1>3, <1>5 DEF NewestInv, RowsLatest
  <2>5. QED
    BY <2>1, <2>2, <2>3, <2>4 DEF Newest
<1>6. ASSUME queue[t] # <<>>
      PROVE  /\ Elems(Run(t)) \subseteq Elems(queue[t]) /\ Elems(AfterRun(t)) \subseteq Elems(queue[t])
             /\ KeysOf(Run(t)) \subseteq QKeys(t) /\ KeysOf(AfterRun(t)) \subseteq QKeys(t)
             /\ \A k \in KeysOf(Run(t)), l \in KeysOf(AfterRun(t)) : k < l
             /\ \A q \in calls : KeysOf(q.jobs) \cap KeysOf(Run(t)) \cap Heard = {}
  <2>1. Splits(t, KeysOf(Run(t)), KeysOf(AfterRun(t)))
    BY <1>4, <1>6, RunKeys
  <2>2. \A q \in calls : \A k \in KeysOf(q.jobs) \cap Heard : k \notin QKeys(t)
    BY HeardAlone
  <2>3. Elems(Run(t)) \subseteq Elems(queue[t]) /\ Elems(AfterRun(t)) \subseteq Elems(queue[t])
    <3>1. IsBatch(queue[t], owner) /\ DOMAIN owner \subseteq Nat
      BY <1>2 DEF QueuesOf, Owners
    <3>2. QED
      BY <1>6, <3>1, RunSplits
  <2>4. QED
    BY <2>1, <2>2, <2>3 DEF Splits
<1>7. ASSUME NEW q \in calls, q.n = flush[t].call, Flushing(t)
      PROVE  q.jobs = flush[t].jobs /\ KeysOf(q.jobs) = FKeys(t) /\ SameCall(q, Unheard(q))
  BY <1>2, <1>4, <1>7, LinkedCall, UnheardIs DEF FKeys, CallsOf, IsCall
<1>8. CASE QStart(t)
  <2>1. /\ queue[t] # <<>> /\ ~Flushing(t) /\ Others(t) /\ queue'[t] = AfterRun(t)
        /\ flush'[t].jobs = Run(t) /\ (Flushing(t))' /\ UNCHANGED <<dropped, retried>>
    BY <1>8 DEF QStart, Flushing
  <2>2. PICK n : \E r : /\ flush'[t].call = n /\ calls' = calls \cup {r}
                        /\ r.n = n /\ r.jobs = Run(t)
    BY <1>8 DEF QStart, SentAs
  <2>3. PICK r : flush'[t].call = n /\ calls' = calls \cup {r} /\ r.n = n /\ r.jobs = Run(t)
    BY <2>2
  <2>4. Heard' = Heard
    BY <1>1, <2>1 DEF Heard
  <2>5. \A k \in QKeys(t) \cap Heard : RowsWithKey(k) = {}
    BY DEF NewestInv, HeardUnstored
  <2>6. QKeys(t)' \subseteq QKeys(t)
    BY <1>6, <2>1 DEF QKeys
  <2>7. Elems(queue'[t]) \cup Elems(flush'[t].jobs) \subseteq Elems(queue[t]) \cup Elems(flush[t].jobs)
    BY <1>6, <2>1
  <2>8. \A k \in KeysOf(r.jobs) \cap Heard' : RowsWithKey(k) = {}
    BY <1>6, <2>1, <2>3, <2>4, <2>5
  <2>9. \A p \in calls' : p = r \/ p \in calls
    BY <2>3
  <2>10. QED
    BY <1>5, <2>1, <2>3, <2>4, <2>5, <2>6, <2>7, <2>8, <2>9
<1>9. CASE QBeacon(t)
  <2>1. /\ queue[t] # <<>> /\ Others(t) /\ queue'[t] = AfterRun(t) /\ flush'[t] = flush[t]
        /\ dropped' = dropped \cup KeysOf(Run(t)) /\ UNCHANGED retried
    BY <1>9 DEF QBeacon
  <2>2. PICK r : calls' = calls \cup {r} /\ r.jobs = Run(t)
    BY <1>9 DEF QBeacon, SentAs
  <2>3. Heard' \subseteq Heard /\ KeysOf(Run(t)) \cap Heard' = {}
    BY <1>1, <2>1 DEF Heard
  <2>4. \A k \in QKeys(t)' \cap Heard' : RowsWithKey(k) = {}
    BY <1>6, <2>1, <2>3 DEF NewestInv, HeardUnstored, QKeys
  <2>5. Elems(queue'[t]) \cup Elems(flush'[t].jobs) \subseteq Elems(queue[t]) \cup Elems(flush[t].jobs)
    BY <1>6, <2>1
  <2>6. ASSUME NEW p \in calls', KeysOf(p.jobs) \cap Heard' # {}
        PROVE  /\ p \in calls
               /\ Flushing(t) /\ p.n = flush[t].call => (Flushing(t))' /\ p.n = flush'[t].call
    BY <2>1, <2>2, <2>3, <2>6 DEF Flushing
  <2>7. JobsLatest'
    BY <1>1, <2>1, <2>5 DEF NewestInv, JobsLatest, Others
  <2>8. HeardLinked'
    <3>1. \A u \in Tabs : flush'[u] = flush[u]
      BY <2>1 DEF Others
    <3>2. QED
      BY <2>3, <2>6, <3>1 DEF NewestInv, HeardLinked, Flushing
  <2>9. HeardUnstored'
    <3>1. \A u \in Tabs : u # t => QKeys(u)' = QKeys(u)
      BY <2>1 DEF Others, QKeys
    <3>2. QED
      BY <1>3, <2>3, <2>4, <2>6, <3>1 DEF NewestInv, HeardUnstored
  <2>10. RowsLatest'
    BY <1>1, <1>3, <2>3 DEF NewestInv, RowsLatest
  <2>11. QED
    BY <2>7, <2>8, <2>9, <2>10 DEF Newest
<1>10. ASSUME NEW q \in calls, QRetry(t, q)
       PROVE  Newest'
  <2>1. /\ Flushing(t) /\ q.n = flush[t].call /\ Others(t)
        /\ queue'[t] = queue[t] /\ flush'[t].jobs = flush[t].jobs /\ (Flushing(t))'
        /\ UNCHANGED dropped
    BY <1>10 DEF QRetry, Flushing
  <2>2. PICK rest : \E n, r :
          /\ Stays(q, rest) /\ flush'[t].call = n /\ r.n = n /\ r.jobs = flush[t].jobs
          /\ calls' = rest \cup {r}
          /\ \/ retried' = retried \cup KeysOf(q.jobs)
             \/ UNCHANGED retried /\ rest = calls \ {q} /\ q.stage = "answered" /\ q.code = 409
    BY <1>10 DEF QRetry, SentAs
  <2>3. PICK n, r :
          /\ Stays(q, rest) /\ flush'[t].call = n /\ r.n = n /\ r.jobs = flush[t].jobs
          /\ calls' = rest \cup {r}
          /\ \/ retried' = retried \cup KeysOf(q.jobs)
             \/ UNCHANGED retried /\ rest = calls \ {q} /\ q.stage = "answered" /\ q.code = 409
    BY <2>2
  <2>4. q.jobs = flush[t].jobs /\ KeysOf(q.jobs) = FKeys(t) /\ Unheard(q).jobs = q.jobs
    BY <1>7, <2>1 DEF SameCall
  <2>5. Heard' \subseteq Heard
    BY <1>1, <2>1, <2>3 DEF Heard
  <2>6. \A k \in QKeys(t)' \cap Heard' : RowsWithKey(k) = {}
    BY <2>1, <2>5 DEF NewestInv, HeardUnstored, QKeys
  <2>7. Elems(queue'[t]) \cup Elems(flush'[t].jobs) \subseteq Elems(queue[t]) \cup Elems(flush[t].jobs)
    BY <2>1
  <2>8. \A p \in calls : p.n = flush[t].call => p = q
    BY <1>4, <2>1 DEF HandsInv, CallsApart
  <2>9. ASSUME NEW p \in calls', KeysOf(p.jobs) \cap Heard' # {}
        PROVE  \/ p \in calls /\ ~(Flushing(t) /\ p.n = flush[t].call)
               \/ /\ (Flushing(t))' /\ p.n = flush'[t].call
                  /\ \A k \in KeysOf(p.jobs) \cap Heard' : RowsWithKey(k) = {}
    <3>1. CASE retried' = retried \cup KeysOf(q.jobs)
      <4>1. KeysOf(q.jobs) \cap Heard' = {}
        BY <3>1 DEF Heard
      <4>2. p # r /\ p # Unheard(q) /\ p # q
        BY <2>3, <2>4, <2>9, <4>1
      <4>3. p \in calls
        BY <2>3, <4>2 DEF Stays
      <4>4. QED
        BY <2>8, <4>2, <4>3
    <3>2. CASE rest = calls \ {q} /\ q.stage = "answered" /\ q.code = 409
      <4>1. \A k \in KeysOf(q.jobs) \cap Heard : RowsWithKey(k) = {}
        BY <3>2 DEF NewestInv, HeardUnstored
      <4>2. CASE p = r
        BY <2>1, <2>3, <2>4, <2>5, <4>1, <4>2
      <4>3. CASE p # r
        BY <2>3, <2>8, <3>2, <4>3
      <4>4. QED
        BY <4>2, <4>3
    <3>3. QED
      BY <2>3, <3>1, <3>2
  <2>10. QED
    BY <1>5, <2>1, <2>5, <2>6, <2>7, <2>9
<1>11. ASSUME NEW q \in calls, QEnd(t, q) \/ QPutBack(t, q)
       PROVE  Newest'
  <2>1. /\ Flushing(t) /\ q.n = flush[t].call /\ Others(t)
        /\ flush'[t] = NoFlush /\ Stays(q, calls')
        /\ \/ queue'[t] = queue[t]
           \/ /\ queue'[t] = flush[t].jobs \o queue[t] /\ q.stage = "answered" /\ q.code = 409
              /\ calls' = calls \ {q}
        /\ \/ calls' = calls \ {q}
           \/ dropped' = dropped \cup KeysOf(flush[t].jobs)
    BY <1>11 DEF QEnd, QPutBack, Stays
  <2>2. q.jobs = flush[t].jobs /\ KeysOf(q.jobs) = FKeys(t) /\ Unheard(q).jobs = q.jobs
    BY <1>7, <2>1 DEF SameCall
  <2>3. Heard' \subseteq Heard
    <3>1. dropped \subseteq dropped' /\ retried \subseteq retried'
      BY <1>11 DEF QEnd, QPutBack
    <3>2. QED
      BY <1>1, <3>1 DEF Heard
  <2>4. \A p \in calls : p.n = flush[t].call => p = q
    BY <1>4, <2>1 DEF HandsInv, CallsApart
  <2>5. /\ Elems(queue'[t]) \subseteq Elems(queue[t]) \cup Elems(flush[t].jobs)
        /\ \A k \in QKeys(t)' \cap Heard' : RowsWithKey(k) = {}
    <3>1. CASE queue'[t] = queue[t]
      BY <2>3, <3>1 DEF NewestInv, HeardUnstored, QKeys
    <3>2. CASE queue'[t] = flush[t].jobs \o queue[t] /\ q.stage = "answered" /\ q.code = 409
      <4>1. IsBatch(flush[t].jobs, owner) /\ IsBatch(queue[t], owner) /\ Before(flush[t].jobs, queue[t])
        BY <1>2 DEF QueuesOf, IsFlush
      <4>2. /\ KeysOf(flush[t].jobs \o queue[t]) = FKeys(t) \cup QKeys(t)
            /\ Elems(flush[t].jobs \o queue[t]) = Elems(flush[t].jobs) \cup Elems(queue[t])
        BY <4>1, BatchConcat DEF FKeys, QKeys
      <4>3. QKeys(t)' = FKeys(t) \cup QKeys(t)
        BY <3>2, <4>2 DEF QKeys
      <4>4. Elems(queue'[t]) \subseteq Elems(queue[t]) \cup Elems(flush[t].jobs)
        BY <3>2, <4>2
      <4>5. \A k \in FKeys(t) \cap Heard : RowsWithKey(k) = {}
        BY <2>2, <3>2 DEF NewestInv, HeardUnstored
      <4>6. \A k \in QKeys(t) \cap Heard : RowsWithKey(k) = {}
        BY DEF NewestInv, HeardUnstored
      <4>7. QED
        BY <2>3, <4>3, <4>4, <4>5, <4>6
    <3>3. QED
      BY <2>1, <3>1, <3>2
  <2>6. Elems(flush'[t].jobs) = {}
    BY <2>1, NothingInFlush, EmptySeq DEF Elems
  <2>7. ASSUME NEW p \in calls', KeysOf(p.jobs) \cap Heard' # {}
        PROVE  p \in calls /\ ~(Flushing(t) /\ p.n = flush[t].call)
    <3>1. CASE calls' = calls \ {q}
      BY <2>4, <3>1
    <3>2. CASE dropped' = dropped \cup KeysOf(flush[t].jobs)
      <4>1. KeysOf(q.jobs) \cap Heard' = {}
        BY <2>2, <3>2 DEF Heard
      <4>2. p # q /\ p # Unheard(q)
        BY <2>2, <2>7, <4>1
      <4>3. p \in calls
        BY <2>1, <4>2 DEF Stays
      <4>4. QED
        BY <2>4, <4>2, <4>3
    <3>3. QED
      BY <2>1, <3>1, <3>2
  <2>8. QED
    BY <1>5, <2>1, <2>3, <2>5, <2>6, <2>7
<1>12. QED
  BY <1>4, <1>8, <1>9, <1>10, <1>11, QueueKinds DEF HandsInv

LEMMA NewestByServer ==
  ASSUME NewestInv, [SyncNext]_syncVars, ServerStep
  PROVE  Newest'
<1>1. UNCHANGED <<queue, flush, minted, latest, dropped, retried>>
  BY DEF ServerStep, queueVars
<1>2. /\ Heard' = Heard /\ \A k \in Heard : k \in Nat
      /\ \A u \in Tabs : QKeys(u)' = QKeys(u) /\ (Flushing(u) <=> (Flushing(u))')
  BY <1>1 DEF Heard, QKeys, Flushing
<1>3. Grown
  BY RowsGrow DEF NewestInv, StoredInv, HandsInv
<1>4. PICK owner : CallsOf(owner)
  BY DEF NewestInv, StoredInv, HandsInv, VersionsInv, Owned
<1>5. PICK q \in calls : \E r :
        (BatchStep(q) \/ BatchFails(q)) /\ ServedAs(q, r)
  BY <1>4, ServerKinds
<1>6. PICK r : (BatchStep(q) \/ BatchFails(q)) /\ ServedAs(q, r)
  BY <1>5
<1>7. /\ q.stage # "answered" /\ r.n = q.n /\ r.jobs = q.jobs
      /\ \A p \in calls' : p \in calls \/ p = r
  BY <1>6 DEF BatchStep, BatchFails, BatchLoads, BatchResolves, BatchWrites, BatchRefused, CallLost,
              ServedAs, SameCall
<1>8. JobsLatest'
  BY <1>1 DEF NewestInv, JobsLatest
<1>9. HeardLinked'
  <2>1. ASSUME NEW p \in calls', KeysOf(p.jobs) \cap Heard # {}
        PROVE  \E t \in Tabs : Flushing(t) /\ p.n = flush[t].call
    BY <1>7, <2>1 DEF NewestInv, HeardLinked
  <2>2. QED
    BY <1>1, <1>2, <2>1 DEF HeardLinked
<1>10. CASE RowsStay
  <2>1. \A k \in Heard : RowsWithKey(k)' = RowsWithKey(k)
    BY <1>2, <1>10 DEF RowsStay
  <2>2. ASSUME NEW p \in calls', NEW k \in KeysOf(p.jobs) \cap Heard, RowsWithKey(k) # {}
        PROVE  p.stage = "answered" /\ p.code = 200
    BY <1>7, <2>2 DEF NewestInv, HeardUnstored
  <2>3. HeardUnstored'
    BY <1>2, <2>1, <2>2 DEF NewestInv, HeardUnstored
  <2>4. \A k : \A v \in RowsWithKey(k) : rows'[v] = rows[v]
    BY <1>3 DEF Grown, RowsWithKey
  <2>5. RowsLatest'
    BY <1>1, <1>2, <2>1, <2>4 DEF NewestInv, RowsLatest
  <2>6. QED
    BY <1>8, <1>9, <2>3, <2>5 DEF Newest
<1>11. ASSUME NEW w \in calls, NEW x, Writes(w, x)
       PROVE  Newest'
  <2>1. /\ \A p \in calls' : (p \in calls /\ p # w) \/ p = x
        /\ x.stage = "answered" /\ x.code = 200 /\ w.stage = "checked"
    <3>1. ServedAs(w, x) /\ x.stage = "answered" /\ x.code = 200 /\ w.stage = "checked"
      BY <1>11 DEF Writes
    <3>2. \A p \in calls' : (p \in calls /\ p # w) \/ p = x
      BY <3>1 DEF ServedAs
    <3>3. QED
      BY <3>1, <3>2
  <2>2. ASSUME NEW v \in Ids' \ Ids
        PROVE  \E j \in Elems(w.jobs) : rows'[v].key = j.key /\ rows'[v].score = j.score
                                        /\ j.key \in KeysOf(w.jobs)
    BY <1>11 DEF Writes, Elems, KeysOf
  <2>3. ASSUME NEW k \in Heard, k \notin KeysOf(w.jobs)
        PROVE  RowsWithKey(k)' = RowsWithKey(k)
    <3>1. \A v \in Ids' \ Ids : rows'[v].key # k
      BY <2>2, <2>3
    <3>2. QED
      BY <1>3, <3>1 DEF Grown, RowsWithKey
  <2>4. \A k \in KeysOf(w.jobs) \cap Heard :
          /\ \E t \in Tabs : w.jobs = flush[t].jobs
          /\ \A u \in Tabs : k \notin QKeys(u)
          /\ \A p \in calls : k \in KeysOf(p.jobs) => p = w
    BY HeardAlone
  <2>5. HeardUnstored'
    <3>1. ASSUME NEW p \in calls', NEW k \in KeysOf(p.jobs) \cap Heard, RowsWithKey(k)' # {}
          PROVE  p.stage = "answered" /\ p.code = 200
      <4>1. CASE p = x
        BY <2>1, <4>1
      <4>2. CASE p \in calls /\ p # w
        <5>1. k \notin KeysOf(w.jobs)
          BY <2>4, <4>2
        <5>2. RowsWithKey(k) # {}
          BY <2>3, <3>1, <5>1
        <5>3. QED
          BY <4>2, <5>2 DEF NewestInv, HeardUnstored
      <4>3. QED
        BY <2>1, <4>1, <4>2
    <3>2. \A u \in Tabs : \A k \in QKeys(u) \cap Heard : RowsWithKey(k)' = {}
      <4>1. ASSUME NEW u \in Tabs, NEW k \in QKeys(u) \cap Heard
            PROVE  RowsWithKey(k)' = {}
        <5>1. k \notin KeysOf(w.jobs)
          BY <2>4
        <5>2. QED
          BY <2>3, <5>1 DEF NewestInv, HeardUnstored
      <4>2. QED
        BY <4>1
    <3>3. QED
      BY <1>2, <3>1, <3>2 DEF HeardUnstored
  <2>6. RowsLatest'
    <3>1. ASSUME NEW k \in Heard, NEW v \in RowsWithKey(k)'
          PROVE  rows'[v].score = latest[k]
      <4>1. v \in Ids' /\ rows'[v].key = k
        BY <3>1 DEF RowsWithKey
      <4>2. CASE v \in Ids
        <5>1. rows'[v] = rows[v] /\ v \in RowsWithKey(k)
          BY <1>3, <4>1, <4>2 DEF Grown, RowsWithKey
        <5>2. QED
          BY <5>1 DEF NewestInv, RowsLatest
      <4>3. CASE v \notin Ids
        <5>1. PICK j \in Elems(w.jobs) : /\ rows'[v].key = j.key /\ rows'[v].score = j.score
                                         /\ j.key \in KeysOf(w.jobs)
          BY <2>2, <4>1, <4>3
        <5>2. PICK t \in Tabs : w.jobs = flush[t].jobs
          BY <2>4, <4>1, <5>1
        <5>3. j.score = latest[j.key]
          BY <5>1, <5>2 DEF NewestInv, JobsLatest
        <5>4. QED
          BY <4>1, <5>1, <5>3
      <4>4. QED
        BY <4>2, <4>3
    <3>2. QED
      BY <1>1, <1>2, <3>1 DEF RowsLatest
  <2>7. QED
    BY <1>8, <1>9, <2>5, <2>6 DEF Newest
<1>12. QED
  BY <1>10, <1>11, StepRows DEF NewestInv, StoredInv

LEMMA NewestStep ==
  ASSUME NewestInv, [SyncNext]_syncVars
  PROVE  NewestInv'
<1>1. StoredInv'
  BY StoredStep DEF NewestInv
<1>2. ASSUME UNCHANGED syncVars
      PROVE  Newest'
  <2>1. UNCHANGED <<rows, calls, queue, flush, minted, latest, dropped, retried>>
    BY <1>2 DEF syncVars, versionVars, queueVars
  <2>2. JobsLatest' /\ HeardLinked'
    BY <2>1 DEF NewestInv, JobsLatest, HeardLinked, Heard, Flushing
  <2>3. HeardUnstored' /\ RowsLatest'
    BY <2>1 DEF NewestInv, HeardUnstored, RowsLatest, Heard, QKeys, RowsWithKey, Ids
  <2>4. QED
    BY <2>2, <2>3 DEF Newest
<1>3. ASSUME NEW t \in Tabs, TabStep(t) \/ WriterStep(t) \/ QueueStep(t)
      PROVE  Newest'
  BY <1>3, NewestByEdit, NewestByTurn, NewestByQueue
<1>4. ASSUME ServerStep
      PROVE  Newest'
  BY <1>4, NewestByServer
<1>5. Newest'
  BY <1>2, <1>3, <1>4, StepKinds
<1>6. QED
  BY <1>1, <1>5 DEF NewestInv, Newest

\* What is stored of an edit is what the user left, unless its job was given up
\* or sent a second time after an answer went unheard.
THEOREM SyncEditsReachServer == SyncSpec => []EditsReachTheServer
<1>1. SyncInit => NewestInv
  <2> SUFFICES ASSUME SyncInit PROVE NewestInv
    OBVIOUS
  <2>1. StoredInv
    BY InitStored
  <2>2. calls = {} /\ \A t \in Tabs : queue[t] = <<>> /\ flush[t] = NoFlush
    BY DEF SyncInit, VersionsInit
  <2>3. Elems(<<>>) = {} /\ KeysOf(<<>>) = {} /\ NoFlush.jobs = <<>>
    BY NothingInFlush, EmptySeq DEF Elems
  <2>4. Heard = {}
    BY DEF SyncInit, Heard
  <2>5. QED
    BY <2>1, <2>2, <2>3, <2>4
       DEF NewestInv, JobsLatest, HeardLinked, HeardUnstored, RowsLatest, QKeys
<1>2. NewestInv /\ [SyncNext]_syncVars => NewestInv'
  BY NewestStep
<1>3. NewestInv => EditsReachTheServer
  <2> SUFFICES ASSUME NewestInv, NEW k \in 1 .. minted \ (dropped \cup retried)
               PROVE  InHand(k) \/ \E v \in RowsWithKey(k) : rows[v].score = latest[k]
    BY DEF EditsReachTheServer
  <2>1. k \in Heard
    BY DEF Heard
  <2>2. InHand(k) \/ RowsWithKey(k) # {}
    BY DEF NewestInv, StoredInv, NothingLost
  <2>3. QED
    BY <2>1, <2>2 DEF NewestInv, RowsLatest
<1>4. QED
  BY <1>1, <1>2, <1>3, PTL DEF SyncSpec

-----------------------------------------------------------------------------
(* A save hangs under the head it was made for *)

\* Keys of jobs that went out at most once, or were heard of each time.
Once == 1 .. minted \ retried
\* Such a key is on its way in one call and in no queue, and unstored until
\* that call is answered; a call that finds a key stored repeats one.
OnceAlone ==
  \A q \in calls : \A k \in KeysOf(q.jobs) \cap Once :
    /\ \A u \in Tabs : k \notin QKeys(u)
    /\ \A p \in calls : k \in KeysOf(p.jobs) => p = q
    /\ RowsWithKey(k) # {} => q.stage = "answered" /\ q.code = 200
QueuedUnstored == \A t \in Tabs : \A k \in QKeys(t) \cap Once : RowsWithKey(k) = {}
KnownRetried == \A q \in calls : q.stage = "checked" => q.known \subseteq retried
OnceInv == StoredInv /\ OnceAlone /\ QueuedUnstored /\ KnownRetried

\* What is left to show of a step that writes no row.
LEMMA OnceKept ==
  ASSUME OnceInv, RowsStay, Once' \subseteq Once \cup {minted + 1},
         \A u \in Tabs : \A k \in QKeys(u)' \cap Once' :
           RowsWithKey(k) = {} /\ \A p \in calls' : k \notin KeysOf(p.jobs),
         \A p \in calls' : \A k \in KeysOf(p.jobs) \cap Once' :
           /\ \A r \in calls' : k \in KeysOf(r.jobs) => r = p
           /\ RowsWithKey(k) # {} => p.stage = "answered" /\ p.code = 200
  PROVE  OnceAlone' /\ QueuedUnstored'
<1>1. minted \in Nat /\ Once \subseteq Nat
  BY KeyFacts DEF OnceInv, StoredInv, HandsInv, Once
<1>2. \A k \in Once' : RowsWithKey(k)' = RowsWithKey(k)
  BY <1>1 DEF RowsStay
<1>3. QueuedUnstored'
  BY <1>2 DEF QueuedUnstored
<1>4. OnceAlone'
  <2>1. ASSUME NEW p \in calls', NEW k \in KeysOf(p.jobs) \cap Once'
        PROVE  /\ \A u \in Tabs : k \notin QKeys(u)'
               /\ \A r \in calls' : k \in KeysOf(r.jobs) => r = p
               /\ RowsWithKey(k)' # {} => p.stage = "answered" /\ p.code = 200
    BY <1>2
  <2>2. QED
    BY <2>1 DEF OnceAlone
<1>5. QED
  BY <1>3, <1>4

LEMMA OnceByEdit ==
  ASSUME OnceInv, NEW t \in Tabs, TabStep(t)
  PROVE  OnceAlone' /\ QueuedUnstored'
<1>1. /\ UNCHANGED <<rows, calls, retried>>
      /\ \/ UNCHANGED <<queue, minted>>
         \/ \E c \in Chats : \E s : Enqueue(t, c, s)
  BY TabStepFrame DEF OnceInv, StoredInv, HandsInv, VersionsInv, versionVars
<1>2. /\ minted \in Nat /\ \A u \in Tabs : QKeys(u) \subseteq 1 .. minted
      /\ \A q \in calls : KeysOf(q.jobs) \subseteq 1 .. minted
  BY KeyFacts DEF OnceInv, StoredInv, HandsInv, KeySets, CallKeys
<1>3. RowsStay
  BY <1>1 DEF RowsStay, RowsWithKey, Ids
<1>4. /\ Once' \subseteq Once \cup {minted + 1}
      /\ \A u \in Tabs : QKeys(u)' \subseteq QKeys(u) \cup {minted + 1}
  <2>1. CASE UNCHANGED <<queue, minted>>
    BY <1>1, <2>1 DEF Once, QKeys
  <2>2. ASSUME NEW c \in Chats, NEW s, Enqueue(t, c, s)
        PROVE  /\ Once' \subseteq Once \cup {minted + 1}
               /\ \A u \in Tabs : QKeys(u)' \subseteq QKeys(u) \cup {minted + 1}
    <3>1. PICK owner \in Owners : QueuesOf(owner)
      BY DEF OnceInv, StoredInv, HandsInv, VersionsInv, Owned
    <3>2. PICK wider \in [1 .. minted' -> Chats], k \in 1 .. minted' : EnqueuedAs(t, s, k, wider)
      BY <2>2, <3>1, EnqueueEffect DEF OnceInv, StoredInv, HandsInv, VersionsInv, Owned
    <3>3. /\ \A u \in Tabs : u # t => queue'[u] = queue[u]
          /\ KeysOf(queue'[t]) = KeysOf(queue[t]) \cup {k}
          /\ \/ k \in QKeys(t) /\ minted' = minted
             \/ k = minted + 1 /\ minted' = minted + 1
      BY <3>2 DEF EnqueuedAs, QKeys
    <3>4. 1 .. minted' \subseteq (1 .. minted) \cup {minted + 1}
      BY <1>2, <3>3
    <3>5. QED
      BY <1>1, <3>3, <3>4 DEF Once, QKeys
  <2>3. QED
    BY <1>1, <2>1, <2>2
<1>5. RowsWithKey(minted + 1) = {} /\ minted + 1 \notin 1 .. minted
  <2>1. minted + 1 \notin 1 .. minted /\ minted + 1 \in Nat
    BY <1>2
  <2>2. QED
    BY <2>1, MintedRows DEF OnceInv, StoredInv
<1>6. ASSUME NEW u \in Tabs, NEW k \in QKeys(u)' \cap Once'
      PROVE  RowsWithKey(k) = {} /\ \A p \in calls' : k \notin KeysOf(p.jobs)
  <2>1. CASE k = minted + 1
    BY <1>1, <1>2, <1>5, <2>1
  <2>2. CASE k # minted + 1
    <3>1. k \in QKeys(u) \cap Once
      BY <1>4, <2>2
    <3>2. QED
      BY <1>1, <3>1 DEF OnceInv, OnceAlone, QueuedUnstored
  <2>3. QED
    BY <2>1, <2>2
<1>7. ASSUME NEW p \in calls', NEW k \in KeysOf(p.jobs) \cap Once'
      PROVE  /\ \A r \in calls' : k \in KeysOf(r.jobs) => r = p
             /\ RowsWithKey(k) # {} => p.stage = "answered" /\ p.code = 200
  <2>1. k \in Once
    BY <1>1, <1>2, <1>4, <1>5
  <2>2. QED
    BY <1>1, <2>1 DEF OnceInv, OnceAlone
<1>8. QED
  BY <1>3, <1>4, <1>6, <1>7, OnceKept

LEMMA OnceByQueue ==
  ASSUME OnceInv, NEW t \in Tabs, QueueStep(t)
  PROVE  OnceAlone' /\ QueuedUnstored'
<1>1. UNCHANGED <<rows, minted>>
  BY QueueCalls
<1>2. PICK owner \in Owners : QueuesOf(owner) /\ CallsOf(owner)
  BY DEF OnceInv, StoredInv, HandsInv, VersionsInv, Owned
<1>3. RowsStay
  BY <1>1 DEF RowsStay, RowsWithKey, Ids
<1>4. HandsInv
  BY DEF OnceInv, StoredInv
<1>5. /\ \A u \in Tabs : QKeys(u) \subseteq Nat /\ FKeys(u) \subseteq Nat
      /\ \A k \in FKeys(t), l \in QKeys(t) : k < l
      /\ \A u \in Tabs : u # t => FKeys(u) \cap QKeys(t) = {} /\ QKeys(u) \cap QKeys(t) = {}
                                  /\ QKeys(u) \cap FKeys(t) = {}
  BY <1>4, KeyFacts DEF HandsInv, HandsApart, HandKeys
<1>6. /\ \A q \in calls : \A k \in KeysOf(q.jobs) \cap Once :
           /\ \A u \in Tabs : k \notin QKeys(u)
           /\ \A p \in calls : k \in KeysOf(p.jobs) => p = q
           /\ RowsWithKey(k) # {} => q.stage = "answered" /\ q.code = 200
      /\ \A u \in Tabs : \A k \in QKeys(u) \cap Once :
           RowsWithKey(k) = {} /\ \A p \in calls : k \notin KeysOf(p.jobs)
  BY DEF OnceInv, OnceAlone, QueuedUnstored
\* A call r with the first run of the queue is sent.
<1>7. ASSUME queue[t] # <<>>, Others(t), queue'[t] = AfterRun(t), retried' = retried,
             NEW r, calls' = calls \cup {r}, r.jobs = Run(t)
      PROVE  OnceAlone' /\ QueuedUnstored'
  <2> DEFINE R == KeysOf(Run(t))
             S == KeysOf(AfterRun(t))
  <2>1. QKeys(t) = R \cup S /\ \A k \in R, l \in S : k < l
    BY <1>4, <1>7, RunKeys DEF Splits
  <2>2. Once' = Once /\ KeysOf(r.jobs) = R /\ QKeys(t)' = S
        /\ \A u \in Tabs : u # t => QKeys(u)' = QKeys(u)
    BY <1>1, <1>7 DEF Once, QKeys, Others
  <2> HIDE DEF R, S
  <2>3. R \cap S = {}
    BY <1>5, <2>1
  <2>4. ASSUME NEW u \in Tabs, NEW k \in QKeys(u)' \cap Once'
        PROVE  RowsWithKey(k) = {} /\ \A p \in calls' : k \notin KeysOf(p.jobs)
    <3>1. k \in QKeys(u) \cap Once
      BY <2>1, <2>2
    <3>2. k \notin R
      BY <1>5, <2>1, <2>2, <2>3
    <3>3. QED
      BY <1>6, <1>7, <2>2, <3>1, <3>2
  <2>5. ASSUME NEW p \in calls', NEW k \in KeysOf(p.jobs) \cap Once'
        PROVE  /\ \A x \in calls' : k \in KeysOf(x.jobs) => x = p
               /\ RowsWithKey(k) # {} => p.stage = "answered" /\ p.code = 200
    <3>1. CASE k \in R
      <4>1. k \in QKeys(t) \cap Once
        BY <2>1, <2>2, <3>1
      <4>2. RowsWithKey(k) = {} /\ \A x \in calls : k \notin KeysOf(x.jobs)
        BY <1>6, <4>1
      <4>3. QED
        BY <1>7, <4>2
    <3>2. CASE k \notin R
      BY <1>6, <1>7, <2>2, <3>2
    <3>3. QED
      BY <3>1, <3>2
  <2>6. QED
    BY <1>3, <2>2, <2>4, <2>5, OnceKept
<1>8. CASE QStart(t) \/ QBeacon(t)
  <2>1. queue[t] # <<>> /\ Others(t) /\ queue'[t] = AfterRun(t) /\ retried' = retried
    BY <1>8 DEF QStart, QBeacon
  <2>2. PICK r : calls' = calls \cup {r} /\ r.jobs = Run(t)
    BY <1>8 DEF QStart, QBeacon, SentAs
  <2>3. QED
    BY <1>7, <2>1, <2>2
\* The call q of the flush is answered, given up or repeated.
<1>9. ASSUME NEW q \in calls, QRetry(t, q) \/ QEnd(t, q) \/ QPutBack(t, q)
      PROVE  OnceAlone' /\ QueuedUnstored'
  <2>1. Flushing(t) /\ q.n = flush[t].call /\ Others(t) /\ retried' \in {retried, retried \cup KeysOf(q.jobs)}
    BY <1>9 DEF QRetry, QEnd, QPutBack
  <2>2. q.jobs = flush[t].jobs /\ KeysOf(q.jobs) = FKeys(t) /\ SameCall(q, Unheard(q))
        /\ Unheard(q).stage = q.stage /\ Unheard(q).code = q.code
    BY <1>2, <1>4, <2>1, LinkedCall, UnheardIs DEF FKeys, CallsOf, IsCall
  <2>3. Once' \subseteq Once /\ \A u \in Tabs : u # t => QKeys(u)' = QKeys(u)
    BY <1>1, <2>1 DEF Once, QKeys, Others
  <2>4. PICK r : /\ \A p \in calls' : \/ p \in calls /\ p # q
                                      \/ p = Unheard(q)
                                      \/ p = r
                 /\ r.jobs = q.jobs
                 /\ \/ retried' = retried \cup KeysOf(q.jobs)
                    \/ calls' = calls \ {q}
                    \/ /\ calls' = (calls \ {q}) \cup {r}
                       /\ q.stage = "answered" /\ q.code = 409
                    \/ /\ r = Unheard(q) /\ calls' = (calls \ {q}) \cup {r}
    <3>1. CASE QRetry(t, q)
      <4>1. PICK rest, r : /\ Stays(q, rest) /\ r.jobs = flush[t].jobs /\ calls' = rest \cup {r}
                           /\ \/ retried' = retried \cup KeysOf(q.jobs)
                              \/ rest = calls \ {q} /\ q.stage = "answered" /\ q.code = 409
        BY <3>1 DEF QRetry, SentAs
      <4>2. \A p \in calls' : (p \in calls /\ p # q) \/ p = Unheard(q) \/ p = r
        BY <4>1 DEF Stays
      <4>3. QED
        BY <2>2, <4>1, <4>2
    <3>2. CASE QEnd(t, q) \/ QPutBack(t, q)
      <4>1. calls' = calls \ {q} \/ calls' = (calls \ {q}) \cup {Unheard(q)}
        BY <3>2 DEF QEnd, QPutBack, Stays
      <4>2. Unheard(q).jobs = q.jobs
        BY <2>2 DEF SameCall
      <4>3. \A p \in calls' : (p \in calls /\ p # q) \/ p = Unheard(q)
        BY <4>1
      <4>4. QED
        BY <4>1, <4>2, <4>3
    <3>3. QED
      BY <1>9, <3>1, <3>2
  <2>5. ASSUME NEW p \in calls', NEW k \in KeysOf(p.jobs) \cap Once'
        PROVE  /\ \A x \in calls' : k \in KeysOf(x.jobs) => x = p
               /\ RowsWithKey(k) # {} => p.stage = "answered" /\ p.code = 200
    <3>1. Unheard(q).jobs = q.jobs
      BY <2>2 DEF SameCall
    <3>2. CASE k \notin KeysOf(q.jobs)
      <4>1. \A x \in calls' : k \in KeysOf(x.jobs) => x \in calls
        BY <2>4, <3>1, <3>2
      <4>2. QED
        BY <1>6, <2>3, <2>5, <4>1
    <3>3. CASE k \in KeysOf(q.jobs)
      <4>1. k \in Once /\ retried' # retried \cup KeysOf(q.jobs)
        BY <2>3, <3>3 DEF Once
      <4>2. \A x \in calls : k \in KeysOf(x.jobs) => x = q
        BY <1>6, <3>3, <4>1
      <4>3. RowsWithKey(k) # {} => q.stage = "answered" /\ q.code = 200
        BY <1>6, <3>3, <4>1
      <4>4. CASE calls' = calls \ {q}
        BY <2>5, <4>2, <4>4
      <4>5. CASE /\ calls' = (calls \ {q}) \cup {r}
                 /\ q.stage = "answered" /\ q.code = 409
        <5>1. RowsWithKey(k) = {}
          BY <4>3, <4>5
        <5>2. QED
          BY <2>5, <4>2, <4>5, <5>1
      <4>6. CASE r = Unheard(q) /\ calls' = (calls \ {q}) \cup {r}
        BY <2>2, <2>5, <4>2, <4>3, <4>6
      <4>7. QED
        BY <2>4, <4>1, <4>4, <4>5, <4>6
    <3>4. QED
      BY <3>2, <3>3
  <2>6. ASSUME NEW u \in Tabs, NEW k \in QKeys(u)' \cap Once'
        PROVE  RowsWithKey(k) = {} /\ \A p \in calls' : k \notin KeysOf(p.jobs)
    <3>1. ASSUME k \in QKeys(u)
          PROVE  RowsWithKey(k) = {} /\ \A p \in calls' : k \notin KeysOf(p.jobs)
      <4>1. RowsWithKey(k) = {} /\ \A p \in calls : k \notin KeysOf(p.jobs)
        BY <1>6, <2>3, <2>6, <3>1
      <4>2. \A p \in calls' : p.jobs = q.jobs \/ p \in calls
        BY <2>2, <2>4 DEF SameCall
      <4>3. QED
        BY <4>1, <4>2
    <3>2. CASE QPutBack(t, q) /\ k \notin QKeys(u)
      <4>1. IsBatch(flush[t].jobs, owner) /\ IsBatch(queue[t], owner) /\ Before(flush[t].jobs, queue[t])
        BY <1>2 DEF QueuesOf, IsFlush
      <4>2. KeysOf(flush[t].jobs \o queue[t]) = FKeys(t) \cup QKeys(t)
        BY <4>1, BatchConcat DEF FKeys, QKeys
      <4>3. /\ QKeys(t)' = FKeys(t) \cup QKeys(t) /\ calls' = calls \ {q}
            /\ q.stage = "answered" /\ q.code = 409
        BY <3>2, <4>2 DEF QPutBack, QKeys
      <4>4. k \in KeysOf(q.jobs) \cap Once
        BY <2>2, <2>3, <2>6, <3>2, <4>3
      <4>5. RowsWithKey(k) = {} /\ \A p \in calls : k \in KeysOf(p.jobs) => p = q
        BY <1>6, <4>3, <4>4
      <4>6. QED
        BY <4>3, <4>5
    <3>3. CASE (QRetry(t, q) \/ QEnd(t, q)) /\ k \notin QKeys(u)
      <4>1. QKeys(t)' = QKeys(t)
        BY <3>3 DEF QRetry, QEnd, QKeys
      <4>2. QED
        BY <2>3, <2>6, <3>3, <4>1
    <3>4. QED
      BY <1>9, <3>1, <3>2, <3>3
  <2>7. QED
    BY <1>3, <2>3, <2>5, <2>6, OnceKept
<1>10. QED
  BY <1>4, <1>8, <1>9, QueueKinds DEF HandsInv

LEMMA OnceByServer ==
  ASSUME OnceInv, [SyncNext]_syncVars, ServerStep
  PROVE  OnceAlone' /\ QueuedUnstored'
<1>1. UNCHANGED <<queue, minted, retried>>
  BY DEF ServerStep, queueVars
<1>2. /\ Once' = Once /\ Once \subseteq Nat
      /\ \A u \in Tabs : QKeys(u)' = QKeys(u)
  BY <1>1 DEF Once, QKeys
<1>3. Grown
  BY RowsGrow DEF OnceInv, StoredInv, HandsInv
<1>4. PICK owner : CallsOf(owner)
  BY DEF OnceInv, StoredInv, HandsInv, VersionsInv, Owned
<1>5. /\ \A q \in calls : \A k \in KeysOf(q.jobs) \cap Once :
           /\ \A u \in Tabs : k \notin QKeys(u)
           /\ \A p \in calls : k \in KeysOf(p.jobs) => p = q
           /\ RowsWithKey(k) # {} => q.stage = "answered" /\ q.code = 200
      /\ \A u \in Tabs : \A k \in QKeys(u) \cap Once :
           RowsWithKey(k) = {} /\ \A p \in calls : k \notin KeysOf(p.jobs)
  BY DEF OnceInv, OnceAlone, QueuedUnstored
<1>6. CASE RowsStay
  <2>1. PICK q \in calls : \E r : (BatchStep(q) \/ BatchFails(q)) /\ ServedAs(q, r)
    BY <1>4, ServerKinds
  <2>2. PICK r : (BatchStep(q) \/ BatchFails(q)) /\ ServedAs(q, r)
    BY <2>1
  <2>3. /\ q.stage # "answered" /\ r.jobs = q.jobs
        /\ \A p \in calls' : (p \in calls /\ p # q) \/ p = r
    BY <2>2 DEF BatchStep, BatchFails, BatchLoads, BatchResolves, BatchWrites, BatchRefused,
                CallLost, ServedAs, SameCall
  <2>4. ASSUME NEW u \in Tabs, NEW k \in QKeys(u)' \cap Once'
        PROVE  RowsWithKey(k) = {} /\ \A p \in calls' : k \notin KeysOf(p.jobs)
    BY <1>2, <1>5, <2>3
  <2>5. ASSUME NEW p \in calls', NEW k \in KeysOf(p.jobs) \cap Once'
        PROVE  /\ \A x \in calls' : k \in KeysOf(x.jobs) => x = p
               /\ RowsWithKey(k) # {} => p.stage = "answered" /\ p.code = 200
    BY <1>2, <1>5, <2>3
  <2>6. QED
    BY <1>2, <1>6, <2>4, <2>5, OnceKept
<1>7. ASSUME NEW w \in calls, NEW x, Writes(w, x)
      PROVE  OnceAlone' /\ QueuedUnstored'
  <2>1. x.stage = "answered" /\ x.code = 200 /\ x.jobs = w.jobs
        /\ \A p \in calls' : (p \in calls /\ p # w) \/ p = x
    <3>1. ServedAs(w, x) /\ x.stage = "answered" /\ x.code = 200
      BY <1>7 DEF Writes
    <3>2. x.jobs = w.jobs /\ \A p \in calls' : (p \in calls /\ p # w) \/ p = x
      BY <3>1 DEF ServedAs, SameCall
    <3>3. QED
      BY <3>1, <3>2
  <2>2. \A v \in Ids' \ Ids : rows'[v].key \in KeysOf(w.jobs)
    BY <1>7 DEF Writes, Elems, KeysOf
  <2>3. ASSUME NEW k \in Once, k \notin KeysOf(w.jobs)
        PROVE  RowsWithKey(k)' = RowsWithKey(k)
    <3>1. \A v \in Ids' \ Ids : rows'[v].key # k
      BY <2>2, <2>3
    <3>2. QED
      BY <1>3, <3>1 DEF Grown, RowsWithKey
  <2>4. QueuedUnstored'
    <3>1. ASSUME NEW u \in Tabs, NEW k \in QKeys(u) \cap Once
          PROVE  RowsWithKey(k)' = {}
      <4>1. RowsWithKey(k) = {} /\ k \notin KeysOf(w.jobs)
        BY <1>5, <3>1
      <4>2. QED
        BY <2>3, <4>1
    <3>2. QED
      BY <1>2, <3>1 DEF QueuedUnstored
  <2>5. ASSUME NEW p \in calls', NEW k \in KeysOf(p.jobs) \cap Once
        PROVE  /\ \A u \in Tabs : k \notin QKeys(u)
               /\ \A r \in calls' : k \in KeysOf(r.jobs) => r = p
               /\ RowsWithKey(k)' # {} => p.stage = "answered" /\ p.code = 200
    <3>1. CASE k \in KeysOf(w.jobs)
      BY <1>5, <2>1, <3>1
    <3>2. CASE k \notin KeysOf(w.jobs)
      BY <1>5, <2>1, <2>3, <3>2
    <3>3. QED
      BY <3>1, <3>2
  <2>6. QED
    BY <1>2, <2>4, <2>5 DEF OnceAlone
<1>8. QED
  BY <1>6, <1>7, StepRows DEF OnceInv, StoredInv

LEMMA KnownRetriedStep ==
  ASSUME OnceInv, [SyncNext]_syncVars
  PROVE  KnownRetried'
<1>1. retried \subseteq retried'
  <2>1. ASSUME NEW t \in Tabs, TabStep(t)
        PROVE  retried \subseteq retried'
    BY <2>1, TabStepFrame DEF OnceInv, StoredInv, HandsInv, VersionsInv
  <2>2. ASSUME NEW t \in Tabs, WriterStep(t)
        PROVE  retried \subseteq retried'
    BY <2>2 DEF WriterStep, TurnAnswered, ReplacementAccepted, RejectionInserts, RejectionMoves, queueVars
  <2>3. ASSUME NEW t \in Tabs, QueueStep(t)
        PROVE  retried \subseteq retried'
    <3>1. VersionsInv
      BY DEF OnceInv, StoredInv, HandsInv
    <3>2. CASE QStart(t) \/ QBeacon(t)
      BY <3>2 DEF QStart, QBeacon
    <3>3. ASSUME NEW q \in calls, QRetry(t, q) \/ QEnd(t, q) \/ QPutBack(t, q)
          PROVE  retried \subseteq retried'
      <4>1. retried' \in {retried, retried \cup KeysOf(q.jobs)}
        BY <3>3 DEF QRetry, QEnd, QPutBack
      <4>2. QED
        BY <4>1
    <3>4. QED
      BY <2>3, <3>1, <3>2, <3>3, QueueKinds
  <2>4. ASSUME ServerStep \/ UNCHANGED syncVars
        PROVE  retried \subseteq retried'
    BY <2>4 DEF ServerStep, queueVars, syncVars
  <2>5. QED
    BY <2>1, <2>2, <2>3, <2>4, StepKinds
<1>2. ASSUME NEW p \in calls', p.stage = "checked"
      PROVE  p.known \subseteq retried
  <2>1. CASE \E q \in calls : SameCall(q, p) /\ p.stage = q.stage /\ p.known = q.known
    BY <1>2, <2>1 DEF OnceInv, KnownRetried
  <2>2. ASSUME NEW q \in calls, ServedAs(q, p), ServerKind(q, p)
        PROVE  p.known \subseteq retried
    <3>1. p.known = KnownKeys(q) /\ q.stage = "loaded"
      BY <1>2, <2>2 DEF ServerKind
    <3>2. KeysOf(q.jobs) \subseteq 1 .. minted
      BY KeyFacts DEF OnceInv, StoredInv, HandsInv, KeySets, CallKeys
    <3>3. ASSUME NEW k \in KnownKeys(q), k \notin retried
          PROVE  FALSE
      <4>1. k \in KeysOf(q.jobs) \cap Once /\ RowsWithKey(k) # {}
        BY <3>2, <3>3 DEF KnownKeys, Once
      <4>2. q.stage = "answered"
        BY <4>1 DEF OnceInv, OnceAlone
      <4>3. QED
        BY <3>1, <4>2
    <3>4. QED
      BY <3>1, <3>3
  <2>3. QED
    BY <1>2, <2>1, <2>2, CallsFrom DEF OnceInv, StoredInv, HandsInv
<1>3. QED
  BY <1>1, <1>2 DEF KnownRetried

LEMMA OnceStep ==
  ASSUME OnceInv, [SyncNext]_syncVars
  PROVE  OnceInv'
<1>1. StoredInv' /\ KnownRetried'
  BY StoredStep, KnownRetriedStep DEF OnceInv
<1>2. ASSUME UNCHANGED syncVars
      PROVE  OnceAlone' /\ QueuedUnstored'
  <2>1. UNCHANGED <<rows, calls, queue, minted, retried>>
    BY <1>2 DEF syncVars, versionVars, queueVars
  <2>2. QED
    BY <2>1 DEF OnceInv, OnceAlone, QueuedUnstored, Once, QKeys, RowsWithKey, Ids
<1>3. ASSUME NEW t \in Tabs, WriterStep(t)
      PROVE  OnceAlone' /\ QueuedUnstored'
  <2>1. RowsStay
    BY <1>3, WriterRows DEF OnceInv, StoredInv
  <2>2. UNCHANGED <<calls, queue, minted, retried>>
    BY <1>3 DEF WriterStep, TurnAnswered, ReplacementAccepted, RejectionInserts, RejectionMoves,
         Appends, Accepts, RejectInserts, RejectMoves, versionVars, queueVars
  <2>3. Once' = Once /\ \A u \in Tabs : QKeys(u)' = QKeys(u)
    BY <2>2 DEF Once, QKeys
  <2>4. \A u \in Tabs : \A k \in QKeys(u)' \cap Once' :
          RowsWithKey(k) = {} /\ \A p \in calls' : k \notin KeysOf(p.jobs)
    BY <2>2, <2>3 DEF OnceInv, OnceAlone, QueuedUnstored
  <2>5. \A p \in calls' : \A k \in KeysOf(p.jobs) \cap Once' :
          /\ \A r \in calls' : k \in KeysOf(r.jobs) => r = p
          /\ RowsWithKey(k) # {} => p.stage = "answered" /\ p.code = 200
    BY <2>2, <2>3 DEF OnceInv, OnceAlone
  <2>6. QED
    BY <2>1, <2>3, <2>4, <2>5, OnceKept
<1>4. OnceAlone' /\ QueuedUnstored'
  BY <1>2, <1>3, OnceByEdit, OnceByQueue, OnceByServer, StepKinds
<1>5. QED
  BY <1>1, <1>4 DEF OnceInv

\* The chain of a version in a table of rows.
ChainOf(table, v) ==
  LET up[w \in 0 .. Len(table)] ==
        IF w = 0 THEN <<>> ELSE Append(up[table[w].parent], w)
  IN  up[v]
Hanging(table) == IsSeq(table) /\ \A v \in 1 .. Len(table) : table[v].parent \in 0 .. v - 1
ChainsUp(table, f, n) ==
  f[0] = <<>> /\ \A v \in 1 .. n : f[v] = Append(f[table[v].parent], v)

LEMMA ChainsRun ==
  ASSUME NEW table, Hanging(table)
  PROVE  \E f : /\ ChainsUp(table, f, Len(table))
                /\ \A v \in 0 .. Len(table) : ChainOf(table, v) = f[v]
<1> DEFINE m == Len(table)
           S == {n \in Nat : n <= m => \E f : ChainsUp(table, f, n)}
<1>1. m \in Nat /\ \A v \in 1 .. m : table[v].parent \in 0 .. v - 1
  BY SeqFacts DEF Hanging
<1> HIDE DEF m
<1>2. 0 \in S
  <2>1. ChainsUp(table, [i \in 0 .. 0 |-> <<>>], 0)
    BY DEF ChainsUp
  <2>2. QED
    BY <2>1
<1>3. ASSUME NEW n \in Nat, n \in S
      PROVE  n + 1 \in S
  <2> SUFFICES ASSUME n + 1 <= m
               PROVE  \E f : ChainsUp(table, f, n + 1)
    OBVIOUS
  <2>1. PICK f : ChainsUp(table, f, n)
    BY <1>1, <1>3
  <2> DEFINE g == [i \in 0 .. n + 1 |-> IF i <= n THEN f[i] ELSE Append(f[table[i].parent], i)]
  <2>2. \A i \in 0 .. n : g[i] = f[i]
    OBVIOUS
  <2>3. g[n + 1] = Append(f[table[n + 1].parent], n + 1)
    OBVIOUS
  <2> HIDE DEF g
  <2>4. ASSUME NEW i \in 1 .. n + 1
        PROVE  g[i] = Append(g[table[i].parent], i)
    <3>1. i \in 1 .. m /\ table[i].parent \in 0 .. i - 1
      BY <1>1
    <3>2. table[i].parent \in 0 .. n
      BY <3>1
    <3>3. CASE i = n + 1
      BY <2>2, <2>3, <3>2, <3>3
    <3>4. CASE i # n + 1
      <4>1. i \in 1 .. n /\ i \in 0 .. n
        BY <3>4
      <4>2. f[i] = Append(f[table[i].parent], i)
        BY <2>1, <4>1 DEF ChainsUp
      <4>3. QED
        BY <2>2, <3>2, <4>1, <4>2
    <3>5. QED
      BY <3>3, <3>4
  <2>5. g[0] = <<>>
    BY <2>1, <2>2 DEF ChainsUp
  <2>6. QED
    BY <2>4, <2>5 DEF ChainsUp
<1> HIDE DEF S
<1>4. m \in S
  BY <1>1, <1>2, <1>3, SetInduction
<1>5. PICK f : ChainsUp(table, f, m)
  BY <1>1, <1>4 DEF S
<1> DEFINE F(h) == [w \in 0 .. m |-> IF w = 0 THEN <<>> ELSE Append(h[table[w].parent], w)]
           g == [w \in 0 .. m |-> f[w]]
           up == CHOOSE h : h = F(h)
<1>6. g = F(g)
  <2>1. ASSUME NEW w \in 0 .. m
        PROVE  g[w] = IF w = 0 THEN <<>> ELSE Append(g[table[w].parent], w)
    <3>1. CASE w = 0
      BY <1>5, <3>1 DEF ChainsUp
    <3>2. CASE w # 0
      <4>1. w \in 1 .. m
        BY <3>2
      <4>2. table[w].parent \in 0 .. m
        BY <1>1, <4>1
      <4>3. g[w] = f[w] /\ g[table[w].parent] = f[table[w].parent]
        BY <4>2
      <4>4. f[w] = Append(f[table[w].parent], w)
        BY <1>5, <4>1 DEF ChainsUp
      <4> HIDE DEF g
      <4>5. QED
        BY <3>2, <4>3, <4>4
    <3>3. QED
      BY <3>1, <3>2
  <2>2. QED
    BY <2>1
<1>7. up = F(up)
  <2> HIDE DEF F, g
  <2>1. QED
    BY <1>6
<1>8. \A v : ChainOf(table, v) = up[v]
  BY DEF ChainOf, m
<1> HIDE DEF up
<1>9. ChainsUp(table, up, m)
  <2>1. \A w \in 0 .. m : up[w] = IF w = 0 THEN <<>> ELSE Append(up[table[w].parent], w)
    BY <1>7
  <2>2. 0 \in 0 .. m /\ \A w \in 1 .. m : w \in 0 .. m /\ w # 0
    BY <1>1
  <2>3. QED
    BY <2>1, <2>2 DEF ChainsUp
<1>10. QED
  BY <1>8, <1>9 DEF m

\* A chain ends at its version and has the chain of the parent in it.
LEMMA ChainHolds ==
  ASSUME NEW table, Hanging(table), NEW v \in 1 .. Len(table)
  PROVE  /\ v \in Elems(ChainOf(table, v))
         /\ Elems(ChainOf(table, table[v].parent)) \subseteq Elems(ChainOf(table, v))
<1> DEFINE m == Len(table)
<1>1. m \in Nat /\ \A w \in 1 .. m : table[w].parent \in 0 .. w - 1
  BY SeqFacts DEF Hanging
<1>2. PICK f : ChainsUp(table, f, m) /\ \A w \in 0 .. m : ChainOf(table, w) = f[w]
  BY ChainsRun
<1> HIDE DEF m
<1> DEFINE S == {n \in Nat : \A w \in 0 .. n : w <= m => IsSeq(f[w])}
<1>3. 0 \in S
  <2>1. IsSeq(<<>>)
    BY EmptySeq DEF IsSeq
  <2>2. QED
    BY <1>2, <2>1 DEF ChainsUp
<1>4. ASSUME NEW n \in Nat, n \in S
      PROVE  n + 1 \in S
  <2>1. CASE n + 1 <= m
    <3>1. n + 1 \in 1 .. m
      BY <2>1
    <3>2. table[n + 1].parent \in 0 .. n /\ f[n + 1] = Append(f[table[n + 1].parent], n + 1)
      <4>1. table[n + 1].parent \in 0 .. (n + 1) - 1 /\ (n + 1) - 1 = n
        BY <1>1, <3>1
      <4>2. f[n + 1] = Append(f[table[n + 1].parent], n + 1)
        BY <1>2, <3>1 DEF ChainsUp
      <4>3. QED
        BY <4>1, <4>2
    <3>3. table[n + 1].parent <= m
      BY <1>1, <3>1, <3>2
    <3>4. IsSeq(f[n + 1])
      BY <1>4, <3>2, <3>3, SeqAppend
    <3>5. \A w \in 0 .. n + 1 : w \in 0 .. n \/ w = n + 1
      OBVIOUS
    <3>6. QED
      BY <1>4, <3>4, <3>5
  <2>2. CASE ~(n + 1 <= m)
    <3>1. \A w \in 0 .. n + 1 : w <= m => w \in 0 .. n
      BY <1>1, <2>2
    <3>2. QED
      BY <1>4, <3>1
  <2>3. QED
    BY <2>1, <2>2
<1> HIDE DEF S
<1>5. m \in S
  BY <1>1, <1>3, <1>4, SetInduction
<1>6. \A w \in 0 .. m : IsSeq(f[w])
  BY <1>1, <1>5 DEF S
<1>7. v \in 1 .. m /\ v \in 0 .. m /\ table[v].parent \in 0 .. m
  BY <1>1 DEF m
<1> DEFINE s == f[table[v].parent]
<1>8. f[v] = Append(s, v) /\ IsSeq(s)
  BY <1>2, <1>6, <1>7 DEF ChainsUp
<1> HIDE DEF s
<1>9. /\ IsSeq(Append(s, v)) /\ Len(Append(s, v)) = Len(s) + 1
      /\ \A i \in 1 .. Len(s) : Append(s, v)[i] = s[i]
      /\ Append(s, v)[Len(s) + 1] = v
  BY <1>8, SeqAppend
<1>10. Len(s) \in Nat /\ DOMAIN s = 1 .. Len(s) /\ DOMAIN Append(s, v) = 1 .. Len(Append(s, v))
  BY <1>8, <1>9, SeqFacts
<1>11. Len(s) + 1 \in DOMAIN Append(s, v) /\ DOMAIN s \subseteq DOMAIN Append(s, v)
  BY <1>9, <1>10
<1>12. v \in Elems(Append(s, v)) /\ Elems(s) \subseteq Elems(Append(s, v))
  BY <1>9, <1>10, <1>11 DEF Elems
<1>13. QED
  BY <1>2, <1>7, <1>8, <1>12 DEF s

-----------------------------------------------------------------------------
(* Where the rows of a batch hang *)

\* All jobs are new: each row hangs under the one before, the first under the base.
Stacked(q, done) ==
  /\ done.prev = IF Len(done.table) = Len(rows) THEN q.base ELSE Len(done.table)
  /\ \A v \in Len(rows) + 1 .. Len(done.table) :
       done.table[v].parent = IF v = Len(rows) + 1 THEN q.base ELSE v - 1
\* The first job is stored already: the new rows hang under such a one.
Repeated(q, done) ==
  \E k \in q.known : IF Len(done.table) = Len(rows)
                       THEN done.prev \in RowsWithKey(k)
                       ELSE done.table[Len(rows) + 1].parent \in RowsWithKey(k)
Hung(q, done, n) ==
  /\ DOMAIN done = {"table", "prev"} /\ IsSeq(done.table) /\ Len(rows) <= Len(done.table)
  /\ KeysOf(q.jobs) \cap q.known = {} => Stacked(q, done)
  /\ IF n = 0 THEN done.table = rows ELSE q.jobs[1].key \in q.known => Repeated(q, done)

LEMMA HungStep ==
  ASSUME IsSeq(rows), NEW q, Writable(q), NEW n \in Nat, n + 1 \in DOMAIN q.jobs,
         NEW done, Hung(q, done, n)
  PROVE  Hung(q, ChainStep(q, done, n + 1), n + 1)
<1> DEFINE job == q.jobs[n + 1]
           N == Len(rows)
           m == Len(done.table)
<1>1. /\ N \in Nat /\ m \in Nat /\ N <= m /\ IsSeq(done.table)
      /\ DOMAIN done = {"table", "prev"}
  BY SeqFacts DEF Hung
<1>2. job.key \in KeysOf(q.jobs) /\ (n = 0 => job = q.jobs[1])
  BY DEF KeysOf
<1>3. CASE job.key \in q.known
  <2> DEFINE p == CHOOSE v \in RowsWithKey(job.key) : TRUE
             next == [done EXCEPT !.prev = p]
  <2>1. p \in RowsWithKey(job.key)
    BY <1>2, <1>3 DEF Writable
  <2> HIDE DEF p
  <2>2. next.table = done.table /\ next.prev = p /\ DOMAIN next = {"table", "prev"}
    BY <1>1
  <2> HIDE DEF next
  <2>3. KeysOf(q.jobs) \cap q.known # {}
    BY <1>2, <1>3
  <2>4. ASSUME q.jobs[1].key \in q.known
        PROVE  Repeated(q, next)
    <3>1. CASE m = N
      BY <1>3, <2>1, <2>2, <3>1 DEF Repeated
    <3>2. CASE m # N
      <4>1. n # 0
        BY <3>2 DEF Hung
      <4>2. QED
        BY <2>2, <2>4, <3>2, <4>1 DEF Hung, Repeated
    <3>3. QED
      BY <3>1, <3>2
  <2>5. Hung(q, next, n + 1)
    <3>1. n + 1 # 0
      OBVIOUS
    <3>2. QED
      BY <1>1, <2>2, <2>3, <2>4, <3>1 DEF Hung
  <2>6. QED
    BY <1>3, <2>5 DEF ChainStep, next, p
<1>4. CASE job.key \notin q.known
  <2> DEFINE row == Row(q.chat, done.prev, job.score, job.key)
             next == [table |-> Append(done.table, row), prev |-> m + 1]
  <2>1. row.parent = done.prev
    BY DEF Row
  <2> HIDE DEF row
  <2>2. /\ IsSeq(Append(done.table, row)) /\ Len(Append(done.table, row)) = m + 1
        /\ \A i \in 1 .. m : Append(done.table, row)[i] = done.table[i]
        /\ Append(done.table, row)[m + 1] = row
    BY <1>1, SeqAppend
  <2>3. next.table = Append(done.table, row) /\ next.prev = m + 1 /\ DOMAIN next = {"table", "prev"}
    OBVIOUS
  <2> HIDE DEF next
  <2>4. /\ IsSeq(next.table) /\ Len(next.table) = m + 1 /\ N <= m + 1 /\ m + 1 # N
        /\ \A i \in 1 .. m : next.table[i] = done.table[i]
        /\ next.table[m + 1].parent = done.prev
    BY <1>1, <2>1, <2>2, <2>3
  <2>5. ASSUME KeysOf(q.jobs) \cap q.known = {}
        PROVE  Stacked(q, next)
    <3>1. Stacked(q, done)
      BY <2>5 DEF Hung
    <3>2. ASSUME NEW v \in N + 1 .. m + 1
          PROVE  next.table[v].parent = IF v = N + 1 THEN q.base ELSE v - 1
      <4>1. CASE v = m + 1
        <5>1. done.prev = IF m = N THEN q.base ELSE m
          BY <3>1 DEF Stacked
        <5>2. (v = N + 1 <=> m = N) /\ v - 1 = m
          BY <1>1, <4>1
        <5>3. QED
          BY <2>4, <4>1, <5>1, <5>2
      <4>2. CASE v # m + 1
        <5>1. v \in N + 1 .. m /\ v \in 1 .. m
          BY <1>1, <4>2
        <5>2. QED
          BY <2>4, <3>1, <5>1 DEF Stacked
      <4>3. QED
        BY <4>1, <4>2
    <3>3. QED
      BY <2>3, <2>4, <3>2 DEF Stacked
  <2>6. ASSUME q.jobs[1].key \in q.known
        PROVE  Repeated(q, next)
    <3>1. n # 0
      BY <1>2, <1>4, <2>6
    <3>2. PICK k \in q.known : IF m = N THEN done.prev \in RowsWithKey(k)
                                        ELSE done.table[N + 1].parent \in RowsWithKey(k)
      BY <2>6, <3>1 DEF Hung, Repeated
    <3>3. next.table[N + 1].parent \in RowsWithKey(k)
      <4>1. CASE m = N
        BY <2>4, <3>2, <4>1
      <4>2. CASE m # N
        <5>1. N + 1 \in 1 .. m
          BY <1>1, <4>2
        <5>2. QED
          BY <2>4, <3>2, <4>2, <5>1
      <4>3. QED
        BY <4>1, <4>2
    <3>4. QED
      BY <2>4, <3>3 DEF Repeated
  <2>7. Hung(q, next, n + 1)
    <3>1. n + 1 # 0
      OBVIOUS
    <3>2. QED
      BY <2>3, <2>4, <2>5, <2>6, <3>1 DEF Hung
  <2>8. QED
    BY <1>4, <2>7 DEF ChainStep, next, row
<1>5. QED
  BY <1>3, <1>4

LEMMA ChainedHung ==
  ASSUME IsSeq(rows), NEW q, Writable(q), IsSeq(q.jobs)
  PROVE  Hung(q, Chained(q), Len(q.jobs))
<1> DEFINE m == Len(q.jobs)
<1>1. m \in Nat /\ DOMAIN q.jobs = 1 .. m
  BY SeqFacts
<1>2. PICK f : ChainRun(q, f, m) /\ Chained(q) = f[m]
  BY <1>1, ChainedRuns
<1> HIDE DEF m
<1> DEFINE S == {n \in Nat : n <= m => Hung(q, f[n], n)}
<1>3. 0 \in S
  <2>1. f[0] = ChainStart(q)
    BY <1>2 DEF ChainRun
  <2>2. Len(rows) \in Nat
    BY SeqFacts
  <2>3. /\ DOMAIN ChainStart(q) = {"table", "prev"}
        /\ ChainStart(q).table = rows /\ ChainStart(q).prev = q.base
    BY DEF ChainStart
  <2>4. \A v \in Len(rows) + 1 .. Len(rows) : FALSE
    BY <2>2
  <2>5. Stacked(q, f[0])
    BY <2>1, <2>3, <2>4 DEF Stacked
  <2>6. Hung(q, f[0], 0)
    BY <2>1, <2>2, <2>3, <2>5 DEF Hung
  <2>7. QED
    BY <2>6
<1>4. ASSUME NEW n \in Nat, n \in S
      PROVE  n + 1 \in S
  <2> SUFFICES ASSUME n + 1 <= m
               PROVE  Hung(q, f[n + 1], n + 1)
    OBVIOUS
  <2>1. n <= m /\ n + 1 \in 1 .. m /\ (n + 1) - 1 = n
    BY <1>1
  <2>2. f[n + 1] = ChainStep(q, f[n], n + 1)
    BY <1>2, <2>1 DEF ChainRun
  <2>3. Hung(q, f[n], n)
    BY <1>4, <2>1
  <2>4. QED
    BY <1>1, <2>1, <2>2, <2>3, HungStep
<1> HIDE DEF S
<1>5. m \in S
  BY <1>1, <1>3, <1>4, SetInduction
<1>6. QED
  BY <1>1, <1>2, <1>5 DEF S, m

\* Above the first new row of a stack stands all of it.
LEMMA StackHolds ==
  ASSUME Hanging(rows'), NEW base \in Ids', NEW N \in Nat, N < Len(rows'),
         \A v \in N + 1 .. Len(rows') : rows'[v].parent = IF v = N + 1 THEN base ELSE v - 1
  PROVE  base \in Elems(ChainOf(rows', Len(rows')))
<1> DEFINE m == Len(rows')
           S == {n \in Nat : N + 1 + n <= m => base \in Elems(ChainOf(rows', N + 1 + n))}
<1>1. m \in Nat /\ Ids' = 1 .. m /\ N < m
  BY SeqFacts DEF Hanging, Ids
<1>2. \A v \in 1 .. m : /\ v \in Elems(ChainOf(rows', v))
                        /\ Elems(ChainOf(rows', rows'[v].parent)) \subseteq Elems(ChainOf(rows', v))
  BY ChainHolds
<1>3. base \in 1 .. m /\ base \in Elems(ChainOf(rows', base))
  BY <1>1, <1>2
<1> HIDE DEF m
<1>4. 0 \in S
  <2>1. N + 1 + 0 = N + 1 /\ N + 1 \in 1 .. m /\ N + 1 \in N + 1 .. m
    BY <1>1
  <2>2. rows'[N + 1].parent = base
    BY <2>1 DEF m
  <2>3. QED
    BY <1>2, <1>3, <2>1, <2>2
<1>5. ASSUME NEW n \in Nat, n \in S
      PROVE  n + 1 \in S
  <2> SUFFICES ASSUME N + 1 + (n + 1) <= m
               PROVE  base \in Elems(ChainOf(rows', N + 1 + (n + 1)))
    OBVIOUS
  <2> DEFINE v == N + 1 + (n + 1)
  <2>1. /\ v \in 1 .. m /\ v \in N + 1 .. m /\ v # N + 1 /\ v - 1 = N + 1 + n
        /\ N + 1 + n <= m
    BY <1>1
  <2> HIDE DEF v
  <2>2. rows'[v].parent = N + 1 + n
    BY <2>1 DEF m
  <2>3. base \in Elems(ChainOf(rows', N + 1 + n))
    BY <1>5, <2>1
  <2>4. base \in Elems(ChainOf(rows', v))
    BY <1>2, <2>1, <2>2, <2>3
  <2>5. QED
    BY <2>4 DEF v
<1> HIDE DEF S
<1>6. m - (N + 1) \in Nat /\ N + 1 + (m - (N + 1)) = m
  BY <1>1
<1>7. m - (N + 1) \in S
  BY <1>4, <1>5, <1>6, SetInduction
<1>8. QED
  BY <1>6, <1>7 DEF S, m

BuildsOnHead ==
  \/ \A c \in Chats : head[c] \in Elems(Chain(head[c])')
  \/ \E k \in retried : rows'[Len(rows) + 1].parent \in RowsWithKey(k)

\* A head that moves to a row that hangs under it, or not at all.
LEMMA HeadKept ==
  ASSUME VersionsInv, VersionsInv', Grown, NEW c \in Chats,
         head'[c] = head[c] \/ rows'[head'[c]].parent = head[c]
  PROVE  head[c] \in Elems(Chain(head[c])')
<1>1. IsSeq(rows) /\ IsSeq(rows')
  BY DEF VersionsInv, Owned, RowsOf
<1>2. Ids' = 1 .. Len(rows') /\ head[c] \in Ids' /\ head'[c] \in Ids' /\ Hanging(rows')
  <2>1. Ids' = 1 .. Len(rows')
    BY <1>1, SeqFacts DEF Ids
  <2>2. head[c] \in Ids' /\ head'[c] \in Ids'
    BY DEF VersionsInv, HeadsOwn, Grown
  <2>3. \A v \in Ids' : rows'[v].parent \in 0 .. v - 1
    BY DEF VersionsInv, RowsHang
  <2>4. QED
    BY <1>1, <2>1, <2>2, <2>3 DEF Hanging
<1>3. Chain(head[c])' = ChainOf(rows', head'[c])
  BY DEF Chain, ChainOf
<1>4. \A v \in 1 .. Len(rows') :
        /\ v \in Elems(ChainOf(rows', v))
        /\ Elems(ChainOf(rows', rows'[v].parent)) \subseteq Elems(ChainOf(rows', v))
  BY <1>2, ChainHolds
<1>5. head[c] \in Elems(ChainOf(rows', head'[c]))
  BY <1>2, <1>4
<1>6. QED
  BY <1>3, <1>5

LEMMA WriterBuilds ==
  ASSUME VersionsInv, VersionsInv', Grown, NEW t \in Tabs, WriterStep(t), rows' # rows
  PROVE  BuildsOnHead
<1>1. IsSeq(rows) /\ DOMAIN head = Chats /\ turn[t].chat \in Chats
  BY DEF VersionsInv, Owned, RowsOf, TabTypes
<1>2. ASSUME TurnAnswered(t)
      PROVE  \A c \in Chats : head'[c] = head[c] \/ rows'[head'[c]].parent = head[c]
  <2>1. PICK bump \in BOOLEAN : Appends(turn[t].chat, Score(turn[t].chat, acts + 1), bump)
    BY <1>2 DEF TurnAnswered, versionVars
  <2> DEFINE row == Row(turn[t].chat, head[turn[t].chat], Score(turn[t].chat, acts + 1), NoKey)
  <2>2. row.parent = head[turn[t].chat]
    BY DEF Row
  <2>3. rows' = Append(rows, row) /\ head' = IF bump THEN [head EXCEPT ![turn[t].chat] = Len(rows) + 1] ELSE head
    BY <2>1 DEF Appends
  <2> HIDE DEF row
  <2>4. rows'[Len(rows) + 1] = row
    BY <1>1, <2>3, SeqAppend
  <2>5. QED
    BY <1>1, <2>2, <2>3, <2>4
<1>3. ASSUME ReplacementAccepted(t) \/ RejectionInserts(t) \/ RejectionMoves(t)
      PROVE  head' = head
  BY <1>3 DEF ReplacementAccepted, RejectionInserts, RejectionMoves, Accepts, RejectInserts, RejectMoves
<1>4. \A c \in Chats : head'[c] = head[c] \/ rows'[head'[c]].parent = head[c]
  BY <1>2, <1>3 DEF WriterStep
<1>5. \A c \in Chats : head[c] \in Elems(Chain(head[c])')
  BY <1>4, HeadKept
<1>6. QED
  BY <1>5 DEF BuildsOnHead

LEMMA ServerBuilds ==
  ASSUME OnceInv, VersionsInv', Grown, ServerStep, rows' # rows
  PROVE  BuildsOnHead
<1>1. PICK owner \in Owners : CallsOf(owner) /\ RowsOf(owner)
  BY DEF OnceInv, StoredInv, HandsInv, VersionsInv, Owned
<1>2. VersionsInv /\ IsSeq(rows) /\ DOMAIN head = Chats /\ HeadsOwn /\ KnownStored
  BY <1>1 DEF OnceInv, StoredInv, HandsInv, VersionsInv, TabTypes, RowsOf
<1>3. PICK q \in calls : /\ q.stage = "checked" /\ q.base = head[q.chat]
                         /\ rows' = Chained(q).table
                         /\ head' = [head EXCEPT ![q.chat] = Chained(q).prev]
  BY <1>1, ServerKinds DEF ServerKind
<1>4. IsBatch(q.jobs, owner) /\ q.jobs # <<>> /\ q.chat \in Chats /\ IsSeq(q.jobs)
  BY <1>1 DEF CallsOf, IsCall, IsBatch
<1>5. Writable(q)
  BY <1>1, <1>2, <1>3, WritesSound
<1>6. Hung(q, Chained(q), Len(q.jobs))
  BY <1>2, <1>4, <1>5, ChainedHung
<1>7. Len(rows) \in Nat /\ Len(rows') \in Nat /\ Len(rows) <= Len(rows') /\ IsSeq(rows')
  BY <1>2, SeqFacts DEF Grown
<1>8. Len(rows) # Len(rows')
  <2>1. SUFFICES ASSUME Len(rows) = Len(rows') PROVE rows = rows'
    BY <2>1
  <2>2. DOMAIN rows = DOMAIN rows' /\ \A v \in DOMAIN rows : rows'[v] = rows[v]
    BY <1>2, <1>7, <2>1, SeqFacts DEF Grown, Ids
  <2>3. rows = [v \in DOMAIN rows |-> rows[v]] /\ rows' = [v \in DOMAIN rows' |-> rows'[v]]
    BY <1>2, <1>7 DEF IsSeq
  <2>4. QED
    BY <2>2, <2>3
<1>9. q.known \subseteq retried /\ q.known \subseteq KeysOf(q.jobs)
      /\ \A l \in q.known, k \in KeysOf(q.jobs) : k < l => k \in q.known
  BY <1>3 DEF OnceInv, KnownRetried, StoredInv, KnownFirst
<1>10. 1 \in DOMAIN q.jobs /\ \A i \in DOMAIN q.jobs : i = 1 \/ q.jobs[1].key < q.jobs[i].key
  <2>1. Len(q.jobs) \in Nat \ {0} /\ DOMAIN q.jobs = 1 .. Len(q.jobs)
    BY <1>4, SeqFacts
  <2>2. 1 \in DOMAIN q.jobs /\ \A i \in DOMAIN q.jobs : i = 1 \/ 1 < i
    BY <2>1
  <2>3. QED
    BY <1>4, <2>2 DEF IsBatch
<1>11. CASE q.jobs[1].key \in q.known
  <2>1. Repeated(q, Chained(q))
    <3>1. Len(q.jobs) # 0
      BY <1>4, SeqFacts
    <3>2. QED
      BY <1>6, <1>11, <3>1 DEF Hung
  <2>2. \E k \in q.known : rows'[Len(rows) + 1].parent \in RowsWithKey(k)
    BY <1>3, <1>8, <2>1 DEF Repeated
  <2>3. QED
    BY <1>9, <2>2 DEF BuildsOnHead
<1>12. CASE q.jobs[1].key \notin q.known
  <2>1. q.jobs[1].key \in KeysOf(q.jobs)
    BY <1>10 DEF KeysOf
  <2>2. \A k \in KeysOf(q.jobs) : k \notin q.known
    <3>1. \A k \in KeysOf(q.jobs) : k = q.jobs[1].key \/ q.jobs[1].key < k
      BY <1>10 DEF KeysOf
    <3>2. QED
      BY <1>9, <1>12, <2>1, <3>1
  <2>3. Stacked(q, Chained(q))
    BY <1>6, <2>2 DEF Hung
  <2>4. /\ Chained(q).prev = Len(rows')
        /\ \A v \in Len(rows) + 1 .. Len(rows') :
             rows'[v].parent = IF v = Len(rows) + 1 THEN q.base ELSE v - 1
    BY <1>3, <1>8, <2>3 DEF Stacked
  <2>5. head'[q.chat] = Len(rows') /\ \A c \in Chats : c # q.chat => head'[c] = head[c]
    BY <1>2, <1>3, <1>4, <2>4
  <2>6. Hanging(rows') /\ q.base \in Ids'
    <3>1. Ids' = 1 .. Len(rows')
      BY <1>7, SeqFacts DEF Ids
    <3>2. \A v \in Ids' : rows'[v].parent \in 0 .. v - 1
      BY DEF VersionsInv, RowsHang
    <3>3. q.base \in Ids'
      BY <1>5 DEF Writable, Grown
    <3>4. QED
      BY <1>7, <3>1, <3>2, <3>3 DEF Hanging
  <2>7. q.base \in Elems(ChainOf(rows', Len(rows')))
    <3>1. Len(rows) < Len(rows')
      BY <1>7, <1>8
    <3>2. QED
      BY <1>7, <2>4, <2>6, <3>1, StackHolds
  <2>8. Chain(head[q.chat])' = ChainOf(rows', head'[q.chat])
    BY DEF Chain, ChainOf
  <2>9. head[q.chat] \in Elems(Chain(head[q.chat])')
    BY <1>3, <2>5, <2>7, <2>8
  <2>10. ASSUME NEW c \in Chats, c # q.chat
         PROVE  head[c] \in Elems(Chain(head[c])')
    BY <1>2, <2>5, <2>10, HeadKept
  <2>11. \A c \in Chats : head[c] \in Elems(Chain(head[c])')
    <3>1. ASSUME NEW c \in Chats
          PROVE  head[c] \in Elems(Chain(head[c])')
      BY <2>9, <2>10
    <3>2. QED
      BY <3>1
  <2>12. QED
    BY <2>11 DEF BuildsOnHead
<1>13. QED
  BY <1>11, <1>12

\* A save or a turn that moves a head builds on it, for any number of tabs,
\* sessions and edits, unless it repeats what an unheard attempt has stored.
THEOREM SyncSavesBuildOnHead == SyncSpec => SavesBuildOnTheHead
<1>1. SyncInit => OnceInv
  <2> SUFFICES ASSUME SyncInit PROVE OnceInv
    OBVIOUS
  <2>1. StoredInv
    BY InitStored
  <2>2. calls = {} /\ Once = {}
    BY DEF SyncInit, VersionsInit, Once
  <2>3. QED
    BY <2>1, <2>2 DEF OnceInv, OnceAlone, QueuedUnstored, KnownRetried
<1>2. OnceInv /\ [SyncNext]_syncVars => OnceInv'
  BY OnceStep
<1>3. OnceInv /\ [SyncNext]_syncVars =>
        [rows' # rows =>
           \/ \A c \in Chats : head[c] \in Elems(Chain(head[c])')
           \/ \E k \in retried : rows'[Len(rows) + 1].parent \in RowsWithKey(k)]_syncVars
  <2> SUFFICES ASSUME OnceInv, SyncNext, rows' # rows
               PROVE  BuildsOnHead
    BY DEF BuildsOnHead, syncVars
  <2>1. VersionsInv /\ VersionsInv' /\ Grown
    BY RowsGrow, VersionsStep DEF OnceInv, StoredInv, HandsInv
  <2>2. ASSUME NEW t \in Tabs, TabStep(t)
        PROVE  FALSE
    BY <2>1, <2>2, TabStepFrame DEF VersionsInv, versionVars
  <2>3. ASSUME NEW t \in Tabs, QueueStep(t)
        PROVE  FALSE
    BY <2>3, QueueCalls
  <2>4. QED
    BY <2>1, <2>2, <2>3, WriterBuilds, ServerBuilds, StepKinds
<1>4. QED
  BY <1>1, <1>2, <1>3, PTL DEF SyncSpec, SavesBuildOnTheHead
=============================================================================
