-------------------------- MODULE ScoreEditsProofs --------------------------
(***************************************************************************)
(* Proofs about the edits of a score, for scores of any length, any meter, *)
(* any answers of the model and any number of edits: the voices stay       *)
(* aligned, the entries keep standing at measures there are and follow the *)
(* measures they stand at, and the measures stay in time.                  *)
(***************************************************************************)
EXTENDS ScoreEdits, MeasureProofs

-----------------------------------------------------------------------------
(* Voices *)

LEMMA SequenceIs ==
  ASSUME NEW S, NEW q \in Seq(S)
  PROVE  IsSequence(q)
<1>1. PICK n \in Nat : q \in [1 .. n -> S]
  BY SeqDef
<1>2. q \in [1 .. n -> {q[i] : i \in DOMAIN q}]
  BY <1>1
<1>3. QED
  BY <1>1, <1>2, SeqDef DEF IsSequence

\* r between the first a measures of q and those behind the b-th.
Splice(q, a, r, b) == SubSeq(q, 1, a) \o r \o SubSeq(q, b + 1, Len(q))
\* What w is then.
IsSplice(q, a, r, b, w) ==
  /\ IsVoice(w) /\ Len(w) = a + Len(r) + (Len(q) - b) /\ DOMAIN w = 1 .. Len(w)
  /\ \A i \in 1 .. Len(w) :
       w[i] = IF i <= a THEN q[i]
              ELSE IF i <= a + Len(r) THEN r[i - a] ELSE q[i - a - Len(r) + b]

LEMMA Splicing ==
  ASSUME NEW q, NEW r, IsVoice(q), IsVoice(r), NEW a \in Nat, NEW b \in Nat, a <= b, b <= Len(q),
         NEW w, w = Splice(q, a, r, b)
  PROVE  IsSplice(q, a, r, b, w)
<1> DEFINE S == {q[i] : i \in DOMAIN q} \cup {r[i] : i \in DOMAIN r}
           x == SubSeq(q, 1, a)
           y == SubSeq(q, b + 1, Len(q))
<1>1. q \in Seq(S) /\ r \in Seq(S)
  <2>1. \A T : T \subseteq S => Seq(T) \subseteq Seq(S)
    BY SeqDef
  <2>2. QED
    BY <2>1 DEF IsVoice, IsSequence
<1>2. Len(q) \in Nat /\ Len(r) \in Nat /\ DOMAIN q = 1 .. Len(q) /\ DOMAIN r = 1 .. Len(r)
  BY <1>1
<1> DEFINE n == Len(q)
           k == Len(r)
<1>0. n \in Nat /\ k \in Nat /\ a \in Nat /\ b \in Nat /\ a <= b /\ b <= n
  BY <1>2
<1> HIDE DEF n, k
<1>3. x \in Seq(S) /\ Len(x) = a /\ \A i \in 1 .. a : x[i] = q[i]
  <2>1. \A i \in 1 .. a : q[i] \in S
    <3>1. \A i \in 1 .. a : i \in 1 .. n
      BY <1>0
    <3>2. QED
      BY <1>2, <3>1 DEF n
  <2>2. /\ x \in Seq(S) /\ Len(x) = IF 1 <= a THEN a - 1 + 1 ELSE 0
        /\ \A i \in 1 .. a - 1 + 1 : x[i] = q[1 + i - 1]
    BY <2>1, SubSeqProperties
  <2> HIDE DEF x
  <2>3. Len(x) = a
    BY <1>0, <2>2
  <2>4. \A i \in 1 .. a : i \in 1 .. a - 1 + 1 /\ 1 + i - 1 = i
    OBVIOUS
  <2>5. QED
    BY <2>2, <2>3, <2>4
<1>4. y \in Seq(S) /\ Len(y) = Len(q) - b /\ \A i \in 1 .. Len(q) - b : y[i] = q[i + b]
  <2>1. \A i \in b + 1 .. Len(q) : q[i] \in S
    BY <1>2
  <2>2. /\ y \in Seq(S) /\ Len(y) = IF b + 1 <= Len(q) THEN Len(q) - (b + 1) + 1 ELSE 0
        /\ \A i \in 1 .. Len(q) - (b + 1) + 1 : y[i] = q[b + 1 + i - 1]
    BY <1>2, <2>1, SubSeqProperties
  <2> HIDE DEF y
  <2>3. Len(y) = Len(q) - b
    <3>1. CASE b + 1 <= Len(q)
      <4>1. Len(y) = Len(q) - (b + 1) + 1
        BY <2>2, <3>1
      <4>2. QED
        BY <1>0, <4>1 DEF n
    <3>2. CASE ~(b + 1 <= Len(q))
      <4>1. Len(y) = 0
        BY <2>2, <3>2
      <4>2. ~(b + 1 <= n)
        BY <3>2 DEF n
      <4>3. n - b = 0
        BY <1>0, <4>2
      <4>4. QED
        BY <4>1, <4>3 DEF n
    <3>3. QED
      BY <3>1, <3>2
  <2>4. ASSUME NEW i \in 1 .. Len(q) - b
        PROVE  y[i] = q[i + b]
    <3>1. i \in 1 .. Len(q) - (b + 1) + 1 /\ b + 1 + i - 1 = i + b
      BY <1>2
    <3>2. QED
      BY <2>2, <3>1
  <2>5. QED
    BY <2>2, <2>3, <2>4
<1> HIDE DEF x, y
<1>5. /\ x \o r \in Seq(S) /\ Len(x \o r) = Len(x) + Len(r)
      /\ \A i \in 1 .. Len(x) + Len(r) : (x \o r)[i] = IF i <= Len(x) THEN x[i] ELSE r[i - Len(x)]
  BY <1>1, <1>3, ConcatProperties
<1> DEFINE u == x \o r
<1> HIDE DEF u
<1>6. u \in Seq(S) /\ Len(u) = a + Len(r)
      /\ \A i \in 1 .. a + Len(r) : u[i] = IF i <= a THEN x[i] ELSE r[i - a]
  BY <1>3, <1>5 DEF u
<1>7. w = u \o y
  BY DEF u, x, y, Splice
<1>8. /\ w \in Seq(S) /\ Len(w) = a + Len(r) + (Len(q) - b) /\ DOMAIN w = 1 .. Len(w)
      /\ \A i \in 1 .. Len(w) : w[i] = IF i <= a + Len(r) THEN u[i] ELSE y[i - (a + Len(r))]
  <2>1. /\ u \o y \in Seq(S) /\ Len(u \o y) = Len(u) + Len(y)
        /\ \A i \in 1 .. Len(u) + Len(y) : (u \o y)[i] = IF i <= Len(u) THEN u[i] ELSE y[i - Len(u)]
    <3>1. u \in Seq(S) /\ y \in Seq(S)
      BY <1>4, <1>6
    <3> HIDE DEF S
    <3>2. QED
      BY <3>1, ConcatProperties
  <2>2. Len(w) = a + Len(r) + (Len(q) - b) /\ w \in Seq(S)
    BY <1>4, <1>6, <1>7, <2>1
  <2>3. Len(u) = a + Len(r) /\ Len(u) + Len(y) = Len(w)
    BY <1>6, <1>7, <2>1
  <2>4. \A i \in 1 .. Len(w) : w[i] = IF i <= a + Len(r) THEN u[i] ELSE y[i - (a + Len(r))]
    BY <1>7, <2>1, <2>3
  <2>5. DOMAIN w = 1 .. Len(w)
    BY <2>2
  <2>6. QED
    BY <2>2, <2>4, <2>5
<1> DEFINE c == a + Len(r)
           d == Len(q) - b
<1>9. c \in Nat /\ d \in Nat /\ Len(w) = c + d
  <2>1. a + k \in Nat /\ n - b \in Nat
    BY <1>0
  <2>2. c = a + k /\ d = n - b
    BY DEF n, k
  <2> HIDE DEF c, d
  <2>3. Len(w) = c + d
    BY <1>8 DEF c, d
  <2>4. QED
    BY <2>1, <2>2, <2>3
<1> HIDE DEF c, d
<1>10. ASSUME NEW i \in 1 .. c + d
       PROVE  w[i] = IF i <= a THEN q[i]
                     ELSE IF i <= a + Len(r) THEN r[i - a] ELSE q[i - a - Len(r) + b]
  <2>1. i \in Nat /\ i # 0 /\ i <= c + d
    BY <1>9
  <2>2. w[i] = IF i <= c THEN u[i] ELSE y[i - c]
    BY <1>8, <1>9 DEF c
  <2>3. CASE i <= a
    <3>1. i <= c /\ i \in 1 .. a /\ i \in 1 .. c
      BY <1>0, <1>2, <2>1, <2>3 DEF c
    <3>2. QED
      BY <1>3, <1>6, <2>2, <2>3, <3>1 DEF c
  <2>4. CASE ~(i <= a) /\ i <= c
    <3>1. i \in 1 .. c
      BY <1>9, <2>1, <2>4
    <3>2. QED
      BY <1>6, <2>2, <2>4, <3>1 DEF c
  <2>5. CASE ~(i <= a) /\ ~(i <= c)
    <3>1. i - c \in 1 .. d /\ i - c + b = i - a - Len(r) + b
      BY <1>0, <1>2, <1>9, <2>1, <2>5 DEF c
    <3>2. w[i] = q[i - c + b]
      BY <1>4, <2>2, <2>5, <3>1 DEF d
    <3>3. QED
      BY <2>5, <3>1, <3>2 DEF c
  <2>6. a <= c
    BY <1>0, <1>2 DEF c
  <2>7. QED
    BY <2>3, <2>4, <2>5
<1>11. ASSUME NEW i \in DOMAIN w
       PROVE  w[i] = [uid |-> w[i].uid, part |-> w[i].part, events |-> w[i].events]
  <2>1. w[i] \in S
    BY <1>8, ElementOfSeq
  <2>2. QED
    BY <2>1 DEF IsVoice
<1>12. QED
  BY <1>8, <1>9, <1>10, <1>11, SequenceIs DEF IsVoice, IsSplice, c, d

LEMMA VoiceFacts ==
  ASSUME NEW q, IsVoice(q)
  PROVE  /\ Len(q) \in Nat /\ DOMAIN q = 1 .. Len(q) /\ q = [m \in 1 .. Len(q) |-> q[m]]
         /\ \A m \in DOMAIN q :
              q[m] = [uid |-> q[m].uid, part |-> q[m].part, events |-> q[m].events]
<1> DEFINE S == {q[i] : i \in DOMAIN q}
<1>1. q \in Seq(S)
  BY DEF IsVoice, IsSequence
<1>2. QED
  BY <1>1 DEF IsVoice

LEMMA FunctionIs ==
  ASSUME NEW n \in Nat, NEW w, w = [k \in 1 .. n |-> w[k]]
  PROVE  IsSequence(w) /\ Len(w) = n
<1>1. w \in [1 .. n -> {w[i] : i \in DOMAIN w}]
  OBVIOUS
<1>2. w \in Seq({w[i] : i \in DOMAIN w})
  BY <1>1, SeqDef
<1>3. QED
  BY <1>1, <1>2 DEF IsSequence

\* w is q with other notes and flags in its measures.
Rewritten(q, w) ==
  /\ w = [m \in DOMAIN q |-> w[m]]
  /\ \A m \in DOMAIN q : w[m] = [uid |-> q[m].uid, part |-> w[m].part, events |-> w[m].events]

LEMMA Rewriting ==
  ASSUME NEW q, NEW w, IsVoice(q), Rewritten(q, w)
  PROVE  /\ IsVoice(w) /\ Len(w) = Len(q) /\ DOMAIN w = DOMAIN q
         /\ \A m \in DOMAIN q : w[m].uid = q[m].uid
<1>1. Len(q) \in Nat /\ DOMAIN q = 1 .. Len(q)
  BY VoiceFacts
<1>2. IsSequence(w) /\ Len(w) = Len(q)
  BY <1>1, FunctionIs DEF Rewritten
<1>3. \A m \in DOMAIN q : w[m].uid = q[m].uid
  BY DEF Rewritten
<1>4. \A m \in DOMAIN w : w[m] = [uid |-> w[m].uid, part |-> w[m].part, events |-> w[m].events]
  BY <1>3 DEF Rewritten
<1>5. QED
  BY <1>2, <1>3, <1>4 DEF IsVoice, Rewritten

-----------------------------------------------------------------------------
(* Voices side by side *)

\* The voices of a score: as long as the primary one, with its measures.
Matched(lines) ==
  /\ IsBundle(lines)
  /\ \A l \in DOMAIN lines :
       /\ Len(lines[l]) = Len(lines["p"])
       /\ \A m \in 1 .. Len(lines["p"]) : lines[l][m].uid = lines["p"][m].uid

\* Measures to be put into a score: where two voices have one at the same
\* place, it is the same measure.
Offered(new) ==
  /\ IsBundle(new)
  /\ \A l \in DOMAIN new : \A m \in DOMAIN new[l] \cap DOMAIN new["p"] :
       new[l][m].uid = new["p"][m].uid

LEMMA LinesRewritten ==
  ASSUME NEW lines, NEW next, Matched(lines), next = [l \in DOMAIN lines |-> next[l]],
         \A l \in DOMAIN lines : Rewritten(lines[l], next[l])
  PROVE  Matched(next) /\ Len(next["p"]) = Len(lines["p"])
<1>1. "p" \in DOMAIN lines /\ \A l \in DOMAIN lines : IsVoice(lines[l])
  BY DEF Matched, IsBundle
<1>2. ASSUME NEW l \in DOMAIN lines
      PROVE  /\ IsVoice(next[l]) /\ Len(next[l]) = Len(lines["p"])
             /\ \A m \in 1 .. Len(lines["p"]) : next[l][m].uid = lines["p"][m].uid
  <2>1. /\ IsVoice(next[l]) /\ Len(next[l]) = Len(lines[l])
        /\ \A m \in DOMAIN lines[l] : next[l][m].uid = lines[l][m].uid
    BY <1>1, Rewriting
  <2>2. DOMAIN lines[l] = 1 .. Len(lines[l]) /\ Len(lines[l]) = Len(lines["p"])
    BY <1>1, VoiceFacts DEF Matched
  <2>3. QED
    BY <2>1, <2>2 DEF Matched
<1>3. DOMAIN next = DOMAIN lines
  OBVIOUS
<1>4. IsBundle(next)
  BY <1>1, <1>2, <1>3 DEF IsBundle
<1>5. QED
  BY <1>1, <1>2, <1>3, <1>4 DEF Matched

\* What a voice gets when measures are put in: as many as the primary voice.
LEMMA Given ==
  ASSUME NEW new, Offered(new), NEW l, NEW g, g = MeasuresFor(new, l)
  PROVE  /\ IsVoice(g) /\ Len(g) = Len(new["p"])
         /\ \A m \in 1 .. Len(new["p"]) : g[m].uid = new["p"][m].uid
<1>1. "p" \in DOMAIN new /\ \A k \in DOMAIN new : IsVoice(new[k])
  BY DEF Offered, IsBundle
<1>2. Len(new["p"]) \in Nat /\ DOMAIN new["p"] = 1 .. Len(new["p"])
  BY <1>1, VoiceFacts
<1>3. CASE l \in DOMAIN new /\ Len(new[l]) = Len(new["p"])
  <2>1. g = new[l] /\ IsVoice(new[l]) /\ DOMAIN new[l] = 1 .. Len(new[l])
    BY <1>1, <1>3, VoiceFacts DEF MeasuresFor
  <2>2. QED
    BY <1>2, <1>3, <2>1 DEF Offered
<1>4. CASE ~(l \in DOMAIN new /\ Len(new[l]) = Len(new["p"]))
  <2>1. g = [k \in 1 .. Len(new["p"]) |-> RestBar(new["p"][k].uid)]
    BY <1>2, <1>4 DEF MeasuresFor
  <2>2. IsSequence(g) /\ Len(g) = Len(new["p"])
    BY <1>2, <2>1, FunctionIs
  <2>3. \A k \in 1 .. Len(new["p"]) :
          g[k] = [uid |-> new["p"][k].uid, part |-> FALSE, events |-> Rests(Capacity)]
    BY <2>1 DEF RestBar
  <2>4. DOMAIN g = 1 .. Len(new["p"])
    BY <2>1
  <2>5. \A k \in 1 .. Len(new["p"]) :
          /\ g[k].uid = new["p"][k].uid
          /\ g[k] = [uid |-> g[k].uid, part |-> g[k].part, events |-> g[k].events]
    <3>1. ASSUME NEW k \in 1 .. Len(new["p"])
          PROVE  /\ g[k].uid = new["p"][k].uid
                 /\ g[k] = [uid |-> g[k].uid, part |-> g[k].part, events |-> g[k].events]
      <4> DEFINE b == g[k]
                 uid == new["p"][k].uid
                 events == Rests(Capacity)
      <4>1. b = [uid |-> uid, part |-> FALSE, events |-> events]
        BY <2>3
      <4> HIDE DEF b, uid, events
      <4>2. b.uid = uid /\ b = [uid |-> b.uid, part |-> b.part, events |-> b.events]
        BY <4>1
      <4>3. QED
        BY <4>2 DEF b, uid
    <3>2. QED
      BY <3>1
  <2>6. QED
    BY <2>2, <2>4, <2>5 DEF IsVoice
<1>5. QED
  BY <1>3, <1>4

LEMMA Behind ==
  ASSUME NEW n \in Nat, NEW a \in Nat, NEW b \in Nat, a <= b, b <= n, NEW k \in Nat,
         NEW i \in 1 .. a + k + (n - b), ~(i <= a + k)
  PROVE  i - a - k + b \in 1 .. n
OBVIOUS

\* Every voice gets its measures spliced in at the same place.
Splicings(lines, a, r, b) == [l \in DOMAIN lines |-> Splice(lines[l], a, r[l], b)]
\* r has k measures for each voice of L: the given ones, or others with their
\* names.
Pieces(L, r, given, k) ==
  \A l \in L : /\ IsVoice(r[l]) /\ Len(r[l]) = k
               /\ \A m \in 1 .. k : r[l][m].uid = given[m].uid

SplicedTo(lines, a, k, b, w) == Matched(w) /\ Len(w["p"]) = a + k + (Len(lines["p"]) - b)

LEMMA Splices ==
  ASSUME NEW lines, Matched(lines), NEW a \in Nat, NEW b \in Nat, a <= b, b <= Len(lines["p"]),
         NEW k \in Nat, NEW r, NEW given, Pieces(DOMAIN lines, r, given, k),
         NEW w, w = Splicings(lines, a, r, b)
  PROVE  SplicedTo(lines, a, k, b, w)
<1> DEFINE n == Len(lines["p"])
           next == w
<1>0. n \in Nat /\ b <= n /\ next = Splicings(lines, a, r, b)
  BY VoiceFacts DEF Matched, IsBundle
<1>a. /\ n = Len(lines["p"])
      /\ \A l \in DOMAIN lines : \A m \in 1 .. n : lines[l][m].uid = lines["p"][m].uid
  BY DEF Matched
<1> HIDE DEF n, next
<1>1. "p" \in DOMAIN lines /\ \A l \in DOMAIN lines : IsVoice(lines[l]) /\ Len(lines[l]) = n
  BY <1>a DEF Matched, IsBundle
<1>2. ASSUME NEW l \in DOMAIN lines
      PROVE  /\ IsVoice(next[l]) /\ Len(next[l]) = a + k + (n - b)
             /\ DOMAIN next[l] = 1 .. Len(next[l])
             /\ \A i \in 1 .. a + k + (n - b) :
                  next[l][i] = IF i <= a THEN lines[l][i]
                               ELSE IF i <= a + k THEN r[l][i - a] ELSE lines[l][i - a - k + b]
  <2> DEFINE q == lines[l]
             g == r[l]
             v == next[l]
  <2>1. v = Splice(q, a, g, b)
    BY <1>0 DEF Splicings
  <2>2. IsVoice(q) /\ IsVoice(g) /\ Len(g) = k /\ Len(q) = n /\ b <= Len(q)
    BY <1>0, <1>1 DEF Pieces
  <2> HIDE DEF q, g, v
  <2>3. IsSplice(q, a, g, b, v)
    BY <2>1, <2>2, Splicing
  <2>4. QED
    BY <2>2, <2>3 DEF q, g, v, IsSplice
<1>3. n \in Nat /\ b <= n
  BY <1>0
<1>4. ASSUME NEW l \in DOMAIN lines, NEW i \in 1 .. a + k + (n - b)
      PROVE  next[l][i].uid = next["p"][i].uid
  <2>1. CASE i <= a
    <3>1. i \in 1 .. n
      BY <1>3, <2>1
    <3>2. next[l][i] = lines[l][i] /\ next["p"][i] = lines["p"][i]
      BY <1>1, <1>2, <2>1
    <3>3. QED
      BY <1>a, <3>1, <3>2
  <2>2. CASE ~(i <= a) /\ i <= a + k
    <3>1. i - a \in 1 .. k
      BY <1>3, <2>2
    <3>2. next[l][i] = r[l][i - a] /\ next["p"][i] = r["p"][i - a]
      BY <1>1, <1>2, <2>2
    <3>3. QED
      BY <1>1, <3>1, <3>2 DEF Pieces
  <2>3. CASE ~(i <= a) /\ ~(i <= a + k)
    <3>1. i - a - k + b \in 1 .. n
      BY <1>3, <2>3, Behind
    <3>2. next[l][i] = lines[l][i - a - k + b] /\ next["p"][i] = lines["p"][i - a - k + b]
      BY <1>1, <1>2, <2>3
    <3>3. QED
      BY <1>a, <3>1, <3>2
  <2>4. QED
    BY <2>1, <2>2, <2>3
<1>5. DOMAIN next = DOMAIN lines /\ next = [l \in DOMAIN next |-> next[l]]
  BY <1>0 DEF Splicings
<1>6. IsBundle(next)
  BY <1>1, <1>2, <1>5 DEF IsBundle
<1>7. Len(next["p"]) = a + k + (n - b)
  BY <1>1, <1>2
<1>8. \A l \in DOMAIN next : /\ Len(next[l]) = Len(next["p"])
                             /\ \A m \in 1 .. Len(next["p"]) : next[l][m].uid = next["p"][m].uid
  <2>1. ASSUME NEW l \in DOMAIN lines
        PROVE  /\ Len(next[l]) = Len(next["p"])
               /\ \A m \in 1 .. Len(next["p"]) : next[l][m].uid = next["p"][m].uid
    BY <1>2, <1>4, <1>7
  <2>2. QED
    BY <1>5, <2>1
<1>9. QED
  BY <1>6, <1>7, <1>8 DEF Matched, SplicedTo, n, next

-----------------------------------------------------------------------------
(* Scores *)

\* The entries of s stand in n measures, and none has an id that an edit after
\* the g-th may mint.
Standing(s, n, g) ==
  AreEntries(s) /\ AreSpans(s.spans) /\ Placed(s, n) /\ Unspent(s, g)

\* s has m measures in every voice.
Laid(s, m, n, g) ==
  /\ HasFields(s) /\ Matched(s.lines) /\ Len(s.lines["p"]) = m /\ m \in Nat
  /\ n \in Nat /\ g \in Nat /\ Standing(s, n, g)

LEMMA LaidIs ==
  ASSUME NEW s, NEW g \in Nat
  PROVE  /\ IsScore(s) /\ Aligned(s) /\ Placed(s, Count(s)) /\ Unspent(s, g)
              => Laid(s, Count(s), Count(s), g)
         /\ \A m, n : Laid(s, m, n, g) => IsScore(s) /\ Aligned(s) /\ Count(s) = m /\ m \in Nat
<1>1. IsBundle(s.lines) => Len(s.lines["p"]) \in Nat
  BY VoiceFacts DEF IsBundle
<1>2. IsScore(s) /\ Aligned(s) => Matched(s.lines)
  BY DEF IsScore, Aligned, Matched, Voices, Count, Bars, UidOf
<1>3. IsScore(s) => IsBundle(s.lines) /\ HasFields(s) /\ AreEntries(s) /\ AreSpans(s.spans)
  BY DEF IsScore
<1>4. ASSUME NEW m, NEW n, Laid(s, m, n, g)
      PROVE  IsScore(s) /\ Aligned(s) /\ Count(s) = m /\ m \in Nat
  <2>1. Matched(s.lines) /\ HasFields(s) /\ AreEntries(s) /\ AreSpans(s.spans)
        /\ Count(s) = m /\ m \in Nat
    BY <1>4 DEF Laid, Standing, Count
  <2>2. Aligned(s)
    BY <2>1 DEF Aligned, Matched, Voices, Count, Bars, UidOf
  <2>3. QED
    BY <2>1, <2>2 DEF IsScore, Matched
<1>5. QED
  BY <1>1, <1>2, <1>3, <1>4 DEF Laid, Standing, Count

\* The two scores have the same entries.
SameEntries(s, next) ==
  /\ next.points = s.points /\ next.ranges = s.ranges /\ next.jumps = s.jumps
  /\ next.spans = s.spans

LEMMA OtherLines ==
  ASSUME NEW s, HasFields(s), NEW lines
  PROVE  /\ HasFields([s EXCEPT !.lines = lines]) /\ SameEntries(s, [s EXCEPT !.lines = lines])
         /\ [s EXCEPT !.lines = lines].lines = lines
BY DEF HasFields, SameEntries

LEMMA StandingSame ==
  ASSUME NEW s, NEW next, SameEntries(s, next), NEW n, NEW g, Standing(s, n, g)
  PROVE  Standing(next, n, g)
BY DEF SameEntries, Standing, AreEntries, AreSpans, Placed, Unspent

\* next has the points and jumps of s.
SamePlaces(s, next) == next.points = s.points /\ next.jumps = s.jumps

LEMMA ReferredSame ==
  ASSUME NEW s, NEW next, SamePlaces(s, next), Referred(s)
  PROVE  Referred(next)
BY DEF SamePlaces, Referred, OfKind

LEMMA PlacesSame ==
  ASSUME NEW s, HasFields(s), NEW x
  PROVE  /\ SamePlaces(s, [s EXCEPT !.lines = x]) /\ SamePlaces(s, [s EXCEPT !.spans = x])
         /\ [s EXCEPT !.lines = x].spans = s.spans
BY DEF HasFields, SamePlaces

\* More measures and older edits.
LEMMA StandingLater ==
  ASSUME NEW s, NEW n \in Nat, NEW g \in Nat, Standing(s, n, g),
         NEW m \in Nat, n <= m, NEW h \in Nat, g <= h
  PROVE  Standing(s, m, h)
<1>1. 1 .. n \subseteq 1 .. m /\ \A f \in Int : f .. n \subseteq f .. m
  OBVIOUS
<1>2. Placed(s, m)
  <2>1. \A r \in s.ranges : r.from \in 1 .. m /\ r.to \in r.from .. m
    <3>1. ASSUME NEW r \in s.ranges
          PROVE  r.from \in 1 .. m /\ r.to \in r.from .. m
      <4>1. r.from \in 1 .. n /\ r.to \in r.from .. n
        BY DEF Standing, Placed
      <4>2. QED
        BY <1>1, <4>1
    <3>2. QED
      BY <3>1
  <2>2. QED
    BY <1>1, <2>1 DEF Standing, Placed
<1>3. MaxEdits \in Nat
  BY ScoreEditsAssumption
<1>4. \A i : i \in h + 1 .. MaxEdits => i \in g + 1 .. MaxEdits
  BY <1>3
<1>5. Unspent(s, h)
  BY <1>4 DEF Standing, Unspent
<1>6. QED
  BY <1>2, <1>5 DEF Standing

\* Other voices for the same entries.
LEMMA LaidLines ==
  ASSUME NEW s, NEW m, NEW n, NEW g, Laid(s, m, n, g),
         NEW lines, Matched(lines), NEW k \in Nat, Len(lines["p"]) = k,
         NEW next, next = [s EXCEPT !.lines = lines]
  PROVE  Laid(next, k, n, g)
<1>1. HasFields(next) /\ SameEntries(s, next) /\ next.lines = lines
  BY OtherLines DEF Laid
<1>2. Standing(next, n, g)
  BY <1>1, StandingSame DEF Laid
<1>3. QED
  BY <1>1, <1>2 DEF Laid

LEMMA InsertedLaid ==
  ASSUME NEW s, NEW m, NEW n, NEW g, Laid(s, m, n, g), NEW new, Offered(new),
         NEW after \in Nat, after <= m, NEW k, k = Len(new["p"]),
         NEW next, next = Inserted(s, new, after)
  PROVE  Laid(next, m + k, n, g) /\ k \in Nat
<1> DEFINE lines == s.lines
           given == new["p"]
           r == [l \in DOMAIN lines |-> MeasuresFor(new, l)]
           made == Splicings(lines, after, r, after)
<1>1. Matched(lines) /\ m = Len(lines["p"]) /\ m \in Nat
  BY DEF Laid
<1>2. k \in Nat /\ m \in Nat
  BY <1>1, VoiceFacts DEF Offered, IsBundle
<1>3. Pieces(DOMAIN lines, r, given, k)
  BY Given DEF Pieces
<1>4. next = [s EXCEPT !.lines = made]
  BY DEF Inserted, EachVoice, Voices, Splicings, Splice
<1> HIDE DEF lines, given, r, made
<1>5. made = Splicings(lines, after, r, after) /\ after <= after /\ after <= Len(lines["p"])
  BY <1>1 DEF made
<1>6. SplicedTo(lines, after, k, after, made)
  BY <1>1, <1>2, <1>3, <1>5, Splices
<1>7. Matched(made) /\ Len(made["p"]) = after + k + (m - after)
  BY <1>1, <1>6 DEF SplicedTo
<1>8. after + k + (m - after) = m + k /\ m + k \in Nat
  BY <1>2
<1>9. QED
  BY <1>2, <1>4, <1>7, <1>8, LaidLines

LEMMA LaidRewritten ==
  ASSUME NEW s, NEW m, NEW n, NEW g, Laid(s, m, n, g),
         NEW lines, lines = [l \in DOMAIN s.lines |-> lines[l]],
         \A l \in DOMAIN s.lines : Rewritten(s.lines[l], lines[l]),
         NEW next, next = [s EXCEPT !.lines = lines]
  PROVE  Laid(next, m, n, g)
<1>1. Matched(s.lines) /\ Len(s.lines["p"]) = m /\ m \in Nat
  BY DEF Laid
<1>2. Matched(lines) /\ Len(lines["p"]) = m
  BY <1>1, LinesRewritten
<1>3. QED
  BY <1>1, <1>2, LaidLines

\* A measure with another flag.
LEMMA Reflagged ==
  ASSUME NEW q, IsVoice(q), NEW k, NEW flag, NEW w, w = [q EXCEPT ![k].part = flag]
  PROVE  Rewritten(q, w)
<1>1. \A m \in DOMAIN q :
        q[m] = [uid |-> q[m].uid, part |-> q[m].part, events |-> q[m].events]
  BY DEF IsVoice
<1>2. w = [m \in DOMAIN q |-> w[m]]
  <2>1. q = [m \in DOMAIN q |-> q[m]]
    BY VoiceFacts
  <2>2. QED
    BY <2>1
<1>3. ASSUME NEW m \in DOMAIN q
      PROVE  w[m] = [uid |-> q[m].uid, part |-> w[m].part, events |-> w[m].events]
  <2> DEFINE b == q[m]
             c == w[m]
  <2>1. b = [uid |-> b.uid, part |-> b.part, events |-> b.events]
    BY <1>1
  <2>2. c = b \/ c = [b EXCEPT !.part = flag]
    <3>1. q = [i \in DOMAIN q |-> q[i]]
      BY VoiceFacts
    <3>2. QED
      BY <3>1
  <2> HIDE DEF b, c
  <2>3. c = [uid |-> b.uid, part |-> c.part, events |-> c.events]
    BY <2>1, <2>2
  <2>4. QED
    BY <2>3 DEF b, c
<1>4. QED
  BY <1>2, <1>3 DEF Rewritten

LEMMA RewrittenSelf ==
  ASSUME NEW q, IsVoice(q)
  PROVE  Rewritten(q, q)
<1>1. q = [m \in DOMAIN q |-> q[m]]
  BY VoiceFacts
<1>2. QED
  BY <1>1 DEF Rewritten, IsVoice

LEMMA Tagged ==
  ASSUME NEW q, IsVoice(q), NEW tag, NEW w, w = TagLast(q, tag)
  PROVE  IsVoice(w) /\ Len(w) = Len(q) /\ \A m \in DOMAIN q : w[m].uid = q[m].uid
<1>1. Rewritten(q, w)
  BY RewrittenSelf, Reflagged DEF TagLast
<1>2. QED
  BY <1>1, Rewriting

LEMMA ReplacedLaid ==
  ASSUME NEW s, NEW m, NEW n, NEW g, Laid(s, m, n, g), NEW new, Offered(new),
         NEW a \in 1 .. m, NEW b \in a .. m, NEW k, k = Len(new["p"]),
         NEW next, next = Replaced(s, a, b, new)
  PROVE  Laid(next, (a - 1) + k + (m - b), n, g) /\ k \in Nat
<1> DEFINE lines == s.lines
           given == new["p"]
           tag == b = Count(s) /\ EndsPartial(s)
           r == [l \in DOMAIN lines |-> TagLast(MeasuresFor(new, l), tag)]
           made == Splicings(lines, a - 1, r, b)
<1>1. Matched(lines) /\ m = Len(lines["p"]) /\ m \in Nat
  BY DEF Laid
<1>2. k \in Nat /\ m \in Nat /\ DOMAIN given = 1 .. k
  BY <1>1, VoiceFacts DEF Offered, IsBundle
<1>3. Pieces(DOMAIN lines, r, given, k)
  <2>1. ASSUME NEW l \in DOMAIN lines
        PROVE  /\ IsVoice(r[l]) /\ Len(r[l]) = k
               /\ \A i \in 1 .. k : r[l][i].uid = given[i].uid
    <3> DEFINE q == MeasuresFor(new, l)
               w == TagLast(q, tag)
    <3>1. IsVoice(q) /\ Len(q) = k /\ \A i \in 1 .. k : q[i].uid = given[i].uid
      BY Given
    <3>2. DOMAIN q = 1 .. k
      BY <3>1, VoiceFacts
    <3> HIDE DEF q
    <3>3. IsVoice(w) /\ Len(w) = Len(q) /\ \A i \in DOMAIN q : w[i].uid = q[i].uid
      BY <3>1, Tagged
    <3> HIDE DEF w
    <3>4. IsVoice(w) /\ Len(w) = k /\ \A i \in 1 .. k : w[i].uid = given[i].uid
      BY <3>1, <3>2, <3>3
    <3>5. r[l] = w
      BY DEF w, q
    <3>6. QED
      BY <3>4, <3>5
  <2>2. QED
    BY <2>1 DEF Pieces
<1>4. next = [s EXCEPT !.lines = made]
  BY DEF Replaced, EachVoice, Voices, Splicings, Splice
<1> HIDE DEF lines, given, r, made, tag
<1>5. /\ a - 1 \in Nat /\ b \in Nat /\ a - 1 <= b /\ b <= Len(lines["p"])
      /\ made = Splicings(lines, a - 1, r, b)
  BY <1>1 DEF made
<1>6. SplicedTo(lines, a - 1, k, b, made)
  BY <1>1, <1>2, <1>3, <1>5, Splices
<1>7. Matched(made) /\ Len(made["p"]) = (a - 1) + k + (m - b)
  BY <1>1, <1>6 DEF SplicedTo
<1>8. (a - 1) + k + (m - b) \in Nat
  BY <1>2
<1>9. QED
  BY <1>2, <1>4, <1>7, <1>8, LaidLines

LEMMA FlaggedLaid ==
  ASSUME NEW s, NEW m, NEW n, NEW g, Laid(s, m, n, g), NEW had,
         NEW next, next = FlagOnlyLast(s, had)
  PROVE  Laid(next, m, n, g)
<1> DEFINE flagged(q) == [i \in DOMAIN q |-> [q[i] EXCEPT !.part = i = Len(q) /\ had]]
           lines == [l \in DOMAIN s.lines |-> flagged(s.lines[l])]
<1>1. next = [s EXCEPT !.lines = lines]
  BY DEF FlagOnlyLast, EachVoice, Voices
<1>2. ASSUME NEW l \in DOMAIN s.lines
      PROVE  Rewritten(s.lines[l], lines[l])
  <2> DEFINE q == s.lines[l]
             w == lines[l]
  <2>1. IsVoice(q)
    BY DEF Laid, Matched, IsBundle
  <2>2. w = [i \in DOMAIN q |-> [q[i] EXCEPT !.part = i = Len(q) /\ had]]
    OBVIOUS
  <2> HIDE DEF q, w
  <2>3. ASSUME NEW i \in DOMAIN q
        PROVE  w[i] = [uid |-> q[i].uid, part |-> w[i].part, events |-> w[i].events]
    <3> DEFINE b == q[i]
               c == w[i]
               flag == i = Len(q) /\ had
    <3>1. b = [uid |-> b.uid, part |-> b.part, events |-> b.events]
      BY <2>1 DEF IsVoice
    <3>2. c = [b EXCEPT !.part = flag]
      BY <2>2
    <3> HIDE DEF b, c, flag
    <3>3. c = [uid |-> b.uid, part |-> c.part, events |-> c.events]
      BY <3>1, <3>2
    <3>4. QED
      BY <3>3 DEF b, c
  <2>4. Rewritten(q, w)
    BY <2>2, <2>3 DEF Rewritten
  <2>5. QED
    BY <2>4 DEF q, w
<1>3. lines = [l \in DOMAIN s.lines |-> lines[l]]
  OBVIOUS
<1> HIDE DEF lines
<1>4. QED
  BY <1>1, <1>2, <1>3, LaidRewritten

LEMMA AppendedLaid ==
  ASSUME NEW s, NEW m, NEW n, NEW g, Laid(s, m, n, g), NEW new, Offered(new),
         NEW k, k = Len(new["p"]), NEW next, next = AppendMeasures(s, new)
  PROVE  Laid(next, m + k, n, g) /\ k \in Nat
<1> DEFINE mid == Inserted(s, new, Count(s))
           lines == [l \in Voices(s) |-> [mid.lines[l] EXCEPT ![Count(s)].part = FALSE]]
<1>1. m \in Nat /\ Count(s) = m /\ m <= m
  BY DEF Laid, Count
<1>2. Laid(mid, m + k, n, g) /\ k \in Nat
  BY <1>1, InsertedLaid
<1>3. next = [mid EXCEPT !.lines = lines]
  BY DEF AppendMeasures, EachVoice
<1>4. DOMAIN mid.lines = Voices(s)
  <2>1. HasFields(s)
    BY DEF Laid
  <2>2. mid.lines =
          Splicings(s.lines, Count(s), [l \in Voices(s) |-> MeasuresFor(new, l)], Count(s))
    BY <2>1, OtherLines DEF Inserted, EachVoice, Splicings, Splice, Voices
  <2>3. QED
    BY <2>2 DEF Splicings, Voices
<1> HIDE DEF mid
<1>5. ASSUME NEW l \in Voices(s)
      PROVE  Rewritten(mid.lines[l], lines[l])
  <2>1. IsVoice(mid.lines[l])
    BY <1>2, <1>4 DEF Laid, Matched, IsBundle
  <2>2. lines[l] = [mid.lines[l] EXCEPT ![Count(s)].part = FALSE]
    OBVIOUS
  <2>3. QED
    BY <2>1, <2>2, Reflagged
<1>6. lines = [l \in DOMAIN mid.lines |-> lines[l]]
  BY <1>4
<1> HIDE DEF lines
<1>7. QED
  BY <1>2, <1>3, <1>4, <1>5, <1>6, LaidRewritten

-----------------------------------------------------------------------------
(* Measures to be put in *)

\* w is the part of q from a to b.
IsPart(q, a, b, w) ==
  /\ IsVoice(w) /\ Len(w) = b - a + 1
  /\ \A i \in 1 .. b - a + 1 : w[i] = q[a + i - 1] /\ a + i - 1 \in 1 .. Len(q)

LEMMA VoicePart ==
  ASSUME NEW q, IsVoice(q), NEW a \in 1 .. Len(q), NEW b \in a .. Len(q),
         NEW w, w = SubSeq(q, a, b)
  PROVE  IsPart(q, a, b, w)
<1> DEFINE S == {q[i] : i \in DOMAIN q}
           n == Len(q)
<1>1. n \in Nat /\ DOMAIN q = 1 .. n
  BY VoiceFacts
<1> HIDE DEF n
<1>2. a \in Int /\ b \in Int /\ a <= b /\ b <= n /\ 1 <= a
  BY <1>1 DEF n
<1>3. \A i \in a .. b : i \in 1 .. n
  BY <1>1, <1>2
<1>4. \A i \in a .. b : q[i] \in S
  BY <1>1, <1>3
<1> HIDE DEF S
<1>5. /\ w \in Seq(S) /\ Len(w) = IF a <= b THEN b - a + 1 ELSE 0
      /\ \A i \in 1 .. b - a + 1 : w[i] = q[a + i - 1]
  BY <1>2, <1>4, SubSeqProperties
<1>6. Len(w) = b - a + 1
  BY <1>2, <1>5
<1>7. \A i \in 1 .. b - a + 1 : a + i - 1 \in 1 .. n
  BY <1>1, <1>2
<1>8. IsSequence(w)
  BY <1>5, SequenceIs
<1>9. ASSUME NEW i \in DOMAIN w
      PROVE  w[i] = [uid |-> w[i].uid, part |-> w[i].part, events |-> w[i].events]
  <2>1. PICK j \in DOMAIN q : w[i] = q[j]
    BY <1>5, ElementOfSeq DEF S
  <2>2. QED
    BY <2>1 DEF IsVoice
<1>10. QED
  BY <1>5, <1>6, <1>7, <1>8, <1>9 DEF IsPart, IsVoice, n

LEMMA CapturedOffered ==
  ASSUME NEW s, NEW m, NEW n, NEW g, Laid(s, m, n, g), NEW a \in 1 .. m, NEW b \in a .. m,
         NEW new, new = Captured(s, a, b)
  PROVE  Offered(new) /\ Len(new["p"]) = b - a + 1
<1> DEFINE lines == s.lines
<1>1. /\ Matched(lines) /\ m = Len(lines["p"]) /\ "p" \in DOMAIN lines
      /\ new = [l \in DOMAIN lines |-> SubSeq(lines[l], a, b)]
  BY DEF Laid, Matched, IsBundle, Captured, Voices
<1> HIDE DEF lines
<1>2. ASSUME NEW l \in DOMAIN lines
      PROVE  /\ IsVoice(new[l]) /\ Len(new[l]) = b - a + 1 /\ DOMAIN new[l] = 1 .. b - a + 1
             /\ \A i \in 1 .. b - a + 1 : new[l][i].uid = lines["p"][a + i - 1].uid
  <2> DEFINE q == lines[l]
             w == new[l]
  <2>1. IsVoice(q) /\ Len(q) = m /\ w = SubSeq(q, a, b)
        /\ \A i \in 1 .. m : q[i].uid = lines["p"][i].uid
    BY <1>1 DEF Matched, IsBundle
  <2> HIDE DEF q, w
  <2>2. a \in 1 .. Len(q) /\ b \in a .. Len(q)
    BY <2>1
  <2>3. /\ IsVoice(w) /\ Len(w) = b - a + 1
        /\ \A i \in 1 .. b - a + 1 : w[i] = q[a + i - 1] /\ a + i - 1 \in 1 .. Len(q)
    <3>1. IsPart(q, a, b, w)
      BY <2>1, <2>2, VoicePart
    <3>2. QED
      BY <3>1 DEF IsPart
  <2>4. DOMAIN w = 1 .. b - a + 1
    BY <2>3, VoiceFacts
  <2>5. QED
    BY <2>1, <2>3, <2>4 DEF w
<1>3. DOMAIN new = DOMAIN lines /\ new = [l \in DOMAIN new |-> new[l]]
  BY <1>1
<1>4. IsBundle(new)
  BY <1>1, <1>2, <1>3 DEF IsBundle
<1>5. ASSUME NEW l \in DOMAIN new, NEW i \in DOMAIN new[l] \cap DOMAIN new["p"]
      PROVE  new[l][i].uid = new["p"][i].uid
  <2>1. i \in 1 .. b - a + 1
    BY <1>2, <1>3
  <2>2. QED
    BY <1>1, <1>2, <1>3, <2>1
<1>6. Len(new["p"]) = b - a + 1
  BY <1>1, <1>2
<1>7. QED
  BY <1>4, <1>5, <1>6 DEF Offered

LEMMA NothingOffered == Offered(Nothing) /\ Len(Nothing["p"]) = 0
<1>1. IsVoice(<<>>)
  BY DEF IsVoice, IsSequence
<1>2. QED
  BY <1>1 DEF Nothing, Offered, IsBundle

\* Measures made one by one, named by their place.
MadeOf(w, n, name) ==
  /\ n \in Nat /\ w = [k \in 1 .. n |-> w[k]]
  /\ \A k \in 1 .. n : w[k] = [uid |-> name[k], part |-> w[k].part, events |-> w[k].events]

AllMade(L, new, len, name) ==
  "p" \in L /\ new = [l \in L |-> new[l]] /\ \A l \in L : MadeOf(new[l], len[l], name)

LEMMA MadeOffered ==
  ASSUME NEW L, NEW len, NEW name, NEW new, AllMade(L, new, len, name)
  PROVE  Offered(new) /\ \A l \in L : Len(new[l]) = len[l]
<1>1. ASSUME NEW l \in L
      PROVE  /\ IsVoice(new[l]) /\ Len(new[l]) = len[l]
             /\ \A k \in DOMAIN new[l] : new[l][k].uid = name[k]
  <2> DEFINE q == new[l]
             n == len[l]
  <2>1. /\ n \in Nat /\ q = [k \in 1 .. n |-> q[k]]
        /\ \A k \in 1 .. n : q[k] = [uid |-> name[k], part |-> q[k].part, events |-> q[k].events]
    BY DEF AllMade, MadeOf
  <2> HIDE DEF q, n
  <2>2. IsSequence(q) /\ Len(q) = n /\ DOMAIN q = 1 .. n
    BY <2>1, FunctionIs
  <2>3. \A k \in 1 .. n : q[k].uid = name[k]
    BY <2>1
  <2>4. \A k \in DOMAIN q : q[k] = [uid |-> q[k].uid, part |-> q[k].part, events |-> q[k].events]
    BY <2>1, <2>2, <2>3
  <2>5. IsVoice(q)
    BY <2>2, <2>4 DEF IsVoice
  <2>6. QED
    BY <2>2, <2>3, <2>5 DEF q, n
<1>2. DOMAIN new = L /\ new = [l \in L |-> new[l]] /\ "p" \in L
  BY DEF AllMade
<1>3. IsBundle(new)
  BY <1>1, <1>2 DEF IsBundle
<1>4. QED
  BY <1>1, <1>2, <1>3 DEF Offered

LEMMA ClonedOffered ==
  ASSUME NEW new, IsBundle(new), NEW gen, NEW c, c = Cloned(new, gen)
  PROVE  Offered(c) /\ Len(c["p"]) = Len(new["p"])
<1> DEFINE len == [l \in DOMAIN new |-> Len(new[l])]
           name == [k \in Nat |-> <<gen, k>>]
<1>1. "p" \in DOMAIN new /\ \A l \in DOMAIN new : IsVoice(new[l])
  BY DEF IsBundle
<1>2. ASSUME NEW l \in DOMAIN new
      PROVE  MadeOf(c[l], len[l], name)
  <2> DEFINE q == new[l]
             w == c[l]
  <2>1. /\ Len(q) \in Nat /\ DOMAIN q = 1 .. Len(q) /\ len[l] = Len(q)
        /\ \A k \in DOMAIN q :
             q[k] = [uid |-> q[k].uid, part |-> q[k].part, events |-> q[k].events]
    BY <1>1, VoiceFacts
  <2>2. w = [k \in DOMAIN q |->
               [q[k] EXCEPT !.uid = <<gen, k>>, !.events = Identified(gen, l, k, @)]]
    BY DEF Cloned
  <2> HIDE DEF q, w
  <2>3. ASSUME NEW k \in 1 .. Len(q)
        PROVE  w[k] = [uid |-> <<gen, k>>, part |-> w[k].part, events |-> w[k].events]
    <3> DEFINE b == q[k]
               d == w[k]
               u == <<gen, k>>
               e == Identified(gen, l, k, b.events)
    <3>1. b = [uid |-> b.uid, part |-> b.part, events |-> b.events]
      BY <2>1
    <3>2. d = [b EXCEPT !.uid = u, !.events = e]
      BY <2>1, <2>2
    <3> HIDE DEF b, d, u, e
    <3>3. d = [uid |-> u, part |-> d.part, events |-> d.events]
      BY <3>1, <3>2
    <3>4. QED
      BY <3>3 DEF d, u
  <2>4. w = [k \in 1 .. Len(q) |-> w[k]]
    BY <2>1, <2>2
  <2>5. \A k \in 1 .. Len(q) : name[k] = <<gen, k>>
    BY <2>1
  <2>6. QED
    BY <2>1, <2>3, <2>4, <2>5 DEF MadeOf, w
<1>3. c = [l \in DOMAIN new |-> c[l]]
  BY DEF Cloned
<1>a. len["p"] = Len(new["p"])
  BY <1>1
<1> HIDE DEF len, name
<1> DEFINE L == DOMAIN new
<1>b. AllMade(L, c, len, name)
  BY <1>1, <1>2, <1>3 DEF AllMade
<1> HIDE DEF L
<1>c. Offered(c) /\ \A l \in L : Len(c[l]) = len[l]
  BY <1>b, MadeOffered
<1>4. Offered(c) /\ \A l \in DOMAIN new : Len(c[l]) = len[l]
  BY <1>c DEF L
<1>5. QED
  BY <1>1, <1>4, <1>a

LEMMA AnswerOffered ==
  ASSUME NEW content \in Contents, NEW c, c = Answer(content)
  PROVE  Offered(c)
<1> DEFINE len == [l \in DOMAIN content |-> Len(content[l])]
           name == [k \in Nat |-> <<Gen, k>>]
<1>1. "p" \in DOMAIN content /\ \A l \in DOMAIN content : IsSequence(content[l])
  BY ScoreEditsAssumption
<1>2. ASSUME NEW l \in DOMAIN content
      PROVE  MadeOf(c[l], len[l], name)
  <2> DEFINE q == content[l]
             w == c[l]
             S == {q[i] : i \in DOMAIN q}
  <2>1. q \in Seq(S) /\ len[l] = Len(q)
    BY <1>1 DEF IsSequence
  <2>2. w = [k \in DOMAIN q |->
               [uid |-> <<Gen, k>>, part |-> q[k].part, events |-> q[k].events]]
    BY DEF Answer
  <2> HIDE DEF q, w, S
  <2>3. Len(q) \in Nat /\ DOMAIN q = 1 .. Len(q)
    BY <2>1
  <2>4. w = [k \in 1 .. Len(q) |-> w[k]]
    BY <2>2, <2>3
  <2>5. ASSUME NEW k \in 1 .. Len(q)
        PROVE  w[k] = [uid |-> <<Gen, k>>, part |-> w[k].part, events |-> w[k].events]
    <3> DEFINE d == w[k]
               u == <<Gen, k>>
               p == q[k].part
               e == q[k].events
    <3>1. d = [uid |-> u, part |-> p, events |-> e]
      BY <2>2, <2>3
    <3> HIDE DEF d, u, p, e
    <3>2. d = [uid |-> u, part |-> d.part, events |-> d.events]
      BY <3>1
    <3>3. QED
      BY <3>2 DEF d, u
  <2>6. \A k \in 1 .. Len(q) : name[k] = <<Gen, k>>
    BY <2>3
  <2>7. QED
    BY <2>1, <2>3, <2>4, <2>5, <2>6 DEF MadeOf, w
<1>3. c = [l \in DOMAIN content |-> c[l]]
  BY DEF Answer
<1> DEFINE L == DOMAIN content
<1>4. AllMade(L, c, len, name)
  BY <1>1, <1>2, <1>3 DEF AllMade
<1> HIDE DEF len, name, L
<1>5. QED
  BY <1>4, MadeOffered

LEMMA RestOffered ==
  ASSUME NEW u, NEW c, c = [l \in {"p"} |-> <<RestBar(u)>>]
  PROVE  Offered(c) /\ Len(c["p"]) = 1
<1> DEFINE q == <<RestBar(u)>>
           b == RestBar(u)
           e == Rests(Capacity)
<1>1. b = [uid |-> u, part |-> FALSE, events |-> e]
  BY DEF RestBar
<1> HIDE DEF b, e
<1>2. b = [uid |-> b.uid, part |-> b.part, events |-> b.events]
  BY <1>1
<1>3. q = <<b>>
  BY DEF b
<1> HIDE DEF q
<1>4. q \in Seq({b}) /\ Len(q) = 1 /\ \A i \in DOMAIN q : q[i] = b
  BY <1>3
<1>5. IsVoice(q)
  BY <1>2, <1>4, SequenceIs DEF IsVoice
<1>6. c = [l \in {"p"} |-> q]
  BY DEF q
<1>7. QED
  BY <1>4, <1>5, <1>6 DEF Offered, IsBundle

-----------------------------------------------------------------------------
(* Entries that move *)

\* Of n measures each goes to one of m or nowhere, and none overtakes another.
Maps(to, n, m) ==
  /\ \A i \in 1 .. n : to[i] \in 0 .. m
  /\ \A i \in 1 .. n : \A j \in i .. n : to[i] # 0 /\ to[j] # 0 => to[i] <= to[j]

LEMMA InsertMaps ==
  ASSUME NEW n \in Nat, NEW after, after \in Nat, NEW k \in Nat
  PROVE  Maps(InsertIdx(n, after, k), n, n + k)
<1> DEFINE to == InsertIdx(n, after, k)
<1>1. \A i \in 1 .. n : to[i] = IF i <= after THEN i ELSE i + k
  BY DEF InsertIdx
<1> HIDE DEF to
<1>2. \A i \in 1 .. n : to[i] \in 0 .. n + k
  BY <1>1
<1>3. ASSUME NEW i \in 1 .. n, NEW j \in i .. n
      PROVE  to[i] <= to[j]
  <2>1. j \in 1 .. n /\ i <= j
    OBVIOUS
  <2>2. QED
    BY <1>1, <2>1
<1>4. QED
  BY <1>2, <1>3 DEF Maps, to

LEMMA ReplaceMaps ==
  ASSUME NEW n \in Nat, NEW a \in 1 .. n, NEW b \in a .. n, NEW k \in Nat
  PROVE  Maps(ReplaceIdx(n, a, b, k), n, (a - 1) + k + (n - b))
<1> DEFINE to == ReplaceIdx(n, a, b, k)
<1>1. \A i \in 1 .. n : to[i] = IF i < a THEN i
                                ELSE IF i > b THEN i + k - (b - a + 1)
                                ELSE IF k = 0 THEN 0 ELSE a + k - 1
  BY DEF ReplaceIdx
<1> HIDE DEF to
<1>2. \A i \in 1 .. n : to[i] \in 0 .. (a - 1) + k + (n - b)
  BY <1>1
<1>3. ASSUME NEW i \in 1 .. n, NEW j \in i .. n, to[i] # 0, to[j] # 0
      PROVE  to[i] <= to[j]
  <2>1. j \in 1 .. n /\ i <= j
    OBVIOUS
  <2>2. QED
    BY <1>1, <1>3, <2>1
<1>4. QED
  BY <1>2, <1>3 DEF Maps, to

\* Where the entries of next come from.
Comes(entries, next) == \A y \in next : \E x \in entries : x.id = y.id
Remains(s, to, next) ==
  /\ next.lines = s.lines /\ next.spans = s.spans
  /\ Comes(s.points, next.points) /\ Comes(s.ranges, next.ranges) /\ Comes(s.jumps, next.jumps)
  /\ \A p \in s.points : to[p.at] # 0 => \E q \in next.points : q.id = p.id /\ q.kind = p.kind

\* The sets of remapScoreReferences.
PointsTo(s, to) == {[p EXCEPT !.at = to[@]] : p \in {q \in s.points : to[q.at] # 0}}
JumpsTo(s, to) == {[j EXCEPT !.at = to[@]] : j \in {q \in s.jumps : to[q.at] # 0}}
RangesTo(s, to) ==
  {[r EXCEPT !.from = to[@], !.to = to[@]] :
     r \in {q \in s.ranges : to[q.from] # 0 /\ to[q.to] # 0}}

LEMMA PointsMoved ==
  ASSUME NEW s, AreEntries(s), NEW to, NEW q \in PointsTo(s, to)
  PROVE  \E p \in s.points : /\ to[p.at] # 0 /\ q.id = p.id /\ q.kind = p.kind /\ q.at = to[p.at]
                             /\ q = [id |-> p.id, kind |-> p.kind, at |-> to[p.at], line |-> p.line]
<1>1. PICK p \in s.points : to[p.at] # 0 /\ q = [p EXCEPT !.at = to[@]]
  BY DEF PointsTo
<1>2. p = [id |-> p.id, kind |-> p.kind, at |-> p.at, line |-> p.line]
  BY DEF AreEntries
<1>3. q = [id |-> p.id, kind |-> p.kind, at |-> to[p.at], line |-> p.line]
  BY <1>1, <1>2
<1>4. QED
  BY <1>1, <1>3

LEMMA PointsKept ==
  ASSUME NEW s, AreEntries(s), NEW to, NEW p \in s.points, to[p.at] # 0
  PROVE  \E q \in PointsTo(s, to) : q.id = p.id /\ q.kind = p.kind
<1> DEFINE q == [p EXCEPT !.at = to[@]]
<1>1. q \in PointsTo(s, to)
  BY DEF PointsTo
<1>2. p = [id |-> p.id, kind |-> p.kind, at |-> p.at, line |-> p.line]
  BY DEF AreEntries
<1>3. q.id = p.id /\ q.kind = p.kind
  BY <1>2
<1>4. QED
  BY <1>1, <1>3

LEMMA JumpsMoved ==
  ASSUME NEW s, AreEntries(s), NEW to, NEW q \in JumpsTo(s, to)
  PROVE  \E j \in s.jumps :
           /\ to[j.at] # 0 /\ q.id = j.id /\ q.at = to[j.at]
           /\ q = [id |-> j.id, kind |-> j.kind, at |-> to[j.at],
                   segno |-> j.segno, coda |-> j.coda, tocoda |-> j.tocoda]
<1>1. PICK j \in s.jumps : to[j.at] # 0 /\ q = [j EXCEPT !.at = to[@]]
  BY DEF JumpsTo
<1>2. j = [id |-> j.id, kind |-> j.kind, at |-> j.at,
           segno |-> j.segno, coda |-> j.coda, tocoda |-> j.tocoda]
  BY DEF AreEntries
<1>3. q = [id |-> j.id, kind |-> j.kind, at |-> to[j.at],
           segno |-> j.segno, coda |-> j.coda, tocoda |-> j.tocoda]
  BY <1>1, <1>2
<1>4. QED
  BY <1>1, <1>3

LEMMA RangesMoved ==
  ASSUME NEW s, AreEntries(s), NEW to, NEW q \in RangesTo(s, to)
  PROVE  \E r \in s.ranges :
           /\ to[r.from] # 0 /\ to[r.to] # 0 /\ q.id = r.id
           /\ q.from = to[r.from] /\ q.to = to[r.to]
           /\ q = [id |-> r.id, kind |-> r.kind, from |-> to[r.from], to |-> to[r.to]]
<1>1. PICK r \in s.ranges : /\ to[r.from] # 0 /\ to[r.to] # 0
                            /\ q = [r EXCEPT !.from = to[@], !.to = to[@]]
  BY DEF RangesTo
<1>2. r = [id |-> r.id, kind |-> r.kind, from |-> r.from, to |-> r.to]
  BY DEF AreEntries
<1>3. q = [id |-> r.id, kind |-> r.kind, from |-> to[r.from], to |-> to[r.to]]
  BY <1>1, <1>2
<1>4. QED
  BY <1>1, <1>3

LEMMA RemappedFields ==
  ASSUME NEW s, HasFields(s), NEW to, NEW next, next = Remapped(s, to)
  PROVE  /\ HasFields(next) /\ next.lines = s.lines /\ next.spans = s.spans
         /\ next.points = PointsTo(s, to) /\ next.ranges = RangesTo(s, to)
         /\ next.jumps \subseteq JumpsTo(s, to)
         /\ Referred(next)
<1> DEFINE P == PointsTo(s, to)
           mid == [s EXCEPT !.points = P]
           J == Resolved(mid, JumpsTo(s, to))
           R == RangesTo(s, to)
<1>1. next = [s EXCEPT !.points = P, !.ranges = R, !.jumps = J]
  BY DEF Remapped, PointsTo, RangesTo, JumpsTo
<1>2. mid.points = P
  BY DEF HasFields
<1> HIDE DEF P, R, mid
<1>3. /\ J \subseteq JumpsTo(s, to)
      /\ \A j \in J : /\ j.segno \in {0} \union IdsOf({p \in P : p.kind = "segno"})
                      /\ j.coda \in {0} \union IdsOf({p \in P : p.kind = "coda"})
  BY <1>2 DEF Resolved, OfKind
<1> HIDE DEF J
<1>4. /\ HasFields(next) /\ next.lines = s.lines /\ next.spans = s.spans
      /\ next.points = P /\ next.ranges = R /\ next.jumps = J
  BY <1>1 DEF HasFields
<1>5. Referred(next)
  BY <1>3, <1>4 DEF Referred, OfKind
<1>6. QED
  BY <1>3, <1>4, <1>5 DEF P, R

LEMMA RemappedLaid ==
  ASSUME NEW s, NEW m, NEW n, NEW g, Laid(s, m, n, g), NEW to, Maps(to, n, m),
         NEW next, next = Remapped(s, to)
  PROVE  Laid(next, m, m, g) /\ Referred(next) /\ Remains(s, to, next)
<1>1. HasFields(s) /\ AreEntries(s) /\ AreSpans(s.spans) /\ Placed(s, n) /\ Unspent(s, g)
      /\ m \in Nat /\ n \in Nat
  BY DEF Laid, Standing
<1>2. /\ HasFields(next) /\ next.lines = s.lines /\ next.spans = s.spans
      /\ next.points = PointsTo(s, to) /\ next.ranges = RangesTo(s, to)
      /\ next.jumps \subseteq JumpsTo(s, to)
      /\ Referred(next)
  BY <1>1, RemappedFields
<1>3. ASSUME NEW q \in next.points
      PROVE  \E p \in s.points :
               /\ p.id = q.id /\ q.at = to[p.at] /\ to[p.at] # 0
               /\ q = [id |-> p.id, kind |-> p.kind, at |-> to[p.at], line |-> p.line]
  BY <1>1, <1>2, PointsMoved
<1>4. ASSUME NEW q \in next.jumps
      PROVE  \E j \in s.jumps :
               /\ j.id = q.id /\ q.at = to[j.at] /\ to[j.at] # 0
               /\ q = [id |-> j.id, kind |-> j.kind, at |-> to[j.at],
                       segno |-> j.segno, coda |-> j.coda, tocoda |-> j.tocoda]
  BY <1>1, <1>2, JumpsMoved
<1>5. ASSUME NEW q \in next.ranges
      PROVE  \E r \in s.ranges :
               /\ r.id = q.id /\ q.from = to[r.from] /\ q.to = to[r.to]
               /\ to[r.from] # 0 /\ to[r.to] # 0
               /\ q = [id |-> r.id, kind |-> r.kind, from |-> to[r.from], to |-> to[r.to]]
  BY <1>1, <1>2, RangesMoved
<1>6. Comes(s.points, next.points) /\ Comes(s.ranges, next.ranges) /\ Comes(s.jumps, next.jumps)
  BY <1>3, <1>4, <1>5 DEF Comes
<1>7. AreEntries(next)
  <2>1. \A p \in next.points : p = [id |-> p.id, kind |-> p.kind, at |-> p.at, line |-> p.line]
    BY <1>3
  <2>2. \A r \in next.ranges : r = [id |-> r.id, kind |-> r.kind, from |-> r.from, to |-> r.to]
    BY <1>5
  <2>3. \A j \in next.jumps : j = [id |-> j.id, kind |-> j.kind, at |-> j.at,
                                   segno |-> j.segno, coda |-> j.coda, tocoda |-> j.tocoda]
    BY <1>4
  <2>4. QED
    BY <2>1, <2>2, <2>3 DEF AreEntries
<1>8. Unique(next.points) /\ Unique(next.ranges) /\ Unique(next.jumps) /\ Unique(next.spans)
  <2>1. Unique(s.points) /\ Unique(s.ranges) /\ Unique(s.jumps) /\ Unique(s.spans)
    BY <1>1 DEF Placed
  <2>2. Unique(next.points)
    BY <1>3, <2>1 DEF Unique
  <2>3. Unique(next.ranges)
    BY <1>5, <2>1 DEF Unique
  <2>4. Unique(next.jumps)
    BY <1>4, <2>1 DEF Unique
  <2>5. QED
    BY <1>2, <2>1, <2>2, <2>3, <2>4
<1>9. \A i \in 1 .. n : to[i] # 0 => to[i] \in 1 .. m
  BY <1>1 DEF Maps
<1>10. \A p \in next.points \cup next.jumps : p.at \in 1 .. m
  <2>1. \A p \in s.points \cup s.jumps : p.at \in 1 .. n
    BY <1>1 DEF Placed
  <2>2. \A p \in next.points : p.at \in 1 .. m
    BY <1>3, <1>9, <2>1
  <2>3. \A p \in next.jumps : p.at \in 1 .. m
    BY <1>4, <1>9, <2>1
  <2>4. QED
    BY <2>2, <2>3
<1>11. ASSUME NEW q \in next.ranges
       PROVE  q.from \in 1 .. m /\ q.to \in q.from .. m
  <2>1. PICK r \in s.ranges : /\ q.from = to[r.from] /\ q.to = to[r.to]
                              /\ to[r.from] # 0 /\ to[r.to] # 0
    BY <1>5
  <2>2. r.from \in 1 .. n /\ r.to \in r.from .. n /\ r.to \in 1 .. n
    BY <1>1 DEF Placed
  <2>3. to[r.from] \in 1 .. m /\ to[r.to] \in 1 .. m /\ to[r.from] <= to[r.to]
    BY <1>9, <2>1, <2>2 DEF Maps
  <2>4. QED
    BY <1>1, <2>1, <2>3
<1>12. Placed(next, m)
  BY <1>8, <1>10, <1>11 DEF Placed
<1>13. Unspent(next, g)
  <2>1. \A e \in s.points \union s.ranges \union s.jumps : e.id \notin g + 1 .. MaxEdits
    BY <1>1 DEF Unspent
  <2>2. \A e \in next.points \union next.ranges \union next.jumps : e.id \notin g + 1 .. MaxEdits
    BY <1>6, <2>1 DEF Comes
  <2>3. QED
    BY <1>1, <1>2, <2>2 DEF Unspent
<1>14. Standing(next, m, g)
  BY <1>1, <1>2, <1>7, <1>12, <1>13 DEF Standing
<1>15. Laid(next, m, m, g)
  BY <1>1, <1>2, <1>14 DEF Laid
<1>16. \A p \in s.points : to[p.at] # 0 => \E q \in next.points : q.id = p.id /\ q.kind = p.kind
  BY <1>1, <1>2, PointsKept
<1>17. QED
  BY <1>2, <1>6, <1>15, <1>16 DEF Remains

-----------------------------------------------------------------------------
(* Spans *)

LEMMA LaidLater ==
  ASSUME NEW s, NEW m, NEW n, NEW g, Laid(s, m, n, g), NEW k \in Nat, n <= k, NEW h \in Nat, g <= h
  PROVE  Laid(s, m, k, h)
BY StandingLater DEF Laid

\* Fewer spans.
LEMMA LaidFewer ==
  ASSUME NEW s, NEW m, NEW n, NEW g, Laid(s, m, n, g), NEW spans \in SUBSET s.spans,
         NEW next, next = [s EXCEPT !.spans = spans]
  PROVE  Laid(next, m, n, g)
<1>1. /\ HasFields(next) /\ next.lines = s.lines /\ next.spans = spans /\ next.points = s.points
      /\ next.ranges = s.ranges /\ next.jumps = s.jumps
  BY DEF Laid, HasFields
<1>2. AreEntries(s) /\ AreSpans(s.spans) /\ Placed(s, n) /\ Unspent(s, g)
  BY DEF Laid, Standing
<1>3. AreEntries(next)
  BY <1>1, <1>2 DEF AreEntries
<1>4. AreSpans(next.spans)
  BY <1>1, <1>2 DEF AreSpans
<1>5. Placed(next, n)
  BY <1>1, <1>2 DEF Placed, Unique
<1>6. Unspent(next, g)
  BY <1>1, <1>2 DEF Unspent
<1>7. QED
  BY <1>1, <1>3, <1>4, <1>5, <1>6 DEF Laid, Standing

\* Spans of the next edit.
Minted(spans, g) == AreSpans(spans) /\ Unique(spans) /\ \A x \in spans : x.id[1] = g

LEMMA LaidMore ==
  ASSUME NEW s, NEW m, NEW n, NEW g, Laid(s, m, n, g), g < MaxEdits,
         NEW spans, Minted(spans, g + 1),
         NEW next, next = [s EXCEPT !.spans = @ \union spans]
  PROVE  Laid(next, m, n, g + 1)
<1>0. g \in Nat /\ MaxEdits \in Nat /\ g + 1 \in Nat /\ g <= g + 1 /\ n \in Nat /\ n <= n
  BY ScoreEditsAssumption DEF Laid
<1>1. /\ HasFields(next) /\ next.lines = s.lines /\ next.spans = s.spans \cup spans
      /\ next.points = s.points /\ next.ranges = s.ranges /\ next.jumps = s.jumps
  BY DEF Laid, HasFields
<1>2. AreEntries(s) /\ AreSpans(s.spans) /\ Placed(s, n) /\ Unspent(s, g)
  BY DEF Laid, Standing
<1>3. g + 1 \in g + 1 .. MaxEdits /\ g + 1 \notin (g + 1) + 1 .. MaxEdits
  BY <1>0
<1>4. \A x \in s.spans : x.id[1] # g + 1
  BY <1>2, <1>3 DEF Unspent
<1>5. Unspent(s, g + 1)
  BY <1>0, StandingLater DEF Laid, Standing
<1>6. AreEntries(next)
  BY <1>1, <1>2 DEF AreEntries
<1>7. AreSpans(next.spans)
  BY <1>1, <1>2 DEF AreSpans, Minted
<1>8. Unique(next.spans)
  <2>1. Unique(s.spans) /\ Unique(spans) /\ \A x \in spans : x.id[1] = g + 1
    BY <1>2 DEF Placed, Minted
  <2>2. QED
    BY <1>1, <1>4, <2>1 DEF Unique
<1>9. Placed(next, n)
  BY <1>1, <1>2, <1>8 DEF Placed
<1>10. Unspent(next, g + 1)
  BY <1>1, <1>3, <1>5 DEF Unspent, Minted
<1>11. QED
  BY <1>0, <1>1, <1>6, <1>7, <1>9, <1>10 DEF Laid, Standing

\* w is the id x with g, the edit that carried its span over, put before it.
IsPrefixed(x, g, w) ==
  /\ IsSequence(w) /\ w # <<>> /\ w[1] = g
  /\ Len(w) = Len(x) + 1 /\ Len(x) \in Nat /\ x = [i \in 1 .. Len(x) |-> x[i]]
  /\ \A i \in 1 .. Len(x) : w[i + 1] = x[i]

LEMMA Prefixing ==
  ASSUME NEW x, IsSequence(x), NEW g, NEW v, v = <<g>> \o x
  PROVE  IsPrefixed(x, g, v)
<1> DEFINE S == {x[i] : i \in DOMAIN x} \cup {g}
           y == <<g>>
           n == Len(x)
<1>1. x \in Seq(S) /\ y \in Seq(S) /\ Len(y) = 1 /\ y[1] = g
  <2>1. \A T : T \subseteq S => Seq(T) \subseteq Seq(S)
    BY SeqDef
  <2>2. QED
    BY <2>1 DEF IsSequence
<1> HIDE DEF S, y
<1>2. n \in Nat /\ x = [i \in 1 .. n |-> x[i]]
  BY <1>1
<1>3. /\ y \o x \in Seq(S) /\ Len(y \o x) = Len(y) + Len(x)
      /\ \A i \in 1 .. Len(y) + Len(x) : (y \o x)[i] = IF i <= Len(y) THEN y[i] ELSE x[i - Len(y)]
  BY <1>1, ConcatProperties
<1> DEFINE w == y \o x
<1> HIDE DEF n, w
<1>4. /\ w \in Seq(S) /\ Len(w) = 1 + n
      /\ \A i \in 1 .. 1 + n : w[i] = IF i <= 1 THEN y[i] ELSE x[i - 1]
  BY <1>1, <1>3 DEF n, w
<1>5. Len(w) = n + 1 /\ w[1] = g /\ w # <<>>
  <2>1. 1 \in 1 .. 1 + n /\ 1 + n # 0 /\ 1 + n = n + 1
    BY <1>2
  <2>2. QED
    BY <1>1, <1>4, <2>1
<1>6. \A i \in 1 .. n : w[i + 1] = x[i]
  <2>1. \A i \in 1 .. n : i + 1 \in 1 .. 1 + n /\ ~(i + 1 <= 1) /\ (i + 1) - 1 = i
    BY <1>2
  <2>2. QED
    BY <1>4, <2>1
<1>7. IsSequence(w)
  BY <1>4, SequenceIs
<1>8. QED
  BY <1>2, <1>5, <1>6, <1>7 DEF IsPrefixed, n, w, y

LEMMA PrefixingApart ==
  ASSUME NEW x, IsSequence(x), NEW y, IsSequence(y), NEW g, <<g>> \o x = <<g>> \o y
  PROVE  x = y
<1> DEFINE n == Len(x)
           k == Len(y)
           w == <<g>> \o x
<1>1. w = <<g>> \o x /\ w = <<g>> \o y
  OBVIOUS
<1> HIDE DEF w
<1>2. IsPrefixed(x, g, w) /\ IsPrefixed(y, g, w)
  BY <1>1, Prefixing
<1>3. n \in Nat /\ k \in Nat /\ n + 1 = k + 1
  BY <1>2 DEF IsPrefixed
<1>4. x = [i \in 1 .. n |-> x[i]] /\ \A i \in 1 .. n : x[i] = w[i + 1]
  BY <1>2 DEF IsPrefixed
<1>5. y = [i \in 1 .. k |-> y[i]] /\ \A i \in 1 .. k : y[i] = w[i + 1]
  BY <1>2 DEF IsPrefixed
<1> HIDE DEF n, k
<1>6. n = k
  BY <1>3
<1>7. QED
  BY <1>4, <1>5, <1>6

LEMMA CarriedMinted ==
  ASSUME NEW new, NEW spans, AreSpans(spans), Unique(spans), NEW g
  PROVE  Minted(SpansCarried(new, spans, g), g)
<1> DEFINE carried == SpansCarried(new, spans, g)
<1>1. ASSUME NEW y \in carried
      PROVE  \E x \in spans : \E a, b :
               y = [id |-> <<g>> \o x.id, line |-> x.line, a |-> a, b |-> b]
  <2>1. PICK x \in spans :
          y = [x EXCEPT !.id = <<g>> \o @, !.a = Fresh(new, g, @), !.b = Fresh(new, g, @)]
    BY DEF SpansCarried
  <2> DEFINE i == <<g>> \o x.id
             a == Fresh(new, g, x.a)
             b == Fresh(new, g, x.b)
  <2>2. y = [x EXCEPT !.id = i, !.a = a, !.b = b]
    BY <2>1
  <2>3. x = [id |-> x.id, line |-> x.line, a |-> x.a, b |-> x.b]
    BY DEF AreSpans
  <2> HIDE DEF i, a, b
  <2>4. y = [id |-> i, line |-> x.line, a |-> a, b |-> b]
    BY <2>2, <2>3
  <2>5. QED
    BY <2>4 DEF i
<1> HIDE DEF carried
<1>2. \A x \in spans : IsSequence(x.id)
  BY DEF AreSpans
<1>3. AreSpans(carried)
  <2>1. ASSUME NEW y \in carried
        PROVE  /\ y = [id |-> y.id, line |-> y.line, a |-> y.a, b |-> y.b]
               /\ IsSequence(y.id) /\ y.id # <<>>
    <3>1. PICK x \in spans : \E a, b :
            y = [id |-> <<g>> \o x.id, line |-> x.line, a |-> a, b |-> b]
      BY <1>1
    <3>2. IsSequence(<<g>> \o x.id) /\ <<g>> \o x.id # <<>>
      BY <1>2, Prefixing DEF IsPrefixed
    <3> DEFINE i == <<g>> \o x.id
    <3>3. PICK a, b : y = [id |-> i, line |-> x.line, a |-> a, b |-> b]
      BY <3>1
    <3>4. IsSequence(i) /\ i # <<>>
      BY <3>2
    <3> HIDE DEF i
    <3>5. QED
      BY <3>3, <3>4
  <2>2. QED
    BY <2>1 DEF AreSpans
<1>4. \A y \in carried : y.id[1] = g
  <2>1. ASSUME NEW y \in carried
        PROVE  y.id[1] = g
    <3>1. PICK x \in spans : y.id = <<g>> \o x.id
      BY <1>1
    <3>2. QED
      BY <1>2, <3>1, Prefixing DEF IsPrefixed
  <2>2. QED
    BY <2>1
<1>5. Unique(carried)
  <2>1. ASSUME NEW y \in carried, NEW z \in carried, y.id = z.id
        PROVE  y = z
    <3>1. PICK x \in spans : y = [x EXCEPT !.id = <<g>> \o @, !.a = Fresh(new, g, @),
                                           !.b = Fresh(new, g, @)]
      BY DEF carried, SpansCarried
    <3>2. PICK w \in spans : z = [w EXCEPT !.id = <<g>> \o @, !.a = Fresh(new, g, @),
                                           !.b = Fresh(new, g, @)]
      BY DEF carried, SpansCarried
    <3>3. y.id = <<g>> \o x.id /\ z.id = <<g>> \o w.id
      BY <3>1, <3>2 DEF AreSpans
    <3>4. x.id = w.id
      BY <1>2, <2>1, <3>3, PrefixingApart
    <3>5. x = w
      BY <3>4 DEF Unique
    <3>6. QED
      BY <3>1, <3>2, <3>5
  <2>2. QED
    BY <2>1 DEF Unique
<1>6. QED
  BY <1>3, <1>4, <1>5 DEF Minted, carried

-----------------------------------------------------------------------------
(* Edits of whole measures *)

LEMMA CountLaid ==
  ASSUME NEW s, NEW m, NEW n, NEW g, Laid(s, m, n, g)
  PROVE  Count(s) = m /\ m \in Nat /\ n \in Nat /\ g \in Nat
BY DEF Laid, Count

\* A score whose entries and references are in order.
Whole(s, m, g) == Laid(s, m, m, g) /\ Referred(s)

LEMMA WholeFlagged ==
  ASSUME NEW s, NEW m, NEW g, Whole(s, m, g), NEW had, NEW next, next = FlagOnlyLast(s, had)
  PROVE  Whole(next, m, g)
<1>1. Laid(next, m, m, g)
  BY FlaggedLaid DEF Whole
<1>2. SamePlaces(s, next)
  BY PlacesSame DEF FlagOnlyLast, EachVoice, Whole, Laid
<1>3. QED
  BY <1>1, <1>2, ReferredSame DEF Whole

LEMMA WholeMore ==
  ASSUME NEW s, NEW m, NEW g, Whole(s, m, g), g < MaxEdits, NEW spans, Minted(spans, g + 1),
         NEW next, next = [s EXCEPT !.spans = @ \union spans]
  PROVE  Whole(next, m, g + 1)
<1>1. Laid(next, m, m, g + 1)
  BY LaidMore DEF Whole
<1>2. SamePlaces(s, next)
  BY PlacesSame DEF Whole, Laid
<1>3. QED
  BY <1>1, <1>2, ReferredSame DEF Whole

LEMMA DuplicateLaid ==
  ASSUME NEW s, NEW m, NEW g, Laid(s, m, m, g), NEW a \in 1 .. m, NEW b \in a .. m,
         NEW after \in 0 .. m, NEW gen, NEW next, next = DuplicateRange(s, a, b, after, gen)
  PROVE  Whole(next, m + (b - a + 1), g)
<1> DEFINE k == b - a + 1
           new == Cloned(Captured(s, a, b), gen)
           mid == Inserted(s, new, after)
           to == InsertIdx(Count(s), after, k)
           moved == Remapped(mid, to)
<1>1. Count(s) = m /\ m \in Nat
  BY CountLaid
<1>2. Offered(new) /\ Len(new["p"]) = k
  <2> DEFINE had == Captured(s, a, b)
  <2>1. Offered(had) /\ Len(had["p"]) = k
    BY CapturedOffered
  <2> HIDE DEF had, k
  <2>2. IsBundle(had)
    BY <2>1 DEF Offered
  <2>3. Offered(Cloned(had, gen)) /\ Len(Cloned(had, gen)["p"]) = k
    BY <2>1, <2>2, ClonedOffered
  <2>4. QED
    BY <2>3 DEF had
<1>3. k \in Nat /\ after \in Nat /\ after <= m
  BY <1>1
<1>4. next = FlagOnlyLast(moved, EndsPartial(s))
  BY DEF DuplicateRange
<1> HIDE DEF k, new
<1>5. Laid(mid, m + k, m, g)
  BY <1>1, <1>2, <1>3, InsertedLaid
<1>6. Maps(to, m, m + k)
  BY <1>1, <1>3, InsertMaps
<1> HIDE DEF mid, to
<1>7. Whole(moved, m + k, g)
  BY <1>5, <1>6, RemappedLaid DEF Whole
<1> HIDE DEF moved
<1>8. Whole(next, m + k, g)
  BY <1>4, <1>7, WholeFlagged
<1>9. QED
  BY <1>8 DEF k

LEMMA SpansOutsideAre == \A s, a, b : SpansOutside(s, a, b) \subseteq s.spans
BY DEF SpansOutside

LEMMA DeleteLaid ==
  ASSUME NEW s, NEW m, NEW g, Laid(s, m, m, g), NEW a \in 1 .. m, NEW b \in a .. m,
         NEW next, next = DeleteRange(s, a, b)
  PROVE  Whole(next, (a - 1) + 0 + (m - b), g)
<1> DEFINE k == (a - 1) + 0 + (m - b)
           mid == Replaced(s, a, b, Nothing)
           cut == [mid EXCEPT !.spans = SpansOutside(s, a, b)]
           to == ReplaceIdx(Count(s), a, b, 0)
           moved == Remapped(cut, to)
<1>1. Count(s) = m /\ m \in Nat
  BY CountLaid
<1>2. Laid(mid, k, m, g)
  BY NothingOffered, ReplacedLaid
<1>3. mid.spans = s.spans
  BY DEF Replaced, EachVoice, Laid, HasFields
<1>4. next = FlagOnlyLast(moved, EndsPartial(s))
  BY DEF DeleteRange
<1>5. Maps(to, m, k)
  BY <1>1, ReplaceMaps
<1>6. SpansOutside(s, a, b) \in SUBSET mid.spans
  BY <1>3, SpansOutsideAre
<1> HIDE DEF k, mid
<1>7. Laid(cut, k, m, g)
  BY <1>2, <1>6, LaidFewer
<1> HIDE DEF cut, to
<1>8. Whole(moved, k, g)
  BY <1>5, <1>7, RemappedLaid DEF Whole
<1> HIDE DEF moved
<1>9. Whole(next, k, g)
  BY <1>4, <1>8, WholeFlagged
<1>10. QED
  BY <1>9 DEF k

LEMMA InsertLaid ==
  ASSUME NEW s, NEW m, NEW g, Laid(s, m, m, g), g < MaxEdits, NEW new, Offered(new),
         NEW spans, Minted(spans, g + 1), NEW after \in 0 .. m,
         NEW next, next = InsertMeasuresAfter(s, new, spans, after)
  PROVE  \E n : Whole(next, n, g + 1)
<1> DEFINE k == Len(new["p"])
           mid == Inserted(s, new, after)
           to == InsertIdx(Count(s), after, k)
           moved == Remapped(mid, to)
<1>1. Count(s) = m /\ m \in Nat /\ after \in Nat /\ after <= m
  BY CountLaid
<1>2. next = [moved EXCEPT !.spans = @ \union spans]
  BY DEF InsertMeasuresAfter
<1> HIDE DEF k
<1>3. Laid(mid, m + k, m, g) /\ k \in Nat
  BY <1>1, InsertedLaid DEF k
<1>4. Maps(to, m, m + k)
  BY <1>1, <1>3, InsertMaps
<1> HIDE DEF mid, to
<1>5. Whole(moved, m + k, g)
  BY <1>3, <1>4, RemappedLaid DEF Whole
<1> HIDE DEF moved
<1>6. Whole(next, m + k, g + 1)
  BY <1>2, <1>5, WholeMore
<1>7. QED
  BY <1>6

LEMMA RegionLaid ==
  ASSUME NEW s, NEW m, NEW g, Laid(s, m, m, g), g < MaxEdits, NEW new, Offered(new),
         NEW spans, Minted(spans, g + 1), NEW a \in 1 .. m, NEW b \in a .. m,
         NEW next, next = RegionReplace(s, a, b, new, spans)
  PROVE  \E n : Whole(next, n, g + 1)
<1> DEFINE k == Len(new["p"])
           n == (a - 1) + k + (m - b)
           mid == Replaced(s, a, b, new)
           cut == [mid EXCEPT !.spans = SpansOutside(s, a, b)]
           to == ReplaceIdx(Count(s), a, b, k)
           moved == Remapped(cut, to)
<1>1. Count(s) = m /\ m \in Nat
  BY CountLaid
<1>2. next = [moved EXCEPT !.spans = @ \union spans]
  BY DEF RegionReplace
<1>3. Laid(mid, n, m, g) /\ k \in Nat
  BY ReplacedLaid
<1>4. mid.spans = s.spans
  BY DEF Replaced, EachVoice, Laid, HasFields
<1>5. SpansOutside(s, a, b) \in SUBSET mid.spans
  BY <1>4, SpansOutsideAre
<1> HIDE DEF k
<1>6. Maps(to, m, n)
  BY <1>1, <1>3, ReplaceMaps
<1> HIDE DEF n, mid
<1>7. Laid(cut, n, m, g)
  BY <1>3, <1>5, LaidFewer
<1> HIDE DEF cut, to
<1>8. Whole(moved, n, g)
  BY <1>6, <1>7, RemappedLaid DEF Whole
<1> HIDE DEF moved
<1>9. Whole(next, n, g + 1)
  BY <1>2, <1>8, WholeMore
<1>10. QED
  BY <1>9

LEMMA NoneMinted == \A g : Minted({}, g)
BY DEF Minted, AreSpans, Unique

-----------------------------------------------------------------------------
(* The move of measures *)

\* Without the entries that stand in a..b or reach into it.
LEMMA StrippedLaid ==
  ASSUME NEW s, NEW m, NEW g, Laid(s, m, m, g), NEW a, NEW b, NEW t, t = Stripped(s, a, b)
  PROVE  /\ Laid(t, m, m, g) /\ t.lines = s.lines /\ t.spans = s.spans
         /\ t.points = {p \in s.points : p.at \notin a .. b}
         /\ t.jumps = {j \in s.jumps : j.at \notin a .. b}
         /\ t.ranges \subseteq {r \in s.ranges : r.from \notin a .. b}
<1> DEFINE R == {r \in s.ranges : {r.from, r.to} \cap (a .. b) = {}}
           P == {p \in s.points : p.at \notin a .. b}
           J == {j \in s.jumps : j.at \notin a .. b}
<1>1. t = [s EXCEPT !.points = P, !.jumps = J, !.ranges = R]
  BY DEF Stripped
<1>2. R \subseteq s.ranges /\ R \subseteq {r \in s.ranges : r.from \notin a .. b}
      /\ P \subseteq s.points /\ J \subseteq s.jumps
  OBVIOUS
<1> HIDE DEF P, J, R
<1>3. /\ HasFields(t) /\ t.lines = s.lines /\ t.spans = s.spans
      /\ t.points = P /\ t.jumps = J /\ t.ranges = R
  BY <1>1 DEF Laid, HasFields
<1>4. AreEntries(s) /\ AreSpans(s.spans) /\ Placed(s, m) /\ Unspent(s, g)
  BY DEF Laid, Standing
<1>5. AreEntries(t)
  BY <1>2, <1>3, <1>4 DEF AreEntries
<1>6. Placed(t, m)
  <2>1. \A p \in t.points \union t.jumps : p.at \in 1 .. m
    BY <1>2, <1>3, <1>4 DEF Placed
  <2>2. \A r \in t.ranges : r.from \in 1 .. m /\ r.to \in r.from .. m
    BY <1>2, <1>3, <1>4 DEF Placed
  <2>3. Unique(t.points) /\ Unique(t.ranges) /\ Unique(t.jumps) /\ Unique(t.spans)
    BY <1>2, <1>3, <1>4 DEF Placed, Unique
  <2>4. QED
    BY <2>1, <2>2, <2>3 DEF Placed
<1>7. Unspent(t, g)
  BY <1>2, <1>3, <1>4 DEF Unspent
<1>8. Laid(t, m, m, g)
  BY <1>3, <1>4, <1>5, <1>6, <1>7 DEF Laid, Standing
<1>9. QED
  BY <1>2, <1>3, <1>8 DEF P, J

\* The entries of w are those of s that stand outside of a..b.
Outside(s, w, a, b) ==
  /\ \A x \in w.points : \E p \in s.points : p.id = x.id /\ p.at \notin a .. b
  /\ \A x \in w.jumps : \E j \in s.jumps : j.id = x.id /\ j.at \notin a .. b
  /\ \A x \in w.ranges : \E r \in s.ranges : r.id = x.id /\ r.from \notin a .. b
  /\ \A p \in s.points : p.at \notin a .. b =>
       \E x \in w.points : x.id = p.id /\ x.kind = p.kind

\* The entries of a..b, moved.
PointsShifted(s, a, b, d) == {[p EXCEPT !.at = @ + d] : p \in {q \in s.points : q.at \in a .. b}}
JumpsShifted(s, a, b, d) == {[j EXCEPT !.at = @ + d] : j \in {q \in s.jumps : q.at \in a .. b}}
RangesShifted(s, a, b, d) ==
  {[r EXCEPT !.from = @ + d, !.to = @ + d] :
     r \in {q \in s.ranges : {q.from, q.to} \subseteq a .. b}}

PointFrom(a, b, d, y, p) ==
  /\ p.at \in a .. b /\ y.id = p.id /\ y.kind = p.kind /\ y.at = p.at + d
  /\ y = [id |-> y.id, kind |-> y.kind, at |-> y.at, line |-> y.line]
  /\ y = [p EXCEPT !.at = @ + d]
JumpFrom(a, b, d, y, j) ==
  /\ j.at \in a .. b /\ y.id = j.id /\ y.at = j.at + d
  /\ y.segno = j.segno /\ y.coda = j.coda
  /\ y = [id |-> y.id, kind |-> y.kind, at |-> y.at,
          segno |-> y.segno, coda |-> y.coda, tocoda |-> y.tocoda]
  /\ y = [j EXCEPT !.at = @ + d]
RangeFrom(a, b, d, y, r) ==
  /\ r.from \in a .. b /\ r.to \in a .. b
  /\ y.id = r.id /\ y.from = r.from + d /\ y.to = r.to + d
  /\ y = [id |-> y.id, kind |-> y.kind, from |-> y.from, to |-> y.to]
  /\ y = [r EXCEPT !.from = @ + d, !.to = @ + d]

LEMMA Shifted ==
  ASSUME NEW s, AreEntries(s), NEW a, NEW b, NEW d
  PROVE  /\ \A y \in PointsShifted(s, a, b, d) : \E p \in s.points : PointFrom(a, b, d, y, p)
         /\ \A p \in s.points : p.at \in a .. b =>
              \E y \in PointsShifted(s, a, b, d) : y.id = p.id /\ y.kind = p.kind
         /\ \A y \in JumpsShifted(s, a, b, d) : \E j \in s.jumps : JumpFrom(a, b, d, y, j)
         /\ \A y \in RangesShifted(s, a, b, d) : \E r \in s.ranges : RangeFrom(a, b, d, y, r)
<1>1. ASSUME NEW p \in s.points, NEW y, y = [p EXCEPT !.at = @ + d]
      PROVE  /\ y.id = p.id /\ y.kind = p.kind /\ y.at = p.at + d
             /\ y = [id |-> y.id, kind |-> y.kind, at |-> y.at, line |-> y.line]
  <2>1. p = [id |-> p.id, kind |-> p.kind, at |-> p.at, line |-> p.line]
    BY DEF AreEntries
  <2> DEFINE to == p.at + d
  <2>2. y = [p EXCEPT !.at = to]
    BY <1>1
  <2> HIDE DEF to
  <2>3. y = [id |-> p.id, kind |-> p.kind, at |-> to, line |-> p.line]
    BY <2>1, <2>2
  <2>4. QED
    BY <2>3 DEF to
<1>2. ASSUME NEW j \in s.jumps, NEW y, y = [j EXCEPT !.at = @ + d]
      PROVE  /\ y.id = j.id /\ y.at = j.at + d /\ y.segno = j.segno /\ y.coda = j.coda
             /\ y = [id |-> y.id, kind |-> y.kind, at |-> y.at,
                     segno |-> y.segno, coda |-> y.coda, tocoda |-> y.tocoda]
  <2>1. j = [id |-> j.id, kind |-> j.kind, at |-> j.at,
             segno |-> j.segno, coda |-> j.coda, tocoda |-> j.tocoda]
    BY DEF AreEntries
  <2> DEFINE to == j.at + d
  <2>2. y = [j EXCEPT !.at = to]
    BY <1>2
  <2> HIDE DEF to
  <2>3. y = [id |-> j.id, kind |-> j.kind, at |-> to,
             segno |-> j.segno, coda |-> j.coda, tocoda |-> j.tocoda]
    BY <2>1, <2>2
  <2>4. QED
    BY <2>3 DEF to
<1>3. ASSUME NEW r \in s.ranges, NEW y, y = [r EXCEPT !.from = @ + d, !.to = @ + d]
      PROVE  /\ y.id = r.id /\ y.from = r.from + d /\ y.to = r.to + d
             /\ y = [id |-> y.id, kind |-> y.kind, from |-> y.from, to |-> y.to]
  <2>1. r = [id |-> r.id, kind |-> r.kind, from |-> r.from, to |-> r.to]
    BY DEF AreEntries
  <2> DEFINE f == r.from + d
             t == r.to + d
  <2>2. y = [r EXCEPT !.from = f, !.to = t]
    BY <1>3
  <2> HIDE DEF f, t
  <2>3. y = [id |-> r.id, kind |-> r.kind, from |-> f, to |-> t]
    BY <2>1, <2>2
  <2>4. QED
    BY <2>3 DEF f, t
<1>4. ASSUME NEW y \in PointsShifted(s, a, b, d)
      PROVE  \E p \in s.points : p.at \in a .. b /\ y = [p EXCEPT !.at = @ + d]
  BY DEF PointsShifted
<1>5. ASSUME NEW p \in s.points, p.at \in a .. b
      PROVE  [p EXCEPT !.at = @ + d] \in PointsShifted(s, a, b, d)
  BY <1>5 DEF PointsShifted
<1>6. ASSUME NEW y \in JumpsShifted(s, a, b, d)
      PROVE  \E j \in s.jumps : j.at \in a .. b /\ y = [j EXCEPT !.at = @ + d]
  BY DEF JumpsShifted
<1>7. ASSUME NEW y \in RangesShifted(s, a, b, d)
      PROVE  \E r \in s.ranges : r.from \in a .. b /\ r.to \in a .. b
                                 /\ y = [r EXCEPT !.from = @ + d, !.to = @ + d]
  BY DEF RangesShifted
<1>8. ASSUME NEW y \in PointsShifted(s, a, b, d)
      PROVE  \E p \in s.points : PointFrom(a, b, d, y, p)
  <2>1. PICK p \in s.points : p.at \in a .. b /\ y = [p EXCEPT !.at = @ + d]
    BY <1>4
  <2>2. QED
    BY <1>1, <2>1 DEF PointFrom
<1>9. \A p \in s.points : p.at \in a .. b =>
        \E y \in PointsShifted(s, a, b, d) : y.id = p.id /\ y.kind = p.kind
  BY <1>1, <1>5
<1>10. ASSUME NEW y \in JumpsShifted(s, a, b, d)
       PROVE  \E j \in s.jumps : JumpFrom(a, b, d, y, j)
  <2>1. PICK j \in s.jumps : j.at \in a .. b /\ y = [j EXCEPT !.at = @ + d]
    BY <1>6
  <2>2. QED
    BY <1>2, <2>1 DEF JumpFrom
<1>11. ASSUME NEW y \in RangesShifted(s, a, b, d)
       PROVE  \E r \in s.ranges : RangeFrom(a, b, d, y, r)
  <2>1. PICK r \in s.ranges : r.from \in a .. b /\ r.to \in a .. b
                              /\ y = [r EXCEPT !.from = @ + d, !.to = @ + d]
    BY <1>7
  <2>2. QED
    BY <1>3, <2>1 DEF RangeFrom
<1>12. QED
  BY <1>8, <1>9, <1>10, <1>11

LEMMA Reattaching ==
  ASSUME NEW s, NEW m, NEW g, Whole(s, m, g), NEW w, Whole(w, m, g),
         NEW a, NEW b, Outside(s, w, a, b),
         NEW d \in Int, \A i \in a .. b : i \in Int /\ i + d \in 1 .. m,
         NEW next, next = Reattached(w, InRange(s, a, b), d)
  PROVE  Whole(next, m, g)
<1> DEFINE P == PointsShifted(s, a, b, d)
           J == JumpsShifted(s, a, b, d)
           R == RangesShifted(s, a, b, d)
<1>1. next = [w EXCEPT !.points = @ \union P, !.jumps = @ \union J, !.ranges = @ \union R]
  BY DEF Reattached, InRange, PointsShifted, JumpsShifted, RangesShifted
<1> HIDE DEF P, J, R
<1>2. /\ HasFields(next) /\ next.lines = w.lines /\ next.spans = w.spans
      /\ next.points = w.points \cup P /\ next.jumps = w.jumps \cup J
      /\ next.ranges = w.ranges \cup R
  BY <1>1 DEF Whole, Laid, HasFields
<1>3. /\ AreEntries(s) /\ Placed(s, m) /\ Unspent(s, g) /\ Referred(s) /\ m \in Nat
      /\ AreEntries(w) /\ AreSpans(w.spans) /\ Placed(w, m) /\ Unspent(w, g) /\ Referred(w)
  BY DEF Whole, Laid, Standing
<1>4. \A y \in P : \E p \in s.points : PointFrom(a, b, d, y, p)
  BY <1>3, Shifted DEF P
<1>5. \A p \in s.points : p.at \in a .. b => \E y \in P : y.id = p.id /\ y.kind = p.kind
  BY <1>3, Shifted DEF P
<1>6. \A y \in J : \E j \in s.jumps : JumpFrom(a, b, d, y, j)
  BY <1>3, Shifted DEF J
<1>7. \A y \in R : \E r \in s.ranges : RangeFrom(a, b, d, y, r)
  BY <1>3, Shifted DEF R
<1>8. AreEntries(next)
  BY <1>2, <1>3, <1>4, <1>6, <1>7 DEF AreEntries, PointFrom, JumpFrom, RangeFrom
<1>9. Unique(next.points)
  <2>1. Unique(s.points) /\ Unique(w.points)
    BY <1>3 DEF Placed
  <2>2. ASSUME NEW x \in P, NEW y \in P, x.id = y.id
        PROVE  x = y
    <3>1. PICK p \in s.points : PointFrom(a, b, d, x, p)
      BY <1>4
    <3>2. PICK q \in s.points : PointFrom(a, b, d, y, q)
      BY <1>4
    <3>3. p = q
      BY <2>1, <2>2, <3>1, <3>2 DEF Unique, PointFrom
    <3>4. QED
      BY <3>1, <3>2, <3>3 DEF PointFrom
  <2>3. ASSUME NEW x \in w.points, NEW y \in P
        PROVE  x.id # y.id
    <3>1. PICK p \in s.points : p.id = x.id /\ p.at \notin a .. b
      BY DEF Outside
    <3>2. PICK q \in s.points : PointFrom(a, b, d, y, q)
      BY <1>4
    <3>3. QED
      BY <2>1, <3>1, <3>2 DEF Unique, PointFrom
  <2>4. QED
    BY <1>2, <2>1, <2>2, <2>3 DEF Unique
<1>10. Unique(next.jumps)
  <2>1. Unique(s.jumps) /\ Unique(w.jumps)
    BY <1>3 DEF Placed
  <2>2. ASSUME NEW x \in J, NEW y \in J, x.id = y.id
        PROVE  x = y
    <3>1. PICK p \in s.jumps : JumpFrom(a, b, d, x, p)
      BY <1>6
    <3>2. PICK q \in s.jumps : JumpFrom(a, b, d, y, q)
      BY <1>6
    <3>3. p = q
      BY <2>1, <2>2, <3>1, <3>2 DEF Unique, JumpFrom
    <3>4. QED
      BY <3>1, <3>2, <3>3 DEF JumpFrom
  <2>3. ASSUME NEW x \in w.jumps, NEW y \in J
        PROVE  x.id # y.id
    <3>1. PICK p \in s.jumps : p.id = x.id /\ p.at \notin a .. b
      BY DEF Outside
    <3>2. PICK q \in s.jumps : JumpFrom(a, b, d, y, q)
      BY <1>6
    <3>3. QED
      BY <2>1, <3>1, <3>2 DEF Unique, JumpFrom
  <2>4. QED
    BY <1>2, <2>1, <2>2, <2>3 DEF Unique
<1>11. Unique(next.ranges)
  <2>1. Unique(s.ranges) /\ Unique(w.ranges)
    BY <1>3 DEF Placed
  <2>2. ASSUME NEW x \in R, NEW y \in R, x.id = y.id
        PROVE  x = y
    <3>1. PICK p \in s.ranges : RangeFrom(a, b, d, x, p)
      BY <1>7
    <3>2. PICK q \in s.ranges : RangeFrom(a, b, d, y, q)
      BY <1>7
    <3>3. p = q
      BY <2>1, <2>2, <3>1, <3>2 DEF Unique, RangeFrom
    <3>4. QED
      BY <3>1, <3>2, <3>3 DEF RangeFrom
  <2>3. ASSUME NEW x \in w.ranges, NEW y \in R
        PROVE  x.id # y.id
    <3>1. PICK p \in s.ranges : p.id = x.id /\ p.from \notin a .. b
      BY DEF Outside
    <3>2. PICK q \in s.ranges : RangeFrom(a, b, d, y, q)
      BY <1>7
    <3>3. QED
      BY <2>1, <3>1, <3>2 DEF Unique, RangeFrom
  <2>4. QED
    BY <1>2, <2>1, <2>2, <2>3 DEF Unique
<1>12. \A p \in next.points \union next.jumps : p.at \in 1 .. m
  <2>1. \A y \in P \cup J : y.at \in 1 .. m
    BY <1>4, <1>6 DEF PointFrom, JumpFrom
  <2>2. \A p \in w.points \union w.jumps : p.at \in 1 .. m
    BY <1>3 DEF Placed
  <2>3. QED
    BY <1>2, <2>1, <2>2
<1>13. \A r \in next.ranges : r.from \in 1 .. m /\ r.to \in r.from .. m
  <2>1. \A r \in w.ranges : r.from \in 1 .. m /\ r.to \in r.from .. m
    BY <1>3 DEF Placed
  <2>2. ASSUME NEW y \in R
        PROVE  y.from \in 1 .. m /\ y.to \in y.from .. m
    <3>1. PICK r \in s.ranges : /\ r.from \in a .. b /\ r.to \in a .. b
                                /\ y.from = r.from + d /\ y.to = r.to + d
      BY <1>7 DEF RangeFrom
    <3>2. r.from \in 1 .. m /\ r.to \in r.from .. m
      BY <1>3 DEF Placed
    <3>3. r.from + d \in 1 .. m /\ r.to + d \in 1 .. m
      BY <3>1
    <3>4. r.from + d <= r.to + d
      BY <3>2
    <3>5. QED
      BY <1>3, <3>1, <3>3, <3>4
  <2>3. QED
    BY <1>2, <2>1, <2>2
<1>14. Placed(next, m)
  BY <1>2, <1>3, <1>9, <1>10, <1>11, <1>12, <1>13 DEF Placed
<1>15. Unspent(next, g)
  <2>1. \A e \in P \cup R \cup J : e.id \notin g + 1 .. MaxEdits
    BY <1>3, <1>4, <1>6, <1>7 DEF Unspent, PointFrom, JumpFrom, RangeFrom
  <2>2. QED
    BY <1>2, <1>3, <2>1 DEF Unspent
<1>16. Referred(next)
  <2>1. ASSUME NEW kind
        PROVE  /\ IdsOf(OfKind(s, kind)) \subseteq IdsOf(OfKind(next, kind))
               /\ IdsOf(OfKind(w, kind)) \subseteq IdsOf(OfKind(next, kind))
    <3>1. ASSUME NEW p \in s.points, p.kind = kind
          PROVE  \E q \in next.points : q.kind = kind /\ q.id = p.id
      <4>1. CASE p.at \in a .. b
        BY <1>2, <1>5, <3>1, <4>1
      <4>2. CASE p.at \notin a .. b
        BY <1>2, <3>1, <4>2 DEF Outside
      <4>3. QED
        BY <4>1, <4>2
    <3>2. IdsOf(OfKind(s, kind)) \subseteq IdsOf(OfKind(next, kind))
      BY <3>1 DEF IdsOf, OfKind
    <3>3. IdsOf(OfKind(w, kind)) \subseteq IdsOf(OfKind(next, kind))
      BY <1>2 DEF IdsOf, OfKind
    <3>4. QED
      BY <3>2, <3>3
  <2>2. ASSUME NEW j \in next.jumps
        PROVE  \E i \in w.jumps \cup s.jumps : i.segno = j.segno /\ i.coda = j.coda
    BY <1>2, <1>6 DEF JumpFrom
  <2>3. QED
    BY <1>3, <2>1, <2>2 DEF Referred
<1>17. Laid(next, m, m, g)
  BY <1>2, <1>3, <1>8, <1>14, <1>15 DEF Laid, Standing, Whole
<1>18. QED
  BY <1>16, <1>17 DEF Whole

LEMMA MoveLaid ==
  ASSUME NEW s, NEW m, NEW g, Whole(s, m, g), NEW a \in 1 .. m, NEW b \in a .. m,
         NEW after \in 0 .. m, after \notin (a - 1) .. b,
         NEW next, next = MoveRange(s, a, b, after)
  PROVE  Whole(next, m, g)
<1> DEFINE k == b - a + 1
           c == (a - 1) + 0 + (m - b)
           dest == IF after > b THEN after - k ELSE after
           d == dest + 1 - a
           t == Stripped(s, a, b)
           u == Replaced(t, a, b, Nothing)
           to == ReplaceIdx(Count(s), a, b, 0)
           left == Remapped(u, to)
           new == Captured(s, a, b)
           v == Inserted(left, new, dest)
           back == InsertIdx(Count(left), dest, k)
           moved == Remapped(v, back)
           put == Reattached(moved, InRange(s, a, b), d)
<1>1. next = FlagOnlyLast(put, EndsPartial(s))
  BY DEF MoveRange
<1>2. Laid(s, m, m, g) /\ Count(s) = m /\ m \in Nat /\ g \in Nat
  BY CountLaid DEF Whole
<1>3. /\ k \in Nat /\ c \in Nat /\ c + k = m
      /\ dest \in Nat /\ dest <= c /\ d \in Int
      /\ \A i \in a .. b : i \in Int /\ i + d \in 1 .. m
  <2>1. k \in Nat /\ c \in Nat /\ c + k = m
    BY <1>2
  <2>2. dest \in Nat /\ dest <= c
    BY <1>2
  <2>3. d \in Int
    BY <1>2, <2>2
  <2>4. ASSUME NEW i \in a .. b
        PROVE  i \in Int /\ i + d \in 1 .. m
    <3>1. i \in Int /\ a <= i /\ i <= b
      BY <1>2
    <3> HIDE DEF dest
    <3>2. i + d >= dest + 1 /\ i + d <= dest + k
      BY <1>2, <2>2, <3>1
    <3> HIDE DEF d, k, c
    <3>3. i + d \in Int
      BY <2>3, <3>1
    <3>4. QED
      BY <1>2, <2>1, <2>2, <3>1, <3>2, <3>3
  <2>5. QED
    BY <2>1, <2>2, <2>3, <2>4
<1>4. /\ Laid(t, m, m, g) /\ t.lines = s.lines
      /\ t.points = {p \in s.points : p.at \notin a .. b}
      /\ t.jumps = {j \in s.jumps : j.at \notin a .. b}
      /\ t.ranges \subseteq {r \in s.ranges : r.from \notin a .. b}
  BY <1>2, StrippedLaid
<1>a. /\ \A i \in 1 .. m : i \notin a .. b => to[i] # 0 /\ to[i] \in 1 .. c
      /\ Maps(to, m, c)
  <2>1. \A i \in 1 .. m : to[i] = IF i < a THEN i ELSE IF i > b THEN i + 0 - (b - a + 1) ELSE 0
    BY <1>2 DEF ReplaceIdx
  <2>2. Maps(to, m, c)
    BY <1>2, ReplaceMaps
  <2> HIDE DEF to
  <2>3. \A i \in 1 .. m : i \notin a .. b => to[i] # 0 /\ to[i] \in 1 .. c
    BY <1>2, <2>1
  <2>4. QED
    BY <2>2, <2>3
<1> HIDE DEF d, to
<1>5. Laid(u, c, m, g)
  <2> HIDE DEF t
  <2>1. QED
    BY <1>4, NothingOffered, ReplacedLaid
<1>6. u.points = t.points /\ u.jumps = t.jumps /\ u.ranges = t.ranges
  <2> HIDE DEF t
  <2>1. HasFields(t)
    BY <1>4 DEF Laid
  <2>2. SameEntries(t, u)
    BY <2>1, OtherLines DEF Replaced, EachVoice
  <2>3. QED
    BY <2>2 DEF SameEntries
<1> HIDE DEF t, u
<1>7. Laid(left, c, c, g) /\ Remains(u, to, left)
  BY <1>5, <1>a, RemappedLaid
<1> HIDE DEF left
<1>8. Offered(new) /\ Len(new["p"]) = k
  BY <1>2, CapturedOffered
<1> HIDE DEF new, dest, k, c
<1>9. Laid(v, c + k, c, g)
  BY <1>3, <1>7, <1>8, InsertedLaid
<1>10. v.points = left.points /\ v.jumps = left.jumps /\ v.ranges = left.ranges
  <2>1. HasFields(left)
    BY <1>7 DEF Laid
  <2>2. SameEntries(left, v)
    BY <2>1, OtherLines DEF Inserted, EachVoice
  <2>3. QED
    BY <2>2 DEF SameEntries
<1>11. Count(left) = c
  BY <1>7, CountLaid
<1>12. Maps(back, c, c + k) /\ \A i \in 1 .. c : back[i] # 0
  <2>1. Maps(back, c, c + k)
    BY <1>3, <1>11, InsertMaps
  <2>2. \A i \in 1 .. c : back[i] = IF i <= dest THEN i ELSE i + k
    BY <1>11 DEF InsertIdx
  <2> HIDE DEF back
  <2>3. QED
    BY <1>3, <2>1, <2>2
<1> HIDE DEF v, back
<1>13. Laid(moved, c + k, c + k, g) /\ Referred(moved) /\ Remains(v, back, moved)
  BY <1>9, <1>12, RemappedLaid
<1> HIDE DEF moved
<1>14. Whole(moved, m, g)
  BY <1>3, <1>13 DEF Whole
<1>15. Outside(s, moved, a, b)
  <2>1. Comes(t.points, left.points) /\ Comes(t.ranges, left.ranges) /\ Comes(t.jumps, left.jumps)
    BY <1>6, <1>7 DEF Remains
  <2>2. /\ Comes(left.points, moved.points) /\ Comes(left.ranges, moved.ranges)
        /\ Comes(left.jumps, moved.jumps)
    BY <1>10, <1>13 DEF Remains
  <2>3. \A x \in moved.points : \E p \in s.points : p.id = x.id /\ p.at \notin a .. b
    BY <1>4, <2>1, <2>2 DEF Comes
  <2>4. \A x \in moved.jumps : \E j \in s.jumps : j.id = x.id /\ j.at \notin a .. b
    BY <1>4, <2>1, <2>2 DEF Comes
  <2>5. \A x \in moved.ranges : \E r \in s.ranges : r.id = x.id /\ r.from \notin a .. b
    BY <1>4, <2>1, <2>2 DEF Comes
  <2>6. ASSUME NEW p \in s.points, p.at \notin a .. b
        PROVE  \E x \in moved.points : x.id = p.id /\ x.kind = p.kind
    <3>1. p \in u.points
      BY <1>4, <1>6, <2>6
    <3>2. p.at \in 1 .. m
      BY <1>2 DEF Laid, Standing, Placed
    <3>3. PICK q \in left.points : q.id = p.id /\ q.kind = p.kind
      BY <1>7, <1>a, <2>6, <3>1, <3>2 DEF Remains
    <3>4. q.at \in 1 .. c
      BY <1>7 DEF Laid, Standing, Placed
    <3>5. PICK x \in moved.points : x.id = q.id /\ x.kind = q.kind
      BY <1>10, <1>12, <1>13, <3>4 DEF Remains
    <3>6. QED
      BY <3>3, <3>5
  <2>7. QED
    BY <2>3, <2>4, <2>5, <2>6 DEF Outside
<1>16. Whole(put, m, g)
  BY <1>3, <1>14, <1>15, Reattaching
<1> HIDE DEF put
<1>17. QED
  BY <1>1, <1>16, WholeFlagged

-----------------------------------------------------------------------------
(* Edits of one voice *)

LEMMA RemoveWrites ==
  ASSUME NEW voice, NEW m, NEW i, NEW w \in RemoveBalanced(voice, m, i)
  PROVE  \E new : w = Writes(voice, new)
BY DEF RemoveBalanced

LEMMA MoveWithinWrites ==
  ASSUME NEW voice, NEW m, NEW i, NEW pos, NEW w \in MoveWithin(voice, m, i, pos)
  PROVE  \E new : w = Writes(voice, new)
BY DEF MoveWithin

LEMMA DropAtEndWrites ==
  ASSUME NEW voice, NEW m, NEW i, NEW d, NEW w \in DropAtEnd(voice, m, i, d)
  PROVE  \E new : w = Writes(voice, new)
BY DEF DropAtEnd

LEMMA DropBeforeWrites ==
  ASSUME NEW voice, NEW m, NEW i, NEW d, NEW at, NEW w \in DropBefore(voice, m, i, d, at)
  PROVE  \E new : w = Writes(voice, new)
BY DEF DropBefore

LEMMA MoveWrites ==
  ASSUME NEW voice, NEW m, NEW i, NEW d, NEW pos, NEW w \in MoveBalanced(voice, m, i, d, pos)
  PROVE  \E new : w = Writes(voice, new)
BY MoveWithinWrites, DropAtEndWrites, DropBeforeWrites DEF MoveBalanced

LEMMA ShrinkWrites ==
  ASSUME NEW voice, NEW m, NEW i, NEW u, NEW w \in Shrink(voice, m, i, u)
  PROVE  \E new : w = Writes(voice, new)
BY DEF Shrink

LEMMA GrowWrites ==
  ASSUME NEW voice, NEW m, NEW i, NEW u, NEW w \in Grow(voice, m, i, u)
  PROVE  \E new : w = Writes(voice, new)
BY DEF Grow

LEMMA ChangeWrites ==
  ASSUME NEW voice, NEW m, NEW i, NEW u, NEW w \in ChangeDurationBalanced(voice, m, i, u)
  PROVE  \E new : w = Writes(voice, new)
BY ShrinkWrites, GrowWrites DEF ChangeDurationBalanced

LEMMA WritesRewrites ==
  ASSUME NEW voice, IsVoice(voice), NEW new, NEW w, w = Writes(voice, new)
  PROVE  Rewritten(voice, w)
<1>1. w = [k \in DOMAIN voice |-> w[k]]
  BY DEF Writes
<1>2. ASSUME NEW k \in DOMAIN voice
      PROVE  w[k] = [uid |-> voice[k].uid, part |-> w[k].part, events |-> w[k].events]
  <2>1. voice[k] = [uid |-> voice[k].uid, part |-> voice[k].part, events |-> voice[k].events]
    BY DEF IsVoice
  <2>2. w[k] = IF k \in DOMAIN new THEN [voice[k] EXCEPT !.events = new[k], !.part = FALSE]
               ELSE voice[k]
    BY DEF Writes
  <2>3. QED
    BY <2>1, <2>2
<1>3. QED
  BY <1>1, <1>2 DEF Rewritten

-----------------------------------------------------------------------------
(* Whole scores after an edit of the voices *)

LEMMA WholeLater ==
  ASSUME NEW s, NEW m, NEW g, Whole(s, m, g)
  PROVE  Whole(s, m, g + 1)
<1>1. m \in Nat /\ g \in Nat /\ g + 1 \in Nat /\ m <= m /\ g <= g + 1
  BY DEF Whole, Laid
<1>2. QED
  BY <1>1, LaidLater DEF Whole

LEMMA WholeRewritten ==
  ASSUME NEW s, NEW m, NEW g, Whole(s, m, g),
         NEW lines, lines = [l \in DOMAIN s.lines |-> lines[l]],
         \A l \in DOMAIN s.lines : Rewritten(s.lines[l], lines[l]),
         NEW next, next = [s EXCEPT !.lines = lines]
  PROVE  Whole(next, m, g)
<1>1. Laid(next, m, m, g)
  BY LaidRewritten DEF Whole
<1>2. SamePlaces(s, next)
  BY PlacesSame DEF Whole, Laid
<1>3. QED
  BY <1>1, <1>2, ReferredSame DEF Whole

LEMMA VoicesAre ==
  ASSUME NEW s, NEW m, NEW g, Whole(s, m, g)
  PROVE  /\ HasFields(s) /\ "p" \in DOMAIN s.lines
         /\ s.lines = [l \in DOMAIN s.lines |-> s.lines[l]]
         /\ \A l \in DOMAIN s.lines : IsVoice(s.lines[l]) /\ Len(s.lines[l]) = m
BY DEF Whole, Laid, Matched, IsBundle

LEMMA WholeWritten ==
  ASSUME NEW s, NEW m, NEW g, Whole(s, m, g), NEW l \in DOMAIN s.lines, NEW new,
         NEW next, next = [s EXCEPT !.lines[l] = Writes(s.lines[l], new)]
  PROVE  Whole(next, m, g)
<1> DEFINE w == Writes(s.lines[l], new)
           lines == [k \in DOMAIN s.lines |-> IF k = l THEN w ELSE s.lines[k]]
<1>1. Rewritten(s.lines[l], w)
  BY VoicesAre, WritesRewrites
<1> HIDE DEF w
<1>2. s.lines = [k \in DOMAIN s.lines |-> s.lines[k]] /\ HasFields(s)
  BY VoicesAre
<1>3. [s.lines EXCEPT ![l] = w] = lines
  BY <1>2
<1>4. next = [s EXCEPT !.lines = lines]
  BY <1>3 DEF w
<1>5. lines = [k \in DOMAIN s.lines |-> lines[k]]
  OBVIOUS
<1>6. \A k \in DOMAIN s.lines : Rewritten(s.lines[k], lines[k])
  BY <1>1, VoicesAre, RewrittenSelf
<1> HIDE DEF lines
<1>7. QED
  BY <1>4, <1>5, <1>6, WholeRewritten

LEMMA WholeBackfilled ==
  ASSUME NEW s, NEW m, NEW g, Whole(s, m, g), NEW next, next = Backfilled(s)
  PROVE  Whole(next, m, g)
<1> DEFINE voice(l) == [k \in DOMAIN s.lines[l] |->
                          [s.lines[l][k] EXCEPT !.events = WithIds(l, k, @)]]
           lines == [l \in DOMAIN s.lines |-> voice(l)]
<1>1. next = [s EXCEPT !.lines = lines]
  BY DEF Backfilled, Voices
<1>2. ASSUME NEW l \in DOMAIN s.lines
      PROVE  Rewritten(s.lines[l], lines[l])
  <2> DEFINE q == s.lines[l]
  <2>1. IsVoice(q)
    BY VoicesAre
  <2>2. lines[l] = [k \in DOMAIN q |-> [q[k] EXCEPT !.events = WithIds(l, k, @)]]
    OBVIOUS
  <2> HIDE DEF q, lines
  <2>3. ASSUME NEW k \in DOMAIN q
        PROVE  lines[l][k] = [uid |-> q[k].uid, part |-> lines[l][k].part,
                              events |-> lines[l][k].events]
    <3>1. q[k] = [uid |-> q[k].uid, part |-> q[k].part, events |-> q[k].events]
      BY <2>1 DEF IsVoice
    <3> DEFINE x == WithIds(l, k, q[k].events)
    <3>2. lines[l][k] = [q[k] EXCEPT !.events = x]
      BY <2>2
    <3> HIDE DEF x
    <3>3. QED
      BY <3>1, <3>2
  <2>4. QED
    BY <2>2, <2>3 DEF Rewritten, q
<1>3. lines = [l \in DOMAIN s.lines |-> lines[l]]
  OBVIOUS
<1> HIDE DEF lines
<1>4. QED
  BY <1>1, <1>2, <1>3, WholeRewritten

LEMMA AppendedWhole ==
  ASSUME NEW s, NEW m, NEW g, Whole(s, m, g), NEW new, Offered(new),
         NEW next, next = AppendMeasures(s, new)
  PROVE  \E n : Whole(next, n, g)
<1> DEFINE k == Len(new["p"])
           mid == Inserted(s, new, Count(s))
<1>a. k = Len(new["p"])
  OBVIOUS
<1> HIDE DEF k
<1>b. Laid(s, m, m, g) /\ m \in Nat /\ g \in Nat
  BY DEF Whole, Laid
<1>1. Laid(next, m + k, m, g) /\ k \in Nat
  BY <1>a, <1>b, AppendedLaid
<1>2. m <= m + k /\ m + k \in Nat /\ g <= g
  BY <1>1, <1>b
<1>3. Laid(next, m + k, m + k, g)
  BY <1>1, <1>2, <1>b, LaidLater
<1>4. HasFields(s)
  BY VoicesAre
<1>5. SamePlaces(s, mid) /\ HasFields(mid)
  BY <1>4, PlacesSame, OtherLines DEF Inserted, EachVoice
<1>6. SamePlaces(mid, next)
  BY <1>5, PlacesSame DEF AppendMeasures, EachVoice
<1>7. SamePlaces(s, next)
  BY <1>5, <1>6 DEF SamePlaces
<1>8. Whole(next, m + k, g)
  BY <1>3, <1>7, ReferredSame DEF Whole
<1>9. QED
  BY <1>8

\* q has m measures of these names.
Named(q, m, name) == IsVoice(q) /\ Len(q) = m /\ \A i \in 1 .. m : q[i].uid = name[i]

AllNamed(w, m, name) == \A k \in DOMAIN w : Named(w[k], m, name)

LEMMA MatchedNamed ==
  ASSUME NEW w, w = [k \in DOMAIN w |-> w[k]], "p" \in DOMAIN w, NEW m, NEW name, AllNamed(w, m, name)
  PROVE  Matched(w) /\ Len(w["p"]) = m
<1>1. IsBundle(w) /\ Len(w["p"]) = m
  BY DEF AllNamed, Named, IsBundle
<1>2. \A k \in DOMAIN w : Len(w[k]) = m /\ \A i \in 1 .. m : w[k][i].uid = w["p"][i].uid
  BY DEF AllNamed, Named
<1>3. QED
  BY <1>1, <1>2 DEF Matched

\* One more voice, with rests for every measure.
WithRests(lines, l) ==
  [k \in DOMAIN lines \union {l} |->
     IF k = l THEN [i \in 1 .. Len(lines["p"]) |-> RestBar(lines["p"][i].uid)] ELSE lines[k]]

LEMMA RestsMatched ==
  ASSUME NEW lines, Matched(lines), NEW l, l # "p", NEW w, w = WithRests(lines, l)
  PROVE  Matched(w) /\ Len(w["p"]) = Len(lines["p"])
<1> DEFINE m == Len(lines["p"])
           rests == [k \in 1 .. m |-> RestBar(lines["p"][k].uid)]
<1>1. "p" \in DOMAIN lines /\ m \in Nat
  BY VoiceFacts DEF Matched, IsBundle
<1>2. IsVoice(rests) /\ Len(rests) = m
  <2>1. rests = [k \in 1 .. m |-> rests[k]]
    OBVIOUS
  <2>2. IsSequence(rests) /\ Len(rests) = m
    BY <1>1, <2>1, FunctionIs
  <2>3. \A k \in DOMAIN rests : rests[k] = [uid |-> rests[k].uid, part |-> rests[k].part,
                                            events |-> rests[k].events]
    BY DEF RestBar
  <2>4. QED
    BY <2>2, <2>3 DEF IsVoice
<1>3. \A k \in 1 .. m : rests[k].uid = lines["p"][k].uid
  BY DEF RestBar
<1>4. DOMAIN w = DOMAIN lines \union {l} /\ w = [k \in DOMAIN w |-> w[k]]
  BY DEF WithRests
<1> DEFINE name == [i \in 1 .. m |-> lines["p"][i].uid]
<1>5. \A i \in 1 .. m : name[i] = lines["p"][i].uid
  OBVIOUS
<1> HIDE DEF name
<1>6. \A k \in DOMAIN w : w[k] = rests \/ (k \in DOMAIN lines /\ w[k] = lines[k])
  BY DEF WithRests
<1> HIDE DEF rests, m
<1>7. Named(rests, m, name)
  BY <1>2, <1>3, <1>5 DEF Named
<1>8. \A k \in DOMAIN lines : Named(lines[k], m, name)
  BY <1>5 DEF Matched, IsBundle, Named, m
<1>9. AllNamed(w, m, name)
  BY <1>6, <1>7, <1>8 DEF AllNamed
<1>10. QED
  BY <1>1, <1>4, <1>9, MatchedNamed DEF m

LEMMA WholeLines ==
  ASSUME NEW s, NEW m, NEW g, Whole(s, m, g), NEW lines, Matched(lines), Len(lines["p"]) = m,
         NEW next, next = [s EXCEPT !.lines = lines]
  PROVE  Whole(next, m, g)
<1>1. m \in Nat
  BY DEF Whole, Laid
<1>2. Laid(next, m, m, g)
  BY <1>1, LaidLines DEF Whole
<1>3. SamePlaces(s, next)
  BY VoicesAre, PlacesSame
<1>4. QED
  BY <1>2, <1>3, ReferredSame DEF Whole

LEMMA FewerMatched ==
  ASSUME NEW lines, Matched(lines), NEW l, l # "p",
         NEW w, w = [k \in DOMAIN lines \ {l} |-> lines[k]]
  PROVE  Matched(w) /\ Len(w["p"]) = Len(lines["p"])
BY DEF Matched, IsBundle

-----------------------------------------------------------------------------
(* Entries that come, go and change *)

LEMMA FieldsPut ==
  ASSUME NEW s, HasFields(s), NEW x
  PROVE  /\ [s EXCEPT !["points"] = x] = [s EXCEPT !.points = x]
         /\ [s EXCEPT !["ranges"] = x] = [s EXCEPT !.ranges = x]
         /\ [s EXCEPT !["jumps"] = x] = [s EXCEPT !.jumps = x]
         /\ [s EXCEPT !["spans"] = x] = [s EXCEPT !.spans = x]
OBVIOUS

\* What the entries of a score are, one kind at a time.
PointsFit(points, m, g) ==
  /\ \A p \in points : /\ p = [id |-> p.id, kind |-> p.kind, at |-> p.at, line |-> p.line]
                       /\ p.at \in 1 .. m /\ p.id \notin (g + 1) .. MaxEdits
  /\ Unique(points)
JumpsFit(jumps, m, g) ==
  /\ \A j \in jumps : /\ j = [id |-> j.id, kind |-> j.kind, at |-> j.at, segno |-> j.segno,
                              coda |-> j.coda, tocoda |-> j.tocoda]
                      /\ j.at \in 1 .. m /\ j.id \notin (g + 1) .. MaxEdits
  /\ Unique(jumps)
RangesFit(ranges, m, g) ==
  /\ \A r \in ranges : /\ r = [id |-> r.id, kind |-> r.kind, from |-> r.from, to |-> r.to]
                       /\ r.from \in 1 .. m /\ r.to \in r.from .. m
                       /\ r.id \notin (g + 1) .. MaxEdits
  /\ Unique(ranges)
SpansFit(spans, g) ==
  /\ \A x \in spans : /\ x = [id |-> x.id, line |-> x.line, a |-> x.a, b |-> x.b]
                      /\ IsSequence(x.id) /\ x.id # <<>>
                      /\ x.id[1] \notin (g + 1) .. MaxEdits
  /\ Unique(spans)

EntriesFit(s, m, g) ==
  /\ PointsFit(s.points, m, g) /\ JumpsFit(s.jumps, m, g)
  /\ RangesFit(s.ranges, m, g) /\ SpansFit(s.spans, g)

LEMMA FitStanding ==
  ASSUME NEW s, NEW m, NEW g
  PROVE  EntriesFit(s, m, g) <=> Standing(s, m, g)
<1>1. ASSUME EntriesFit(s, m, g)
      PROVE  Standing(s, m, g)
  <2>1. AreEntries(s)
    BY <1>1 DEF EntriesFit, PointsFit, JumpsFit, RangesFit, AreEntries
  <2>2. AreSpans(s.spans)
    BY <1>1 DEF EntriesFit, SpansFit, AreSpans
  <2>3. Placed(s, m)
    BY <1>1 DEF EntriesFit, PointsFit, JumpsFit, RangesFit, SpansFit, Placed
  <2>4. Unspent(s, g)
    BY <1>1 DEF EntriesFit, PointsFit, JumpsFit, RangesFit, SpansFit, Unspent
  <2>5. QED
    BY <2>1, <2>2, <2>3, <2>4 DEF Standing
<1>2. ASSUME Standing(s, m, g)
      PROVE  EntriesFit(s, m, g)
  <2>1. PointsFit(s.points, m, g)
    BY <1>2 DEF Standing, AreEntries, Placed, Unspent, PointsFit
  <2>2. JumpsFit(s.jumps, m, g)
    BY <1>2 DEF Standing, AreEntries, Placed, Unspent, JumpsFit
  <2>3. RangesFit(s.ranges, m, g)
    BY <1>2 DEF Standing, AreEntries, Placed, Unspent, RangesFit
  <2>4. SpansFit(s.spans, g)
    BY <1>2 DEF Standing, AreSpans, Placed, Unspent, SpansFit
  <2>5. QED
    BY <2>1, <2>2, <2>3, <2>4 DEF EntriesFit
<1>3. QED
  BY <1>1, <1>2

LEMMA FitOf ==
  ASSUME NEW s, NEW m, NEW g, Whole(s, m, g)
  PROVE  /\ EntriesFit(s, m, g) /\ EntriesFit(s, m, g + 1) /\ HasFields(s) /\ Referred(s)
         /\ m \in Nat /\ g \in Nat
<1>1. Whole(s, m, g + 1)
  BY WholeLater
<1>2. Standing(s, m, g) /\ Standing(s, m, g + 1)
  BY <1>1 DEF Whole, Laid
<1>3. QED
  BY <1>2, FitStanding DEF Whole, Laid

\* A score with the same voices and fitting entries.
LEMMA FitWhole ==
  ASSUME NEW s, NEW m, NEW g, Whole(s, m, g), NEW next, HasFields(next), next.lines = s.lines,
         EntriesFit(next, m, g + 1), Referred(next)
  PROVE  Whole(next, m, g + 1)
<1>1. g \in Nat /\ g + 1 \in Nat
  BY DEF Whole, Laid
<1>2. Standing(next, m, g + 1)
  BY FitStanding
<1>3. QED
  BY <1>1, <1>2 DEF Whole, Laid

LEMMA WholePoints ==
  ASSUME NEW s, NEW m, NEW g, Whole(s, m, g), NEW points, PointsFit(points, m, g + 1),
         \A p \in s.points : p.kind \in {"segno", "coda"} =>
           \E q \in points : q.id = p.id /\ q.kind = p.kind,
         NEW next, next = [s EXCEPT !["points"] = points]
  PROVE  Whole(next, m, g + 1)
<1>1. HasFields(s)
  BY FitOf
<1>2. /\ HasFields(next) /\ next.lines = s.lines /\ next.points = points /\ next.ranges = s.ranges
      /\ next.jumps = s.jumps /\ next.spans = s.spans
  BY <1>1 DEF HasFields
<1>3. EntriesFit(next, m, g + 1)
  BY <1>2, FitOf DEF EntriesFit
<1>4. Referred(next)
  <2>1. \A kind \in {"segno", "coda"} : IdsOf(OfKind(s, kind)) \subseteq IdsOf(OfKind(next, kind))
    BY <1>2 DEF IdsOf, OfKind
  <2>2. Referred(s)
    BY FitOf
  <2>3. QED
    BY <1>2, <2>1, <2>2 DEF Referred
<1>5. QED
  BY <1>2, <1>3, <1>4, FitWhole

LEMMA WholeRanges ==
  ASSUME NEW s, NEW m, NEW g, Whole(s, m, g), NEW ranges, RangesFit(ranges, m, g + 1),
         NEW next, next = [s EXCEPT !["ranges"] = ranges]
  PROVE  Whole(next, m, g + 1)
<1>1. HasFields(s) /\ Referred(s)
  BY FitOf
<1>2. /\ HasFields(next) /\ next.lines = s.lines /\ next.points = s.points /\ next.ranges = ranges
      /\ next.jumps = s.jumps /\ next.spans = s.spans
  BY <1>1 DEF HasFields
<1>3. EntriesFit(next, m, g + 1)
  BY <1>2, FitOf DEF EntriesFit
<1>4. Referred(next)
  BY <1>1, <1>2, ReferredSame DEF SamePlaces
<1>5. QED
  BY <1>2, <1>3, <1>4, FitWhole

LEMMA WholeSpans ==
  ASSUME NEW s, NEW m, NEW g, Whole(s, m, g), NEW spans, SpansFit(spans, g + 1),
         NEW next, next = [s EXCEPT !["spans"] = spans]
  PROVE  Whole(next, m, g + 1)
<1>1. HasFields(s) /\ Referred(s)
  BY FitOf
<1>2. /\ HasFields(next) /\ next.lines = s.lines /\ next.points = s.points /\ next.ranges = s.ranges
      /\ next.jumps = s.jumps /\ next.spans = spans
  BY <1>1 DEF HasFields
<1>3. EntriesFit(next, m, g + 1)
  BY <1>2, FitOf DEF EntriesFit
<1>4. Referred(next)
  BY <1>1, <1>2, ReferredSame DEF SamePlaces
<1>5. QED
  BY <1>2, <1>3, <1>4, FitWhole

\* The segno and the coda the jump refers to are there.
Refers(s, j) ==
  /\ j.segno \in {0} \union IdsOf(OfKind(s, "segno"))
  /\ j.coda \in {0} \union IdsOf(OfKind(s, "coda"))

LEMMA WholeJumps ==
  ASSUME NEW s, NEW m, NEW g, Whole(s, m, g), NEW jumps, JumpsFit(jumps, m, g + 1),
         \A j \in jumps : Refers(s, j),
         NEW next, next = [s EXCEPT !["jumps"] = jumps]
  PROVE  Whole(next, m, g + 1)
<1>1. HasFields(s)
  BY FitOf
<1>2. /\ HasFields(next) /\ next.lines = s.lines /\ next.points = s.points /\ next.ranges = s.ranges
      /\ next.jumps = jumps /\ next.spans = s.spans
  BY <1>1 DEF HasFields
<1>3. EntriesFit(next, m, g + 1)
  BY <1>2, FitOf DEF EntriesFit
<1>4. Referred(next)
  BY <1>2 DEF Referred, Refers, OfKind
<1>5. QED
  BY <1>2, <1>3, <1>4, FitWhole

-----------------------------------------------------------------------------
(* The invariant and the steps *)

ClipStands == IsBundle(clip.new) /\ AreSpans(clip.spans) /\ Unique(clip.spans)

\* The score and the copied measures are in order.
ScoreInv == Whole(score, Count(score), edits) /\ ClipStands

LEMMA Became ==
  ASSUME ScoreInv, NEW next, NEW kind, Becomes(next, kind), NEW n, Whole(next, n, edits + 1)
  PROVE  ScoreInv'
<1>1. score' = next /\ edits' = edits + 1 /\ clip' = clip
  BY DEF Becomes
<1>2. Count(next) = n
  BY CountLaid DEF Whole
<1>3. Whole(score', Count(score'), edits')
  BY <1>1, <1>2
<1>4. ClipStands'
  BY <1>1 DEF ScoreInv, ClipStands
<1>5. QED
  BY <1>3, <1>4 DEF ScoreInv

LEMMA InitHolds ==
  ASSUME Init
  PROVE  ScoreInv
<1>1. PICK start \in Initial : score = start.score /\ clip = start.clip /\ edits = start.edits
  BY DEF Init
<1>2. /\ edits \in Nat /\ IsScore(score) /\ Aligned(score)
      /\ Placed(score, Count(score)) /\ Referred(score) /\ Unspent(score, edits)
      /\ ClipStands
  BY <1>1, ScoreEditsAssumption DEF ClipStands
<1>3. Laid(score, Count(score), Count(score), edits)
  BY <1>2, LaidIs
<1>4. QED
  BY <1>2, <1>3 DEF ScoreInv, Whole

LEMMA BalancedHolds ==
  ASSUME ScoreInv, NEW l \in Voices(score), NEW results, Balanced(l, results),
         \A w \in results : \E new : w = Writes(score.lines[l], new)
  PROVE  ScoreInv'
<1>1. PICK voice \in results : Becomes([score EXCEPT !.lines[l] = voice], "balanced")
  BY DEF Balanced
<1>2. PICK new : voice = Writes(score.lines[l], new)
  BY <1>1
<1> DEFINE next == [score EXCEPT !.lines[l] = voice]
<1>3. Whole(next, Count(score), edits)
  BY <1>2, WholeWritten DEF ScoreInv, Voices
<1> HIDE DEF next
<1>4. Whole(next, Count(score), edits + 1)
  BY <1>3, WholeLater
<1>5. QED
  BY <1>1, <1>4, Became DEF next

LEMMA EventsHold ==
  ASSUME ScoreInv, MoveEvent \/ ChangeDuration \/ RemoveEvent
  PROVE  ScoreInv'
<1>1. CASE MoveEvent
  <2>1. PICK l \in Voices(score) : \E x \in Spots(score.lines[l]),
                d \in Bars(score), pos \in 0..Capacity :
                  Balanced(l, MoveBalanced(score.lines[l], x[1], x[2], d, pos))
    BY <1>1 DEF MoveEvent
  <2>2. PICK x, d, pos : Balanced(l, MoveBalanced(score.lines[l], x[1], x[2], d, pos))
    BY <2>1
  <2>3. \A w \in MoveBalanced(score.lines[l], x[1], x[2], d, pos) :
          \E new : w = Writes(score.lines[l], new)
    BY MoveWrites
  <2>4. QED
    BY <2>2, <2>3, BalancedHolds
<1>2. CASE ChangeDuration
  <2>1. PICK l \in Voices(score) : \E x \in Spots(score.lines[l]), u \in Durations :
                  Balanced(l, ChangeDurationBalanced(score.lines[l], x[1], x[2], u))
    BY <1>2 DEF ChangeDuration
  <2>2. PICK x, u : Balanced(l, ChangeDurationBalanced(score.lines[l], x[1], x[2], u))
    BY <2>1
  <2>3. \A w \in ChangeDurationBalanced(score.lines[l], x[1], x[2], u) :
          \E new : w = Writes(score.lines[l], new)
    BY ChangeWrites
  <2>4. QED
    BY <2>2, <2>3, BalancedHolds
<1>3. CASE RemoveEvent
  <2>1. PICK l \in Voices(score) : \E x \in Spots(score.lines[l]) :
                  Balanced(l, RemoveBalanced(score.lines[l], x[1], x[2]))
    BY <1>3 DEF RemoveEvent
  <2>2. PICK x : Balanced(l, RemoveBalanced(score.lines[l], x[1], x[2]))
    BY <2>1
  <2>3. \A w \in RemoveBalanced(score.lines[l], x[1], x[2]) :
          \E new : w = Writes(score.lines[l], new)
    BY RemoveWrites
  <2>4. QED
    BY <2>2, <2>3, BalancedHolds
<1>4. QED
  BY <1>1, <1>2, <1>3

LEMMA Standings ==
  ASSUME ScoreInv
  PROVE  /\ Count(score) \in Nat /\ edits \in Nat
         /\ Laid(score, Count(score), Count(score), edits)
         /\ Whole(score, Count(score), edits)
         /\ \A r \in Stretches : r[1] \in 1 .. Count(score) /\ r[2] \in r[1] .. Count(score)
<1>1. Laid(score, Count(score), Count(score), edits)
  BY DEF ScoreInv, Whole
<1>2. Count(score) \in Nat /\ edits \in Nat
  BY <1>1 DEF Laid
<1>3. \A r \in Stretches : r[1] \in 1 .. Count(score) /\ r[2] \in r[1] .. Count(score)
  BY <1>2 DEF Stretches, Bars
<1>4. QED
  BY <1>1, <1>2, <1>3 DEF ScoreInv

LEMMA MeasuresHold ==
  ASSUME ScoreInv, AddMeasure \/ Duplicate \/ Delete \/ Move
  PROVE  ScoreInv'
<1> DEFINE m == Count(score)
<1>1. /\ m \in Nat /\ edits \in Nat /\ Laid(score, m, m, edits) /\ Whole(score, m, edits)
      /\ \A r \in Stretches : r[1] \in 1 .. m /\ r[2] \in r[1] .. m
  BY Standings
<1> HIDE DEF m
<1>2. CASE AddMeasure
  <2> DEFINE new == [l \in {"p"} |-> <<RestBar(<<Gen, 1>>)>>]
             next == Inserted(score, new, m)
  <2>1. Becomes(next, "bars")
    BY <1>2 DEF AddMeasure, m
  <2>2. Offered(new) /\ Len(new["p"]) = 1
    BY RestOffered
  <2> HIDE DEF new
  <2>3. Laid(next, m + 1, m, edits)
    <3>1. m <= m /\ 1 = Len(new["p"])
      BY <1>1, <2>2
    <3>2. QED
      BY <1>1, <2>2, <3>1, InsertedLaid
  <2>4. HasFields(score) /\ Referred(score)
    BY <1>1, FitOf
  <2>5. Referred(next)
    BY <2>4, PlacesSame, ReferredSame DEF Inserted, EachVoice
  <2> HIDE DEF next
  <2>6. Whole(next, m + 1, edits)
    <3>1. m + 1 \in Nat /\ m <= m + 1 /\ edits <= edits
      BY <1>1
    <3>2. Laid(next, m + 1, m + 1, edits)
      BY <1>1, <2>3, <3>1, LaidLater
    <3>3. QED
      BY <2>5, <3>2 DEF Whole
  <2>7. QED
    BY <2>1, <2>6, WholeLater, Became
<1>3. CASE Duplicate
  <2>1. PICK r \in Stretches, after \in 0 .. m :
          Becomes(DuplicateRange(score, r[1], r[2], after, Gen), "bars")
    BY <1>3 DEF Duplicate, m
  <2> DEFINE next == DuplicateRange(score, r[1], r[2], after, Gen)
  <2>2. Whole(next, m + (r[2] - r[1] + 1), edits)
    BY <1>1, DuplicateLaid
  <2> HIDE DEF next
  <2>3. QED
    BY <2>1, <2>2, WholeLater, Became DEF next
<1>4. CASE Delete
  <2>1. PICK r \in Stretches : Becomes(DeleteRange(score, r[1], r[2]), "bars")
    BY <1>4 DEF Delete
  <2> DEFINE next == DeleteRange(score, r[1], r[2])
  <2>2. Whole(next, (r[1] - 1) + 0 + (m - r[2]), edits)
    BY <1>1, DeleteLaid
  <2> HIDE DEF next
  <2>3. QED
    BY <2>1, <2>2, WholeLater, Became DEF next
<1>5. CASE Move
  <2>1. PICK r \in Stretches, after \in 0 .. m :
          after \notin (r[1] - 1)..r[2] /\ Becomes(MoveRange(score, r[1], r[2], after), "move")
    BY <1>5 DEF Move, m
  <2> DEFINE next == MoveRange(score, r[1], r[2], after)
  <2>2. Whole(next, m, edits)
    BY <1>1, <2>1, MoveLaid
  <2> HIDE DEF next
  <2>3. QED
    BY <2>1, <2>2, WholeLater, Became DEF next
<1>6. QED
  BY <1>2, <1>3, <1>4, <1>5

LEMMA CopyHolds ==
  ASSUME ScoreInv, Copy
  PROVE  ScoreInv'
<1>1. PICK r \in Stretches :
        clip' = [new   |-> Captured(score, r[1], r[2]), spans |-> SpansInside(score, r[1], r[2])]
  BY DEF Copy
<1>2. Offered(Captured(score, r[1], r[2]))
  BY Standings, CapturedOffered
<1>3. SpansInside(score, r[1], r[2]) \subseteq score.spans
  BY DEF SpansInside
<1>4. AreSpans(score.spans) /\ Unique(score.spans)
  BY Standings DEF Laid, Standing, Placed
<1>5. IsBundle(clip'.new) /\ clip'.spans \subseteq score.spans
  BY <1>1, <1>2, <1>3 DEF Offered
<1>6. ClipStands'
  BY <1>4, <1>5 DEF ClipStands, AreSpans, Unique
<1>7. Whole(score', Count(score'), edits')
  BY Standings, WholeLater DEF Copy
<1>8. QED
  BY <1>6, <1>7 DEF ScoreInv

LEMMA PastesHold ==
  ASSUME ScoreInv, PasteAfter \/ PasteOver
  PROVE  ScoreInv'
<1> DEFINE m == Count(score)
           new == Cloned(clip.new, Gen)
           spans == SpansCarried(clip.new, clip.spans, Gen)
<1>1. /\ m \in Nat /\ edits \in Nat /\ Laid(score, m, m, edits)
      /\ \A r \in Stretches : r[1] \in 1 .. m /\ r[2] \in r[1] .. m
  BY Standings
<1>2. Offered(new)
  BY ClonedOffered DEF ScoreInv, ClipStands
<1>3. Minted(spans, edits + 1)
  BY CarriedMinted DEF ScoreInv, ClipStands, Gen
<1> HIDE DEF m, new, spans
<1>4. CASE PasteAfter
  <2>1. PICK after \in Bars(score) :
          Becomes(InsertMeasuresAfter(score, new, spans, after), "paste")
    BY <1>4 DEF PasteAfter, new, spans
  <2>2. after \in 0 .. m
    BY <1>1, <2>1 DEF Bars, m
  <2> DEFINE next == InsertMeasuresAfter(score, new, spans, after)
  <2>3. edits < MaxEdits
    BY <2>1 DEF Becomes, More
  <2>4. PICK n : Whole(next, n, edits + 1)
    BY <1>1, <1>2, <1>3, <2>2, <2>3, InsertLaid
  <2> HIDE DEF next
  <2>5. QED
    BY <2>1, <2>4, Became DEF next
<1>5. CASE PasteOver
  <2>1. PICK r \in Stretches : Becomes(RegionReplace(score, r[1], r[2], new, spans), "paste")
    BY <1>5 DEF PasteOver, new, spans
  <2> DEFINE next == RegionReplace(score, r[1], r[2], new, spans)
  <2>2. edits < MaxEdits
    BY <2>1 DEF Becomes, More
  <2>3. PICK n : Whole(next, n, edits + 1)
    BY <1>1, <1>2, <1>3, <2>2, RegionLaid
  <2> HIDE DEF next
  <2>4. QED
    BY <2>1, <2>3, Became DEF next
<1>6. QED
  BY <1>4, <1>5

LEMMA AnsweredHolds ==
  ASSUME ScoreInv, NEW next, Answered(next), NEW n, Whole(next, n, edits + 1)
  PROVE  ScoreInv'
<1>1. PICK shown \in BOOLEAN : Becomes(IF shown THEN Backfilled(next) ELSE next, "model")
  BY DEF Answered
<1>2. Whole(IF shown THEN Backfilled(next) ELSE next, n, edits + 1)
  BY WholeBackfilled
<1>3. QED
  BY <1>1, <1>2, Became

LEMMA AnswersHold ==
  ASSUME ScoreInv, ExtendComposition \/ InsertMeasures \/ ReplaceRegion
  PROVE  ScoreInv'
<1> DEFINE m == Count(score)
<1>1. /\ m \in Nat /\ edits \in Nat /\ Laid(score, m, m, edits) /\ Whole(score, m, edits)
      /\ \A r \in Stretches : r[1] \in 1 .. m /\ r[2] \in r[1] .. m
  BY Standings
<1>2. edits < MaxEdits
  BY DEF ExtendComposition, InsertMeasures, ReplaceRegion, Answered, More
<1> HIDE DEF m
<1>3. CASE ExtendComposition
  <2>1. PICK content \in Contents : Answered(AppendMeasures(score, Answer(content)))
    BY <1>3 DEF ExtendComposition
  <2> DEFINE new == Answer(content)
             next == AppendMeasures(score, new)
  <2>2. Offered(new)
    BY AnswerOffered
  <2> HIDE DEF new
  <2>3. PICK n : Whole(next, n, edits)
    BY <1>1, <2>2, AppendedWhole
  <2> HIDE DEF next
  <2>4. QED
    BY <2>1, <2>3, WholeLater, AnsweredHolds DEF next, new
<1>4. CASE InsertMeasures
  <2>1. PICK content \in Contents, after \in 0 .. m :
          Answered(InsertMeasuresAfter(score, Answer(content), {}, after))
    BY <1>4 DEF InsertMeasures, m
  <2> DEFINE new == Answer(content)
             next == InsertMeasuresAfter(score, new, {}, after)
  <2>2. Offered(new)
    BY AnswerOffered
  <2> HIDE DEF new
  <2>3. PICK n : Whole(next, n, edits + 1)
    BY <1>1, <1>2, <2>2, NoneMinted, InsertLaid
  <2> HIDE DEF next
  <2>4. QED
    BY <2>1, <2>3, AnsweredHolds DEF next, new
<1>5. CASE ReplaceRegion
  <2>1. PICK content \in Contents, r \in Stretches :
          Answered(RegionReplace(score, r[1], r[2], Answer(content), {}))
    BY <1>5 DEF ReplaceRegion
  <2> DEFINE new == Answer(content)
             next == RegionReplace(score, r[1], r[2], new, {})
  <2>2. Offered(new)
    BY AnswerOffered
  <2> HIDE DEF new
  <2>3. PICK n : Whole(next, n, edits + 1)
    BY <1>1, <1>2, <2>2, NoneMinted, RegionLaid
  <2> HIDE DEF next
  <2>4. QED
    BY <2>1, <2>3, AnsweredHolds DEF next, new
<1>6. QED
  BY <1>3, <1>4, <1>5

LEMMA VoicesHold ==
  ASSUME ScoreInv, AddVoice \/ RemoveVoice \/ AddStaff \/ RemoveStaff
  PROVE  ScoreInv'
<1> DEFINE m == Count(score)
<1>1. Whole(score, m, edits) /\ Matched(score.lines) /\ Len(score.lines["p"]) = m
  BY Standings DEF Whole, Laid
<1>2. PICK l \in {"v", "s"} : AddLine(l) \/ RemoveLine(l)
  BY DEF AddVoice, RemoveVoice, AddStaff, RemoveStaff
<1>3. l # "p"
  BY <1>2
<1> HIDE DEF m
<1>4. CASE AddLine(l)
  <2> DEFINE lines == [k \in Voices(score) \union {l} |->
                         IF k = l THEN RestLine ELSE score.lines[k]]
             next == [score EXCEPT !.lines = lines]
  <2>1. Becomes(next, "voice")
    BY <1>4 DEF AddLine
  <2>2. lines = WithRests(score.lines, l)
    BY <1>1 DEF WithRests, RestLine, Bars, Voices, m, Count
  <2> HIDE DEF lines
  <2>3. Matched(lines) /\ Len(lines["p"]) = m
    BY <1>1, <1>3, <2>2, RestsMatched
  <2>4. Whole(next, m, edits)
    BY <1>1, <2>3, WholeLines
  <2> HIDE DEF next
  <2>5. QED
    BY <2>1, <2>4, WholeLater, Became
<1>5. CASE RemoveLine(l)
  <2> DEFINE lines == [k \in Voices(score) \ {l} |-> score.lines[k]]
             next == [score EXCEPT !.lines = lines]
  <2>1. Becomes(next, "voice")
    BY <1>5 DEF RemoveLine
  <2>2. Matched(lines) /\ Len(lines["p"]) = m
    BY <1>1, <1>3, FewerMatched DEF Voices
  <2> HIDE DEF lines
  <2>3. Whole(next, m, edits)
    BY <1>1, <2>2, WholeLines
  <2> HIDE DEF next
  <2>4. QED
    BY <2>1, <2>3, WholeLater, Became
<1>6. QED
  BY <1>2, <1>4, <1>5

LEMMA UniqueMore ==
  ASSUME NEW E, Unique(E), NEW x, \A e \in E : e.id # x.id
  PROVE  Unique(E \union {x})
BY DEF Unique

LEMMA UniqueFewer ==
  ASSUME NEW E, Unique(E), NEW F \in SUBSET E
  PROVE  Unique(F)
BY DEF Unique

LEMMA UniqueChanged ==
  ASSUME NEW E, Unique(E), NEW x \in E, NEW y, y.id = x.id
  PROVE  Unique((E \ {x}) \union {y})
BY DEF Unique

\* An edit that is yet to come mints ids no entry has.
LEMMA Minting ==
  ASSUME NEW m, NEW g \in Nat, g < MaxEdits
  PROVE  /\ g + 1 \in (g + 1) .. MaxEdits /\ g + 1 \notin (g + 1 + 1) .. MaxEdits
         /\ \A points : PointsFit(points, m, g) => \A p \in points : p.id # g + 1
         /\ \A jumps : JumpsFit(jumps, m, g) => \A j \in jumps : j.id # g + 1
         /\ \A ranges : RangesFit(ranges, m, g) => \A r \in ranges : r.id # g + 1
         /\ \A spans : SpansFit(spans, g) => \A x \in spans : x.id # <<g + 1>>
<1>1. g + 1 \in (g + 1) .. MaxEdits /\ g + 1 \notin (g + 1 + 1) .. MaxEdits
  BY ScoreEditsAssumption
<1>2. \A points : PointsFit(points, m, g) => \A p \in points : p.id # g + 1
  BY <1>1 DEF PointsFit
<1>3. \A jumps : JumpsFit(jumps, m, g) => \A j \in jumps : j.id # g + 1
  BY <1>1 DEF JumpsFit
<1>4. \A ranges : RangesFit(ranges, m, g) => \A r \in ranges : r.id # g + 1
  BY <1>1 DEF RangesFit
<1>5. \A spans : SpansFit(spans, g) => \A x \in spans : x.id # <<g + 1>>
  BY <1>1 DEF SpansFit
<1>6. QED
  BY <1>1, <1>2, <1>3, <1>4, <1>5

\* What the entries are before and after an edit of them.
LEMMA Fitting ==
  ASSUME ScoreInv
  PROVE  /\ EntriesFit(score, Count(score), edits) /\ EntriesFit(score, Count(score), edits + 1)
         /\ HasFields(score) /\ Referred(score) /\ Whole(score, Count(score), edits)
         /\ Count(score) \in Nat /\ edits \in Nat
BY FitOf DEF ScoreInv

LEMMA PointPut ==
  ASSUME ScoreInv, NEW kind, NEW at \in 1 .. Count(score), NEW l,
         Put("points", [id |-> Gen, kind |-> kind, at |-> at, line |-> l])
  PROVE  ScoreInv'
<1> DEFINE m == Count(score)
           p == [id |-> Gen, kind |-> kind, at |-> at, line |-> l]
           points == score.points \union {p}
           next == [score EXCEPT !["points"] = points]
<1>1. Becomes(next, "entry")
  BY DEF Put
<1>2. edits < MaxEdits
  BY <1>1 DEF Becomes, More
<1>3. PointsFit(score.points, m, edits) /\ PointsFit(score.points, m, edits + 1) /\ edits \in Nat
      /\ Whole(score, m, edits)
  BY Fitting DEF EntriesFit
<1>4. p.id = edits + 1 /\ p.at \in 1 .. m
      /\ p = [id |-> p.id, kind |-> p.kind, at |-> p.at, line |-> p.line]
  BY DEF Gen
<1> HIDE DEF p, m
<1>5. p.id \notin (edits + 1 + 1) .. MaxEdits /\ \A x \in score.points : x.id # p.id
  BY <1>2, <1>3, <1>4, Minting
<1>6. Unique(points)
  BY <1>3, <1>5, UniqueMore DEF PointsFit
<1>7. PointsFit(points, m, edits + 1)
  BY <1>3, <1>4, <1>5, <1>6 DEF PointsFit
<1>8. \A x \in score.points : \E y \in points : y.id = x.id /\ y.kind = x.kind
  OBVIOUS
<1> HIDE DEF points
<1>9. Whole(next, m, edits + 1)
  BY <1>3, <1>7, <1>8, WholePoints
<1>10. QED
  BY <1>1, <1>9, Became

LEMMA PointDropped ==
  ASSUME ScoreInv, NEW kind, kind \notin {"segno", "coda"}, Drop("points", {kind})
  PROVE  ScoreInv'
<1> DEFINE m == Count(score)
<1>1. PICK p \in score.points :
        p.kind = kind /\ Becomes([score EXCEPT !["points"] = score.points \ {p}], "entry")
  BY DEF Drop
<1> DEFINE points == score.points \ {p}
           next == [score EXCEPT !["points"] = points]
<1>2. PointsFit(score.points, m, edits + 1) /\ Whole(score, m, edits)
  BY Fitting DEF EntriesFit
<1>3. PointsFit(points, m, edits + 1)
  BY <1>2, UniqueFewer DEF PointsFit
<1>4. \A x \in score.points : x.kind \in {"segno", "coda"} =>
        \E y \in points : y.id = x.id /\ y.kind = x.kind
  BY <1>1
<1> HIDE DEF points, m
<1>5. Whole(next, m, edits + 1)
  BY <1>2, <1>3, <1>4, WholePoints
<1>6. QED
  BY <1>1, <1>5, Became DEF points

LEMMA PointChanged ==
  ASSUME ScoreInv, NEW p \in score.points, NEW at \in 1 .. Count(score),
         Change("points", p, [p EXCEPT !.at = at])
  PROVE  ScoreInv'
<1> DEFINE m == Count(score)
           q == [p EXCEPT !.at = at]
           points == (score.points \ {p}) \union {q}
           next == [score EXCEPT !["points"] = points]
<1>1. Becomes(next, "entry")
  BY DEF Change
<1>2. PointsFit(score.points, m, edits + 1) /\ Whole(score, m, edits)
  BY Fitting DEF EntriesFit
<1>3. p = [id |-> p.id, kind |-> p.kind, at |-> p.at, line |-> p.line]
      /\ p.id \notin (edits + 1 + 1) .. MaxEdits
  BY <1>2 DEF PointsFit
<1>4. /\ q.id = p.id /\ q.kind = p.kind /\ q.at \in 1 .. m
      /\ q = [id |-> q.id, kind |-> q.kind, at |-> q.at, line |-> q.line]
  BY <1>3
<1> HIDE DEF q, m
<1>5. Unique(points)
  BY <1>2, <1>4, UniqueChanged DEF PointsFit
<1>6. PointsFit(points, m, edits + 1)
  BY <1>2, <1>3, <1>4, <1>5 DEF PointsFit
<1>7. \A x \in score.points : \E y \in points : y.id = x.id /\ y.kind = x.kind
  BY <1>4
<1> HIDE DEF points
<1>8. Whole(next, m, edits + 1)
  BY <1>2, <1>6, <1>7, WholePoints
<1>9. QED
  BY <1>1, <1>8, Became

LEMMA PointsHold ==
  ASSUME ScoreInv, AddTechnique \/ RemoveTechnique \/ AddMarker \/ RemoveMarker \/ UpdateMarker
  PROVE  ScoreInv'
<1>1. CASE AddTechnique
  <2>a. PICK l \in Voices(score) : \E at \in DOMAIN score.lines[l] :
          Put("points", [id |-> Gen, kind |-> "technique", at |-> at, line |-> l])
    BY <1>1 DEF AddTechnique
  <2>1. PICK at \in DOMAIN score.lines[l] :
          Put("points", [id |-> Gen, kind |-> "technique", at |-> at, line |-> l])
    BY <2>a
  <2>2. IsVoice(score.lines[l]) /\ Len(score.lines[l]) = Count(score)
    BY VoicesAre DEF ScoreInv, Voices
  <2>3. at \in 1 .. Count(score)
    BY <2>2, VoiceFacts
  <2>4. QED
    BY <2>1, <2>3, PointPut
<1>2. CASE AddMarker
  BY <1>2, PointPut DEF AddMarker, Bars
<1>3. CASE RemoveTechnique
  BY <1>3, PointDropped DEF RemoveTechnique
<1>4. CASE RemoveMarker
  BY <1>4, PointDropped DEF RemoveMarker
<1>5. CASE UpdateMarker
  BY <1>5, PointChanged DEF UpdateMarker, OfKind, Bars
<1>6. QED
  BY <1>1, <1>2, <1>3, <1>4, <1>5

LEMMA RangeWith ==
  ASSUME NEW x, x = [id |-> x.id, kind |-> x.kind, from |-> x.from, to |-> x.to],
         NEW u, NEW v, NEW y, y = [x EXCEPT !.from = u, !.to = v]
  PROVE  y = [id |-> x.id, kind |-> x.kind, from |-> u, to |-> v]
OBVIOUS

LEMMA JumpWith ==
  ASSUME NEW x, x = [id |-> x.id, kind |-> x.kind, at |-> x.at, segno |-> x.segno,
                     coda |-> x.coda, tocoda |-> x.tocoda],
         NEW at, NEW kind, NEW u, NEW v, NEW w,
         NEW y, y = [x EXCEPT !.at = at, !.kind = kind, !.segno = u, !.coda = v, !.tocoda = w]
  PROVE  y = [id |-> x.id, kind |-> kind, at |-> at, segno |-> u, coda |-> v, tocoda |-> w]
OBVIOUS

LEMMA SpanWith ==
  ASSUME NEW x, x = [id |-> x.id, line |-> x.line, a |-> x.a, b |-> x.b],
         NEW line, NEW a, NEW b, NEW y, y = [x EXCEPT !.line = line, !.a = a, !.b = b]
  PROVE  y = [id |-> x.id, line |-> line, a |-> a, b |-> b]
OBVIOUS

LEMMA RangePut ==
  ASSUME ScoreInv, NEW kind, NEW r \in Stretches,
         Put("ranges", [id |-> Gen, kind |-> kind, from |-> r[1], to |-> r[2]])
  PROVE  ScoreInv'
<1> DEFINE m == Count(score)
           x == [id |-> Gen, kind |-> kind, from |-> r[1], to |-> r[2]]
           ranges == score.ranges \union {x}
           next == [score EXCEPT !["ranges"] = ranges]
<1>1. Becomes(next, "entry")
  BY DEF Put
<1>2. edits < MaxEdits
  BY <1>1 DEF Becomes, More
<1>3. RangesFit(score.ranges, m, edits) /\ RangesFit(score.ranges, m, edits + 1) /\ edits \in Nat
      /\ Whole(score, m, edits)
  BY Fitting DEF EntriesFit
<1>4. r[1] \in 1 .. m /\ r[2] \in r[1] .. m
  BY Standings
<1>5. /\ x.id = edits + 1 /\ x.from \in 1 .. m /\ x.to \in x.from .. m
      /\ x = [id |-> x.id, kind |-> x.kind, from |-> x.from, to |-> x.to]
  BY <1>4 DEF Gen
<1> HIDE DEF x, m
<1>6. x.id \notin (edits + 1 + 1) .. MaxEdits /\ \A y \in score.ranges : y.id # x.id
  BY <1>2, <1>3, <1>5, Minting
<1>7. Unique(ranges)
  BY <1>3, <1>6, UniqueMore DEF RangesFit
<1>8. RangesFit(ranges, m, edits + 1)
  BY <1>3, <1>5, <1>6, <1>7 DEF RangesFit
<1> HIDE DEF ranges
<1>9. Whole(next, m, edits + 1)
  BY <1>3, <1>8, WholeRanges
<1>10. QED
  BY <1>1, <1>9, Became

LEMMA RangeDropped ==
  ASSUME ScoreInv, NEW kind, Drop("ranges", {kind})
  PROVE  ScoreInv'
<1> DEFINE m == Count(score)
<1>1. PICK x : Becomes([score EXCEPT !["ranges"] = score.ranges \ {x}], "entry")
  BY DEF Drop
<1> DEFINE ranges == score.ranges \ {x}
           next == [score EXCEPT !["ranges"] = ranges]
<1>2. RangesFit(score.ranges, m, edits + 1) /\ Whole(score, m, edits)
  BY Fitting DEF EntriesFit
<1>3. RangesFit(ranges, m, edits + 1)
  BY <1>2, UniqueFewer DEF RangesFit
<1> HIDE DEF ranges, m
<1>4. Whole(next, m, edits + 1)
  BY <1>2, <1>3, WholeRanges
<1>5. QED
  BY <1>1, <1>4, Became DEF ranges

LEMMA RangeChanged ==
  ASSUME ScoreInv, NEW kind, UpdateRange(kind)
  PROVE  ScoreInv'
<1>1. PICK x \in score.ranges, r \in Stretches :
        Change("ranges", x, [x EXCEPT !.from = r[1], !.to = r[2]])
  BY DEF UpdateRange
<1> DEFINE m == Count(score)
           y == [x EXCEPT !.from = r[1], !.to = r[2]]
           ranges == (score.ranges \ {x}) \union {y}
           next == [score EXCEPT !["ranges"] = ranges]
<1>2. Becomes(next, "entry")
  BY <1>1 DEF Change
<1>3. RangesFit(score.ranges, m, edits + 1) /\ Whole(score, m, edits)
  BY Fitting DEF EntriesFit
<1>4. r[1] \in 1 .. m /\ r[2] \in r[1] .. m
  BY Standings
<1>5. x = [id |-> x.id, kind |-> x.kind, from |-> x.from, to |-> x.to]
      /\ x.id \notin (edits + 1 + 1) .. MaxEdits
  BY <1>3 DEF RangesFit
<1>a. y = [x EXCEPT !.from = r[1], !.to = r[2]]
  OBVIOUS
<1> HIDE DEF y
<1>b. y = [id |-> x.id, kind |-> x.kind, from |-> r[1], to |-> r[2]]
  BY <1>5, <1>a, RangeWith
<1>6. /\ y.id = x.id /\ y.from \in 1 .. m /\ y.to \in y.from .. m
      /\ y = [id |-> y.id, kind |-> y.kind, from |-> y.from, to |-> y.to]
  BY <1>4, <1>b
<1> HIDE DEF m
<1>7. Unique(ranges)
  BY <1>3, <1>6, UniqueChanged DEF RangesFit
<1>8. RangesFit(ranges, m, edits + 1)
  BY <1>3, <1>5, <1>6, <1>7 DEF RangesFit
<1> HIDE DEF ranges
<1>9. Whole(next, m, edits + 1)
  BY <1>3, <1>8, WholeRanges
<1>10. QED
  BY <1>2, <1>9, Became

LEMMA RangesHold ==
  ASSUME ScoreInv, \/ AddAnnotation \/ RemoveAnnotation \/ UpdateAnnotation
                   \/ AddVolta \/ RemoveVolta \/ UpdateVolta
  PROVE  ScoreInv'
<1>1. CASE AddAnnotation \/ AddVolta
  BY <1>1, RangePut DEF AddAnnotation, AddVolta, AddRange
<1>2. CASE RemoveAnnotation \/ RemoveVolta
  BY <1>2, RangeDropped DEF RemoveAnnotation, RemoveVolta
<1>3. CASE UpdateAnnotation \/ UpdateVolta
  BY <1>3, RangeChanged DEF UpdateAnnotation, UpdateVolta
<1>4. QED
  BY <1>1, <1>2, <1>3

LEMMA JumpsHold ==
  ASSUME ScoreInv, AddJump \/ RemoveJump \/ UpdateJump
  PROVE  ScoreInv'
<1> DEFINE m == Count(score)
<1>1. /\ JumpsFit(score.jumps, m, edits) /\ JumpsFit(score.jumps, m, edits + 1)
      /\ Whole(score, m, edits) /\ edits \in Nat
  BY Fitting DEF EntriesFit
<1>2. \A j \in score.jumps : Refers(score, j)
  BY Fitting DEF Referred, Refers
<1>3. ASSUME NEW jumps, JumpsFit(jumps, m, edits + 1), \A j \in jumps : Refers(score, j),
             Becomes([score EXCEPT !["jumps"] = jumps], "entry")
      PROVE  ScoreInv'
  <2> DEFINE next == [score EXCEPT !["jumps"] = jumps]
  <2> HIDE DEF m
  <2>1. Whole(next, m, edits + 1)
    BY <1>1, <1>3, WholeJumps
  <2> HIDE DEF next
  <2>2. QED
    BY <1>3, <2>1, Became DEF next
<1>4. CASE AddJump
  <2>1. PICK at \in Bars(score), kind \in JumpKinds,
             segno \in SegnoRefs, coda \in CodaRefs, tocoda \in JumpRefs :
          Put("jumps", [id |-> Gen, kind |-> kind, at |-> at,
                        segno |-> segno, coda |-> coda, tocoda |-> tocoda])
    BY <1>4 DEF AddJump
  <2> DEFINE j == [id |-> Gen, kind |-> kind, at |-> at,
                   segno |-> segno, coda |-> coda, tocoda |-> tocoda]
             jumps == score.jumps \union {j}
  <2>2. Becomes([score EXCEPT !["jumps"] = jumps], "entry")
    BY <2>1 DEF Put
  <2>3. edits < MaxEdits
    BY <2>2 DEF Becomes, More
  <2>4. /\ j.id = edits + 1 /\ j.at \in 1 .. m
        /\ j = [id |-> j.id, kind |-> j.kind, at |-> j.at, segno |-> j.segno,
                coda |-> j.coda, tocoda |-> j.tocoda]
    BY DEF Gen, Bars
  <2>5. Refers(score, j)
    BY DEF Refers, SegnoRefs, CodaRefs
  <2> HIDE DEF j, m
  <2>6. j.id \notin (edits + 1 + 1) .. MaxEdits /\ \A x \in score.jumps : x.id # j.id
    BY <1>1, <2>3, <2>4, Minting
  <2>7. Unique(jumps)
    BY <1>1, <2>6, UniqueMore DEF JumpsFit
  <2>8. JumpsFit(jumps, m, edits + 1)
    BY <1>1, <2>4, <2>6, <2>7 DEF JumpsFit
  <2>9. \A x \in jumps : Refers(score, x)
    BY <1>2, <2>5
  <2> HIDE DEF jumps
  <2>10. QED
    BY <1>3, <2>2, <2>8, <2>9
<1>5. CASE RemoveJump
  <2>1. PICK j \in score.jumps :
          Becomes([score EXCEPT !.jumps =
                     {[k EXCEPT !.tocoda = IF @ = j.id THEN 0 ELSE @] : k \in @ \ {j}}], "entry")
    BY <1>5 DEF RemoveJump
  <2> DEFINE cut(k) == [k EXCEPT !.tocoda = IF @ = j.id THEN 0 ELSE @]
             jumps == {cut(k) : k \in score.jumps \ {j}}
  <2>2. Becomes([score EXCEPT !["jumps"] = jumps], "entry")
    BY <2>1, Fitting, FieldsPut
  <2>3. ASSUME NEW x \in jumps
        PROVE  \E k \in score.jumps :
                 /\ x.id = k.id /\ x.at = k.at /\ x.segno = k.segno /\ x.coda = k.coda
                 /\ x = cut(k)
                 /\ x = [id |-> x.id, kind |-> x.kind, at |-> x.at, segno |-> x.segno,
                         coda |-> x.coda, tocoda |-> x.tocoda]
    <3>1. PICK k \in score.jumps : x = cut(k)
      OBVIOUS
    <3>2. k = [id |-> k.id, kind |-> k.kind, at |-> k.at, segno |-> k.segno,
               coda |-> k.coda, tocoda |-> k.tocoda]
      BY <1>1 DEF JumpsFit
    <3> DEFINE to == IF k.tocoda = j.id THEN 0 ELSE k.tocoda
    <3>3. x = [k EXCEPT !.tocoda = to]
      BY <3>1
    <3> HIDE DEF to
    <3>4. /\ x.id = k.id /\ x.at = k.at /\ x.segno = k.segno /\ x.coda = k.coda
          /\ x = [id |-> x.id, kind |-> x.kind, at |-> x.at, segno |-> x.segno,
                  coda |-> x.coda, tocoda |-> x.tocoda]
      BY <3>2, <3>3
    <3>5. QED
      BY <3>1, <3>4
  <2> HIDE DEF jumps, cut, m
  <2>4. Unique(jumps)
    BY <1>1, <2>3 DEF JumpsFit, Unique
  <2>5. JumpsFit(jumps, m, edits + 1)
    BY <1>1, <2>3, <2>4 DEF JumpsFit
  <2>6. \A x \in jumps : Refers(score, x)
    BY <1>2, <2>3 DEF Refers
  <2>7. QED
    BY <1>3, <2>2, <2>5, <2>6
<1>6. CASE UpdateJump
  <2>a. PICK j \in score.jumps, at \in Bars(score), kind \in JumpKinds :
          \E segno \in SegnoRefs \union {j.segno}, coda \in CodaRefs \union {j.coda},
             tocoda \in (JumpRefs \ {j.id}) \union {j.tocoda} :
            Change("jumps", j, [j EXCEPT !.at = at, !.kind = kind, !.segno = segno,
                                         !.coda = coda, !.tocoda = tocoda])
    BY <1>6 DEF UpdateJump
  <2>1. PICK segno \in SegnoRefs \union {j.segno}, coda \in CodaRefs \union {j.coda},
             tocoda \in (JumpRefs \ {j.id}) \union {j.tocoda} :
          Change("jumps", j, [j EXCEPT !.at = at, !.kind = kind, !.segno = segno,
                                       !.coda = coda, !.tocoda = tocoda])
    BY <2>a
  <2> DEFINE k == [j EXCEPT !.at = at, !.kind = kind, !.segno = segno,
                            !.coda = coda, !.tocoda = tocoda]
             jumps == (score.jumps \ {j}) \union {k}
  <2>2. Becomes([score EXCEPT !["jumps"] = jumps], "entry")
    BY <2>1 DEF Change
  <2>3. j = [id |-> j.id, kind |-> j.kind, at |-> j.at, segno |-> j.segno,
             coda |-> j.coda, tocoda |-> j.tocoda]
        /\ j.id \notin (edits + 1 + 1) .. MaxEdits
    BY <1>1 DEF JumpsFit
  <2>b. k = [j EXCEPT !.at = at, !.kind = kind, !.segno = segno, !.coda = coda, !.tocoda = tocoda]
    OBVIOUS
  <2> HIDE DEF k
  <2>c. k = [id |-> j.id, kind |-> kind, at |-> at, segno |-> segno, coda |-> coda,
             tocoda |-> tocoda]
    BY <2>3, <2>b, JumpWith
  <2>4. /\ k.id = j.id /\ k.at \in 1 .. m /\ k.segno = segno /\ k.coda = coda
        /\ k = [id |-> k.id, kind |-> k.kind, at |-> k.at, segno |-> k.segno,
                coda |-> k.coda, tocoda |-> k.tocoda]
    BY <2>c DEF Bars
  <2> HIDE DEF m
  <2>5. Refers(score, k)
    BY <1>2, <2>1, <2>4 DEF Refers, SegnoRefs, CodaRefs
  <2>6. Unique(jumps)
    BY <1>1, <2>4, UniqueChanged DEF JumpsFit
  <2>7. JumpsFit(jumps, m, edits + 1)
    BY <1>1, <2>3, <2>4, <2>6 DEF JumpsFit
  <2>8. \A x \in jumps : Refers(score, x)
    BY <1>2, <2>5
  <2> HIDE DEF jumps
  <2>9. QED
    BY <1>3, <2>2, <2>7, <2>8
<1>7. QED
  BY <1>4, <1>5, <1>6

LEMMA OneMinted ==
  ASSUME NEW g
  PROVE  IsSequence(<<g>>) /\ <<g>> # <<>> /\ <<g>>[1] = g
<1>1. <<g>> \in Seq({g})
  OBVIOUS
<1>2. IsSequence(<<g>>)
  BY <1>1, SequenceIs
<1>3. QED
  BY <1>2

LEMMA SpansHold ==
  ASSUME ScoreInv, AddSpan \/ RemoveSpan \/ UpdateSpan
  PROVE  ScoreInv'
<1> DEFINE m == Count(score)
<1>1. /\ SpansFit(score.spans, edits) /\ SpansFit(score.spans, edits + 1)
      /\ Whole(score, m, edits) /\ edits \in Nat
  BY Fitting DEF EntriesFit
<1> HIDE DEF m
<1>2. ASSUME NEW spans, SpansFit(spans, edits + 1),
             Becomes([score EXCEPT !["spans"] = spans], "entry")
      PROVE  ScoreInv'
  <2> DEFINE next == [score EXCEPT !["spans"] = spans]
  <2>1. Whole(next, m, edits + 1)
    BY <1>1, <1>2, WholeSpans
  <2> HIDE DEF next
  <2>2. QED
    BY <1>2, <2>1, Became DEF next
<1>3. CASE AddSpan
  <2>1. PICK a, b :
          Put("spans", [id |-> <<Gen>>, line |-> FirstPlace(score, a)[1], a |-> a, b |-> b])
    BY <1>3 DEF AddSpan
  <2> DEFINE line == FirstPlace(score, a)[1]
             x == [id |-> <<Gen>>, line |-> line, a |-> a, b |-> b]
             spans == score.spans \union {x}
  <2>2. Becomes([score EXCEPT !["spans"] = spans], "entry")
    BY <2>1 DEF Put
  <2>3. edits < MaxEdits
    BY <2>2 DEF Becomes, More
  <2> HIDE DEF line
  <2>4. x.id = <<edits + 1>> /\ x = [id |-> x.id, line |-> x.line, a |-> x.a, b |-> x.b]
    BY DEF Gen
  <2> HIDE DEF x
  <2>5. IsSequence(x.id) /\ x.id # <<>> /\ x.id[1] = edits + 1
    BY <2>4, OneMinted
  <2>6. x.id[1] \notin (edits + 1 + 1) .. MaxEdits /\ \A y \in score.spans : y.id # x.id
    BY <1>1, <2>3, <2>4, <2>5, Minting
  <2>7. Unique(spans)
    BY <1>1, <2>6, UniqueMore DEF SpansFit
  <2>8. SpansFit(spans, edits + 1)
    BY <1>1, <2>4, <2>5, <2>6, <2>7 DEF SpansFit
  <2> HIDE DEF spans
  <2>9. QED
    BY <1>2, <2>2, <2>8
<1>4. CASE RemoveSpan
  <2>1. PICK x : Becomes([score EXCEPT !.spans = @ \ {x}], "entry")
    BY <1>4 DEF RemoveSpan
  <2> DEFINE spans == score.spans \ {x}
  <2>2. Becomes([score EXCEPT !["spans"] = spans], "entry")
    BY <2>1, Fitting, FieldsPut
  <2>3. SpansFit(spans, edits + 1)
    BY <1>1, UniqueFewer DEF SpansFit
  <2> HIDE DEF spans
  <2>4. QED
    BY <1>2, <2>2, <2>3
<1>5. CASE UpdateSpan
  <2>1. PICK x \in score.spans, a \in EventIds(score), b \in EventIds(score) :
          Change("spans", x, [x EXCEPT !.line = FirstPlace(score, a)[1], !.a = a, !.b = b])
    BY <1>5 DEF UpdateSpan
  <2> DEFINE line == FirstPlace(score, a)[1]
             y == [x EXCEPT !.line = line, !.a = a, !.b = b]
             spans == (score.spans \ {x}) \union {y}
  <2>2. Becomes([score EXCEPT !["spans"] = spans], "entry")
    BY <2>1 DEF Change
  <2> HIDE DEF line
  <2>3. /\ x = [id |-> x.id, line |-> x.line, a |-> x.a, b |-> x.b]
        /\ IsSequence(x.id) /\ x.id # <<>> /\ x.id[1] \notin (edits + 1 + 1) .. MaxEdits
    BY <1>1 DEF SpansFit
  <2>b. y = [x EXCEPT !.line = line, !.a = a, !.b = b]
    OBVIOUS
  <2> HIDE DEF y
  <2>c. y = [id |-> x.id, line |-> line, a |-> a, b |-> b]
    BY <2>3, <2>b, SpanWith
  <2>4. y.id = x.id /\ y = [id |-> y.id, line |-> y.line, a |-> y.a, b |-> y.b]
    BY <2>c
  <2>5. Unique(spans)
    BY <1>1, <2>4, UniqueChanged DEF SpansFit
  <2>6. SpansFit(spans, edits + 1)
    BY <1>1, <2>3, <2>4, <2>5 DEF SpansFit
  <2> HIDE DEF spans
  <2>7. QED
    BY <1>2, <2>2, <2>6
<1>6. QED
  BY <1>3, <1>4, <1>5

LEMMA StepHolds ==
  ASSUME ScoreInv, [Next]_vars
  PROVE  ScoreInv'
<1>1. CASE Next
  BY <1>1, EventsHold, MeasuresHold, CopyHolds, PastesHold, AnswersHold, VoicesHold,
     PointsHold, RangesHold, JumpsHold, SpansHold DEF Next
<1>2. CASE UNCHANGED vars
  BY <1>2 DEF vars, ScoreInv, ClipStands
<1>3. QED
  BY <1>1, <1>2

THEOREM ScoreStands == Spec => []ScoreInv
<1>1. Init => ScoreInv
  BY InitHolds
<1>2. ScoreInv /\ [Next]_vars => ScoreInv'
  BY StepHolds
<1>3. QED
  BY <1>1, <1>2, PTL DEF Spec

\* Whatever the edits were, every voice of every staff holds the same measures
\* in the same order (withAllVoiceMeasures, the fanout of the structural edits).
THEOREM ScoreVoicesAligned == Spec => []VoicesAligned
<1>1. ScoreInv => VoicesAligned
  BY LaidIs, Standings DEF VoicesAligned
<1>2. QED
  BY <1>1, ScoreStands, PTL

\* Whatever the edits were, every entry stands at measures there are, ends
\* where it starts or later and has an id of its own, and no jump refers to a
\* segno or coda that is gone (remapScoreReferences, dragMeasureRange).
THEOREM ScoreEntriesStand == Spec => []EntriesStand
<1>1. ScoreInv => EntriesStand
  BY Standings DEF EntriesStand, Whole, Laid, Standing
<1>2. QED
  BY <1>1, ScoreStands, PTL

-----------------------------------------------------------------------------
(* Measures that stay in time *)

LEMMA AlikeSelf ==
  ASSUME NEW x, IsMusic(x)
  PROVE  Alike(x, x)
<1>1. DOMAIN x = 1 .. Len(x)
  BY MusicIs
<1>2. QED
  BY <1>1 DEF Alike, IsMusic

LEMMA AlikeTwice ==
  ASSUME NEW x, NEW y, NEW z, Alike(x, y), Alike(y, z)
  PROVE  Alike(x, z)
BY DEF Alike

\* The same events, with ids where there were none at most.
Continues(x, w) == Alike(x, w) /\ \A i \in 1 .. Len(x) : x[i].id # NoId => w[i].id = x[i].id

LEMMA ContinuesSelf ==
  ASSUME NEW x, IsMusic(x)
  PROVE  Continues(x, x)
BY AlikeSelf DEF Continues

LEMMA ContinuesTwice ==
  ASSUME NEW x, NEW y, NEW z, Continues(x, y), Continues(y, z)
  PROVE  Continues(x, z)
<1>1. Alike(x, z)
  BY AlikeTwice DEF Continues
<1>2. Len(y) = Len(x)
  BY DEF Continues, Alike
<1>3. QED
  BY <1>1, <1>2 DEF Continues

\* What an edit may bring into a measure: notes, a bar in time, a full bar.
Fits(x, how) ==
  /\ IsMusic(x)
  /\ how # "any" => InTime(x)
  /\ how = "full" => FullBar(x)

LEMMA FullInTime ==
  ASSUME NEW x, FullBar(x)
  PROVE  InTime(x)
<1>1. IsMusic(x) /\ Sounds(x) = 3 * Capacity /\ Clean(x) /\ Sounds(x) \in Nat
  BY WeightsAre DEF FullBar
<1>2. Threes(x, 0, 0)
  BY <1>1, ThreesClean
<1>3. QED
  BY <1>1, <1>2 DEF InTime

LEMMA FullFits ==
  ASSUME NEW x, FullBar(x), NEW how
  PROVE  Fits(x, how)
<1>1. IsMusic(x)
  BY DEF FullBar
<1>2. QED
  BY <1>1, FullInTime DEF Fits

LEMMA AlikeKeeps ==
  ASSUME NEW x, NEW y, IsMusic(x), Alike(x, y)
  PROVE  /\ IsMusic(y)
         /\ InTime(x) => InTime(y)
         /\ FullBar(x) => FullBar(y)
         /\ \A how : Fits(x, how) => Fits(y, how)
<1>1. /\ IsMusic(y) /\ Sounds(y) = Sounds(x) /\ (Clean(y) <=> Clean(x))
      /\ WholeTriplets(y) <=> WholeTriplets(x)
  BY AlikeSounds
<1>2. Threes(x, 0, 0) => Threes(y, 0, 0)
  BY <1>1, WholeIsThrees
<1>3. (InTime(x) => InTime(y)) /\ (FullBar(x) => FullBar(y))
  BY <1>1, <1>2 DEF InTime, FullBar
<1>4. QED
  BY <1>1, <1>3 DEF Fits

LEMMA RestsFit ==
  ASSUME NEW u, NEW b, b = RestBar(u)
  PROVE  b.uid = u /\ FullBar(b.events) /\ \A how : Fits(b.events, how)
<1> DEFINE e == Rests(Capacity)
<1>1. Spells(e, Capacity)
  BY RestsSpell, MeasuresAssumption
<1>2. b = [uid |-> u, part |-> FALSE, events |-> e]
  BY DEF RestBar
<1> HIDE DEF e
<1>3. b.uid = u /\ b.events = e
  BY <1>2
<1>4. FullBar(b.events)
  BY <1>1, <1>3 DEF Spells, FullBar
<1>5. QED
  BY <1>3, <1>4, FullFits

\* The measure b is one of q, with ids on events that had none at most.
Has(q, b) == \E n \in DOMAIN q : q[n].uid = b.uid /\ Continues(q[n].events, b.events)
\* The g-th edit brings it in.
NewBar(b, g, how) == b.uid[1] = g /\ Fits(b.events, how)
\* The measures of w are measures of q or new ones.
Came(q, w, g, how) == \A i \in DOMAIN w : Has(q, w[i]) \/ NewBar(w[i], g, how)
\* q is music.
Scored(q) == \A i \in DOMAIN q : IsMusic(q[i].events)

LEMMA CameSelf ==
  ASSUME NEW q, Scored(q), NEW g, NEW how
  PROVE  Came(q, q, g, how)
BY ContinuesSelf DEF Came, Has, Scored

LEMMA CameTwice ==
  ASSUME NEW o, NEW q, NEW w, NEW g, NEW how, Came(o, q, g, how), Came(q, w, g, how)
  PROVE  Came(o, w, g, how)
<1>1. ASSUME NEW i \in DOMAIN w, Has(q, w[i])
      PROVE  Has(o, w[i]) \/ NewBar(w[i], g, how)
  <2>1. PICK n \in DOMAIN q : q[n].uid = w[i].uid /\ Continues(q[n].events, w[i].events)
    BY <1>1 DEF Has
  <2>2. CASE Has(o, q[n])
    <3>1. PICK k \in DOMAIN o : o[k].uid = q[n].uid /\ Continues(o[k].events, q[n].events)
      BY <2>2 DEF Has
    <3>2. QED
      BY <2>1, <3>1, ContinuesTwice DEF Has
  <2>3. CASE NewBar(q[n], g, how)
    <3>1. IsMusic(q[n].events)
      BY <2>3 DEF NewBar, Fits
    <3>2. QED
      BY <2>1, <2>3, <3>1, AlikeKeeps DEF NewBar, Continues
  <2>4. QED
    BY <2>2, <2>3 DEF Came
<1>2. QED
  BY <1>1 DEF Came

LEMMA CameSpliced ==
  ASSUME NEW o, NEW q, NEW r, NEW g, NEW how, IsVoice(q), IsVoice(r),
         Came(o, q, g, how), Came(o, r, g, how),
         NEW a \in Nat, NEW b \in Nat, a <= b, b <= Len(q), NEW w, IsSplice(q, a, r, b, w)
  PROVE  Came(o, w, g, how)
<1> DEFINE n == Len(q)
           k == Len(r)
<1>1. n \in Nat /\ k \in Nat /\ DOMAIN q = 1 .. n /\ DOMAIN r = 1 .. k /\ b <= n
  BY VoiceFacts
<1>2. /\ Len(w) = a + k + (n - b) /\ DOMAIN w = 1 .. Len(w)
      /\ \A i \in 1 .. Len(w) :
           w[i] = IF i <= a THEN q[i] ELSE IF i <= a + k THEN r[i - a] ELSE q[i - a - k + b]
  BY DEF IsSplice
<1> HIDE DEF n, k
<1>3. ASSUME NEW i \in DOMAIN w
      PROVE  (\E j \in DOMAIN q : w[i] = q[j]) \/ (\E j \in DOMAIN r : w[i] = r[j])
  <2>1. i \in 1 .. a + k + (n - b)
    BY <1>2
  <2>2. CASE i <= a
    <3>1. i \in 1 .. n
      BY <1>1, <2>1, <2>2
    <3>2. QED
      BY <1>1, <1>2, <2>2, <3>1
  <2>3. CASE ~(i <= a) /\ i <= a + k
    <3>1. i - a \in 1 .. k
      BY <1>1, <2>1, <2>3
    <3>2. QED
      BY <1>1, <1>2, <2>3, <3>1
  <2>4. CASE ~(i <= a) /\ ~(i <= a + k)
    <3>1. i - a - k + b \in 1 .. n
      BY <1>1, <2>1, <2>4, Behind
    <3>2. QED
      BY <1>1, <1>2, <2>4, <3>1
  <2>5. QED
    BY <2>2, <2>3, <2>4
<1>4. QED
  BY <1>3 DEF Came

\* w is q with other flags on its measures.
Kept(q, w) ==
  /\ IsVoice(w) /\ DOMAIN w = DOMAIN q
  /\ \A m \in DOMAIN q : w[m].uid = q[m].uid /\ w[m].events = q[m].events

LEMMA CameKept ==
  ASSUME NEW o, NEW q, NEW w, NEW g, NEW how, Came(o, q, g, how), Kept(q, w)
  PROVE  Came(o, w, g, how)
BY DEF Came, Kept, Has, NewBar

LEMMA KeptSelf ==
  ASSUME NEW q, IsVoice(q)
  PROVE  Kept(q, q)
BY DEF Kept

LEMMA KeptOne ==
  ASSUME NEW q, IsVoice(q), NEW k, NEW flag, NEW w, w = [q EXCEPT ![k].part = flag]
  PROVE  Kept(q, w)
<1>1. IsVoice(w) /\ DOMAIN w = DOMAIN q /\ \A m \in DOMAIN q : w[m].uid = q[m].uid
  <2>1. Rewritten(q, w)
    BY Reflagged
  <2>2. QED
    BY <2>1, Rewriting
<1>2. ASSUME NEW m \in DOMAIN q
      PROVE  w[m].events = q[m].events
  <2> DEFINE b == q[m]
             c == w[m]
  <2>1. b = [uid |-> b.uid, part |-> b.part, events |-> b.events]
    BY DEF IsVoice
  <2>2. c = b \/ c = [b EXCEPT !.part = flag]
    <3>1. q = [i \in DOMAIN q |-> q[i]]
      BY VoiceFacts
    <3>2. QED
      BY <3>1
  <2> HIDE DEF b, c
  <2>3. c.events = b.events
    BY <2>1, <2>2
  <2>4. QED
    BY <2>3 DEF b, c
<1>3. QED
  BY <1>1, <1>2 DEF Kept

LEMMA KeptTagged ==
  ASSUME NEW q, IsVoice(q), NEW tag, NEW w, w = TagLast(q, tag)
  PROVE  Kept(q, w)
BY KeptSelf, KeptOne DEF TagLast

LEMMA KeptFlagged ==
  ASSUME NEW s, NEW m, NEW n, NEW g, Laid(s, m, n, g), NEW had,
         NEW next, next = FlagOnlyLast(s, had)
  PROVE  /\ DOMAIN next.lines = DOMAIN s.lines
         /\ \A l \in DOMAIN s.lines : Kept(s.lines[l], next.lines[l])
<1> DEFINE lines == [l \in DOMAIN s.lines |-> [i \in DOMAIN s.lines[l] |->
                       [s.lines[l][i] EXCEPT !.part = i = Len(s.lines[l]) /\ had]]]
<1>1. next.lines = lines
  BY OtherLines DEF FlagOnlyLast, EachVoice, Voices, Laid
<1>2. ASSUME NEW l \in DOMAIN s.lines
      PROVE  Kept(s.lines[l], next.lines[l])
  <2> DEFINE q == s.lines[l]
             w == next.lines[l]
  <2>1. IsVoice(q)
    BY DEF Laid, Matched, IsBundle
  <2>2. w = [i \in DOMAIN q |-> [q[i] EXCEPT !.part = i = Len(q) /\ had]]
    BY <1>1
  <2>3. IsVoice(w)
    <3>1. Laid(next, m, n, g) /\ DOMAIN next.lines = DOMAIN s.lines
      BY <1>1, FlaggedLaid
    <3>2. QED
      BY <3>1 DEF Laid, Matched, IsBundle
  <2> HIDE DEF q, w
  <2>4. ASSUME NEW i \in DOMAIN q
        PROVE  w[i].uid = q[i].uid /\ w[i].events = q[i].events
    <3> DEFINE b == q[i]
               c == w[i]
               flag == i = Len(q) /\ had
    <3>1. b = [uid |-> b.uid, part |-> b.part, events |-> b.events]
      BY <2>1 DEF IsVoice
    <3>2. c = [b EXCEPT !.part = flag]
      BY <2>2
    <3> HIDE DEF b, c, flag
    <3>3. c.uid = b.uid /\ c.events = b.events
      BY <3>1, <3>2
    <3>4. QED
      BY <3>3 DEF b, c
  <2>5. Kept(q, w)
    BY <2>2, <2>3, <2>4 DEF Kept
  <2>6. QED
    BY <2>5 DEF q, w
<1>3. QED
  BY <1>1, <1>2

\* No two measures are the same one.
Distinct(q) == \A i, j \in DOMAIN q : q[i].uid = q[j].uid => i = j

LEMMA DistinctKept ==
  ASSUME NEW q, NEW w, Kept(q, w), Distinct(q)
  PROVE  Distinct(w)
BY DEF Kept, Distinct

\* r has none of the measures that q keeps before the a-th and behind the b-th.
Foreign(q, a, r, b) ==
  \A i \in DOMAIN r : \A j \in DOMAIN q : j <= a \/ j > b => r[i].uid # q[j].uid

\* Where the i-th measure of a splice is from.
Source(a, k, b, i) ==
  IF i <= a THEN i ELSE IF i <= a + k THEN i - a ELSE i - a - k + b

LEMMA DistinctSpliced ==
  ASSUME NEW q, NEW r, IsVoice(q), IsVoice(r), Distinct(q), Distinct(r),
         NEW a \in Nat, NEW b \in Nat, a <= b, b <= Len(q), Foreign(q, a, r, b),
         NEW w, IsSplice(q, a, r, b, w)
  PROVE  Distinct(w)
<1> DEFINE n == Len(q)
           k == Len(r)
           at(i) == Source(a, k, b, i)
           mid(i) == ~(i <= a) /\ i <= a + k
<1>1. n \in Nat /\ k \in Nat /\ DOMAIN q = 1 .. n /\ DOMAIN r = 1 .. k /\ b <= n
  BY VoiceFacts
<1>2. /\ Len(w) = a + k + (n - b) /\ DOMAIN w = 1 .. Len(w)
      /\ \A i \in 1 .. Len(w) : w[i] = IF mid(i) THEN r[at(i)] ELSE q[at(i)]
  BY DEF IsSplice, Source
<1> HIDE DEF n, k
<1>3. ASSUME NEW i \in DOMAIN w
      PROVE  /\ mid(i) => at(i) \in DOMAIN r
             /\ ~mid(i) => at(i) \in DOMAIN q /\ (at(i) <= a \/ at(i) > b)
             /\ i \in Int
  <2>1. i \in 1 .. a + k + (n - b)
    BY <1>2
  <2>2. mid(i) => at(i) \in 1 .. k
    BY <1>1, <2>1 DEF Source
  <2>3. ~mid(i) => at(i) \in 1 .. n /\ (at(i) <= a \/ at(i) > b)
    BY <1>1, <2>1 DEF Source
  <2>4. QED
    BY <1>1, <2>1, <2>2, <2>3
<1>4. ASSUME NEW i \in DOMAIN w, NEW j \in DOMAIN w, at(i) = at(j), mid(i) <=> mid(j)
      PROVE  i = j
  <2>1. i \in 1 .. a + k + (n - b) /\ j \in 1 .. a + k + (n - b)
    BY <1>2
  <2>2. QED
    BY <1>1, <1>4, <2>1 DEF Source
<1> HIDE DEF at, mid
<1>5. ASSUME NEW i \in DOMAIN w, NEW j \in DOMAIN w, w[i].uid = w[j].uid
      PROVE  i = j
  <2>1. /\ w[i] = IF mid(i) THEN r[at(i)] ELSE q[at(i)]
        /\ w[j] = IF mid(j) THEN r[at(j)] ELSE q[at(j)]
    BY <1>2
  <2>2. CASE mid(i) /\ mid(j)
    BY <1>3, <1>4, <1>5, <2>1, <2>2 DEF Distinct
  <2>3. CASE ~mid(i) /\ ~mid(j)
    BY <1>3, <1>4, <1>5, <2>1, <2>3 DEF Distinct
  <2>4. CASE mid(i) /\ ~mid(j)
    BY <1>3, <1>5, <2>1, <2>4 DEF Foreign
  <2>5. CASE ~mid(i) /\ mid(j)
    BY <1>3, <1>5, <2>1, <2>5 DEF Foreign
  <2>6. QED
    BY <2>2, <2>3, <2>4, <2>5
<1>6. QED
  BY <1>5 DEF Distinct

\* Measures that the g-th edit brings in.
NewBars(new, g, how) ==
  /\ Offered(new) /\ Distinct(new["p"])
  /\ \A l \in DOMAIN new : \A k \in DOMAIN new[l] : NewBar(new[l][k], g, how)

LEMMA GivenNew ==
  ASSUME NEW new, NEW g, NEW how, NewBars(new, g, how), NEW l, NEW r, r = MeasuresFor(new, l)
  PROVE  /\ IsVoice(r) /\ Len(r) = Len(new["p"]) /\ Distinct(r)
         /\ \A k \in DOMAIN r : NewBar(r[k], g, how)
<1>1. Offered(new)
  BY DEF NewBars
<1>2. /\ IsVoice(r) /\ Len(r) = Len(new["p"])
      /\ \A m \in 1 .. Len(new["p"]) : r[m].uid = new["p"][m].uid
  BY <1>1, Given
<1>3. "p" \in DOMAIN new /\ \A k \in DOMAIN new : IsVoice(new[k])
  BY <1>1 DEF Offered, IsBundle
<1>4. DOMAIN r = 1 .. Len(new["p"]) /\ DOMAIN new["p"] = 1 .. Len(new["p"])
  BY <1>2, <1>3, VoiceFacts
<1>5. Distinct(r)
  BY <1>2, <1>4 DEF Distinct, NewBars
<1>6. CASE l \in DOMAIN new /\ Len(new[l]) = Len(new["p"])
  <2>1. r = new[l]
    BY <1>6 DEF MeasuresFor
  <2>2. QED
    BY <1>2, <1>5, <1>6, <2>1 DEF NewBars
<1>7. CASE ~(l \in DOMAIN new /\ Len(new[l]) = Len(new["p"]))
  <2>1. r = [k \in DOMAIN new["p"] |-> RestBar(new["p"][k].uid)]
    BY <1>7 DEF MeasuresFor
  <2>2. ASSUME NEW k \in DOMAIN r
        PROVE  NewBar(r[k], g, how)
    <3>1. r[k] = RestBar(new["p"][k].uid) /\ k \in DOMAIN new["p"]
      BY <2>1
    <3>2. new["p"][k].uid[1] = g
      BY <1>3, <3>1 DEF NewBars, NewBar
    <3>3. r[k].uid = new["p"][k].uid /\ Fits(r[k].events, how)
      BY <3>1, RestsFit
    <3>4. QED
      BY <3>2, <3>3 DEF NewBar
  <2>3. QED
    BY <1>2, <1>5, <2>2
<1>8. QED
  BY <1>6, <1>7

\* None of its measures is brought in by the g-th edit.
Older(q, g) == \A i \in DOMAIN q : q[i].uid[1] # g

LEMMA NewForeign ==
  ASSUME NEW q, NEW r, NEW g, NEW how, Older(q, g), \A k \in DOMAIN r : NewBar(r[k], g, how),
         NEW a, NEW b
  PROVE  Foreign(q, a, r, b)
BY DEF Older, NewBar, Foreign

\* The voices of lines came from those of o by the g-th edit.
Turned(o, lines, g, how) ==
  /\ DOMAIN lines = DOMAIN o
  /\ \A l \in DOMAIN o : Came(o[l], lines[l], g, how)
  /\ Distinct(lines["p"])

\* The measures r, spliced into every voice after the first a of lines and
\* before those behind the b-th.
LEMMA TurnedSpliced ==
  ASSUME NEW o, NEW lines, NEW g, NEW how, Turned(o, lines, g, how), Matched(lines),
         NEW a \in Nat, NEW b \in Nat, a <= b, b <= Len(lines["p"]),
         NEW r, \A l \in DOMAIN lines : IsVoice(r[l]) /\ Came(o[l], r[l], g, how),
         Distinct(r["p"]), Foreign(lines["p"], a, r["p"], b),
         NEW next, next = Splicings(lines, a, r, b)
  PROVE  Turned(o, next, g, how)
<1>1. /\ "p" \in DOMAIN lines /\ DOMAIN next = DOMAIN lines
      /\ \A l \in DOMAIN lines : IsVoice(lines[l]) /\ Len(lines[l]) = Len(lines["p"])
  BY DEF Matched, IsBundle, Splicings
<1>2. ASSUME NEW l \in DOMAIN lines
      PROVE  IsSplice(lines[l], a, r[l], b, next[l])
  <2> DEFINE q == lines[l]
             p == r[l]
             w == next[l]
  <2>1. w = Splice(q, a, p, b) /\ IsVoice(q) /\ IsVoice(p) /\ b <= Len(q)
    BY <1>1 DEF Splicings
  <2> HIDE DEF q, p, w
  <2>2. IsSplice(q, a, p, b, w)
    BY <2>1, Splicing
  <2>3. QED
    BY <2>2 DEF q, p, w
<1>3. ASSUME NEW l \in DOMAIN o
      PROVE  Came(o[l], next[l], g, how)
  <2>1. l \in DOMAIN lines /\ Came(o[l], lines[l], g, how) /\ b <= Len(lines[l])
    BY <1>1 DEF Turned
  <2>2. QED
    BY <1>1, <1>2, <2>1, CameSpliced
<1>4. Distinct(next["p"])
  <2>1. Distinct(lines["p"])
    BY DEF Turned
  <2>2. QED
    BY <1>1, <1>2, <2>1, DistinctSpliced
<1>5. QED
  BY <1>1, <1>3, <1>4 DEF Turned

LEMMA TurnedKept ==
  ASSUME NEW o, NEW lines, NEW g, NEW how, Turned(o, lines, g, how), "p" \in DOMAIN lines,
         NEW next, DOMAIN next = DOMAIN lines, \A l \in DOMAIN lines : Kept(lines[l], next[l])
  PROVE  Turned(o, next, g, how)
<1>1. \A l \in DOMAIN o : Came(o[l], next[l], g, how)
  BY CameKept DEF Turned
<1>2. Distinct(next["p"])
  BY DistinctKept DEF Turned
<1>3. QED
  BY <1>1, <1>2 DEF Turned

\* Voices side by side, of music, with measures older than the g-th edit.
Turnable(lines, g) ==
  /\ Matched(lines) /\ \A l \in DOMAIN lines : Scored(lines[l])
  /\ Distinct(lines["p"]) /\ Older(lines["p"], g)

LEMMA TurnedSelf ==
  ASSUME NEW lines, NEW g, Turnable(lines, g), NEW how
  PROVE  Turned(lines, lines, g, how)
BY CameSelf DEF Turnable, Turned

\* What is put into the voices between the a-th measure and those behind the
\* b-th is theirs or new, and not there already.
Brought(o, lines, a, new, b, g, how) ==
  /\ \A l \in DOMAIN lines : Came(o[l], MeasuresFor(new, l), g, how)
  /\ Distinct(MeasuresFor(new, "p")) /\ Foreign(lines["p"], a, MeasuresFor(new, "p"), b)

LEMMA NewBrought ==
  ASSUME NEW new, NEW g, NEW how, NewBars(new, g, how), NEW o, NEW lines, Older(lines["p"], g),
         NEW a, NEW b
  PROVE  Brought(o, lines, a, new, b, g, how)
<1>1. \A l : /\ Distinct(MeasuresFor(new, l))
             /\ \A k \in DOMAIN MeasuresFor(new, l) : NewBar(MeasuresFor(new, l)[k], g, how)
  BY GivenNew
<1>2. \A l \in DOMAIN lines : Came(o[l], MeasuresFor(new, l), g, how)
  BY <1>1 DEF Came
<1>3. Foreign(lines["p"], a, MeasuresFor(new, "p"), b)
  BY <1>1, NewForeign
<1>4. QED
  BY <1>1, <1>2, <1>3 DEF Brought

LEMMA NothingNew == \A g, how : NewBars(Nothing, g, how)
<1>1. Nothing = [l \in {"p"} |-> <<>>]
  BY DEF Nothing
<1>2. \A l \in DOMAIN Nothing : DOMAIN Nothing[l] = {}
  BY <1>1
<1>3. QED
  BY <1>1, <1>2, NothingOffered DEF NewBars, Distinct

LEMMA InsertedTurned ==
  ASSUME NEW s, NEW m, NEW n, NEW h, Laid(s, m, n, h), NEW o, NEW g, NEW how,
         Turned(o, s.lines, g, how), NEW new, Offered(new), NEW after \in Nat, after <= m,
         Brought(o, s.lines, after, new, after, g, how), NEW next, next = Inserted(s, new, after)
  PROVE  Turned(o, next.lines, g, how)
<1> DEFINE lines == s.lines
           r == [l \in DOMAIN lines |-> MeasuresFor(new, l)]
           made == Splicings(lines, after, r, after)
<1>1. Matched(lines) /\ m = Len(lines["p"]) /\ HasFields(s) /\ "p" \in DOMAIN lines
  BY DEF Laid, Matched, IsBundle
<1>2. next = [s EXCEPT !.lines = made]
  BY DEF Inserted, EachVoice, Voices, Splicings, Splice
<1>3. \A l \in DOMAIN lines : IsVoice(r[l]) /\ Came(o[l], r[l], g, how)
  BY Given DEF Brought
<1>4. Distinct(r["p"]) /\ Foreign(lines["p"], after, r["p"], after)
  BY <1>1 DEF Brought
<1> HIDE DEF r
<1>5. Turned(o, made, g, how)
  BY <1>1, <1>3, <1>4, TurnedSpliced
<1>6. next.lines = made
  BY <1>1, <1>2, OtherLines
<1>7. QED
  BY <1>5, <1>6

LEMMA ReplacedTurned ==
  ASSUME NEW s, NEW m, NEW n, NEW h, Laid(s, m, n, h), NEW o, NEW g, NEW how,
         Turned(o, s.lines, g, how), NEW new, Offered(new), NEW a \in 1 .. m, NEW b \in a .. m,
         Brought(o, s.lines, a - 1, new, b, g, how), NEW next, next = Replaced(s, a, b, new)
  PROVE  Turned(o, next.lines, g, how)
<1> DEFINE lines == s.lines
           tag == b = Count(s) /\ EndsPartial(s)
           given(l) == MeasuresFor(new, l)
           r == [l \in DOMAIN lines |-> TagLast(given(l), tag)]
           made == Splicings(lines, a - 1, r, b)
<1>1. /\ Matched(lines) /\ m = Len(lines["p"]) /\ m \in Nat /\ HasFields(s)
      /\ "p" \in DOMAIN lines
  BY DEF Laid, Matched, IsBundle
<1>2. next = [s EXCEPT !.lines = made]
  BY DEF Replaced, EachVoice, Voices, Splicings, Splice
<1>3. \A l \in DOMAIN lines : Kept(given(l), r[l])
  BY Given, KeptTagged
<1>4. \A l \in DOMAIN lines : IsVoice(r[l]) /\ Came(o[l], r[l], g, how)
  <2>1. \A l \in DOMAIN lines : Came(o[l], given(l), g, how)
    BY DEF Brought
  <2> HIDE DEF given, r
  <2>2. QED
    BY <1>3, <2>1, CameKept DEF Kept
<1>5. Distinct(r["p"]) /\ Foreign(lines["p"], a - 1, r["p"], b)
  <2>1. Distinct(given("p")) /\ Foreign(lines["p"], a - 1, given("p"), b) /\ Kept(given("p"), r["p"])
    BY <1>1, <1>3 DEF Brought
  <2> HIDE DEF given, r
  <2>2. QED
    BY <2>1, DistinctKept DEF Kept, Foreign
<1> HIDE DEF r
<1>6. a - 1 \in Nat /\ b \in Nat /\ a - 1 <= b /\ b <= m
  BY <1>1
<1>7. Turned(o, made, g, how)
  BY <1>1, <1>4, <1>5, <1>6, TurnedSpliced
<1>8. next.lines = made
  BY <1>1, <1>2, OtherLines
<1>9. QED
  BY <1>7, <1>8

LEMMA FlaggedTurned ==
  ASSUME NEW s, NEW m, NEW n, NEW h, Laid(s, m, n, h), NEW o, NEW g, NEW how,
         Turned(o, s.lines, g, how), NEW had, NEW next, next = FlagOnlyLast(s, had)
  PROVE  Turned(o, next.lines, g, how)
<1>1. "p" \in DOMAIN s.lines
  BY DEF Laid, Matched, IsBundle
<1>2. DOMAIN next.lines = DOMAIN s.lines /\ \A l \in DOMAIN s.lines : Kept(s.lines[l], next.lines[l])
  BY KeptFlagged
<1>3. QED
  BY <1>1, <1>2, TurnedKept

LEMMA SpansPut ==
  ASSUME NEW s, HasFields(s), NEW x
  PROVE  [s EXCEPT !.spans = x].lines = s.lines /\ HasFields([s EXCEPT !.spans = x])
BY DEF HasFields

LEMMA InsertTurned ==
  ASSUME NEW s, NEW m, NEW h, Laid(s, m, m, h), NEW g, NEW how, Turnable(s.lines, g),
         NEW new, NewBars(new, g, how), NEW spans, NEW after \in 0 .. m,
         NEW next, next = InsertMeasuresAfter(s, new, spans, after)
  PROVE  Turned(s.lines, next.lines, g, how)
<1> DEFINE k == Len(new["p"])
           mid == Inserted(s, new, after)
           to == InsertIdx(Count(s), after, k)
           moved == Remapped(mid, to)
<1>1. m \in Nat /\ after \in Nat /\ after <= m /\ Offered(new) /\ Older(s.lines["p"], g)
  BY CountLaid DEF NewBars, Turnable
<1>2. next = [moved EXCEPT !.spans = @ \union spans]
  BY DEF InsertMeasuresAfter
<1>3. Turned(s.lines, mid.lines, g, how)
  BY <1>1, TurnedSelf, NewBrought, InsertedTurned
<1>4. HasFields(mid)
  BY OtherLines DEF Inserted, EachVoice, Laid
<1> HIDE DEF mid, to, k
<1>5. HasFields(moved) /\ moved.lines = mid.lines
  BY <1>4, RemappedFields
<1> HIDE DEF moved
<1>6. next.lines = moved.lines
  BY <1>2, <1>5, SpansPut
<1>7. QED
  BY <1>3, <1>5, <1>6

LEMMA RegionTurned ==
  ASSUME NEW s, NEW m, NEW h, Laid(s, m, m, h), NEW g, NEW how, Turnable(s.lines, g),
         NEW new, NewBars(new, g, how), NEW spans, NEW a \in 1 .. m, NEW b \in a .. m,
         NEW next, next = RegionReplace(s, a, b, new, spans)
  PROVE  Turned(s.lines, next.lines, g, how)
<1> DEFINE mid == Replaced(s, a, b, new)
           cut == [mid EXCEPT !.spans = SpansOutside(s, a, b)]
           to == ReplaceIdx(Count(s), a, b, Len(new["p"]))
           moved == Remapped(cut, to)
<1>1. Offered(new) /\ Older(s.lines["p"], g)
  BY DEF NewBars, Turnable
<1>2. next = [moved EXCEPT !.spans = @ \union spans]
  BY DEF RegionReplace
<1>3. Turned(s.lines, mid.lines, g, how)
  BY <1>1, TurnedSelf, NewBrought, ReplacedTurned
<1>4. HasFields(mid)
  BY OtherLines DEF Replaced, EachVoice, Laid
<1> HIDE DEF mid
<1>5. HasFields(cut) /\ cut.lines = mid.lines
  BY <1>4, SpansPut
<1> HIDE DEF cut, to
<1>6. HasFields(moved) /\ moved.lines = cut.lines
  BY <1>5, RemappedFields
<1> HIDE DEF moved
<1>7. next.lines = moved.lines
  BY <1>2, <1>6, SpansPut
<1>8. QED
  BY <1>3, <1>5, <1>6, <1>7

LEMMA DeleteTurned ==
  ASSUME NEW s, NEW m, NEW h, Laid(s, m, m, h), NEW g, NEW how, Turnable(s.lines, g),
         NEW a \in 1 .. m, NEW b \in a .. m, NEW next, next = DeleteRange(s, a, b)
  PROVE  Turned(s.lines, next.lines, g, how)
<1> DEFINE mid == Replaced(s, a, b, Nothing)
           cut == [mid EXCEPT !.spans = SpansOutside(s, a, b)]
           to == ReplaceIdx(Count(s), a, b, 0)
           moved == Remapped(cut, to)
           n == (a - 1) + 0 + (m - b)
<1>1. Offered(Nothing) /\ NewBars(Nothing, g, how) /\ Older(s.lines["p"], g) /\ Count(s) = m
  BY NothingOffered, NothingNew, CountLaid DEF Turnable
<1>2. next = FlagOnlyLast(moved, EndsPartial(s))
  BY DEF DeleteRange
<1>3. Turned(s.lines, mid.lines, g, how)
  BY <1>1, TurnedSelf, NewBrought, ReplacedTurned
<1>4. Laid(mid, n, m, h)
  BY <1>1, NothingOffered, ReplacedLaid
<1>5. mid.spans = s.spans
  BY DEF Replaced, EachVoice, Laid, HasFields
<1>6. SpansOutside(s, a, b) \in SUBSET mid.spans
  BY <1>5, SpansOutsideAre
<1>7. m \in Nat /\ Maps(to, m, n)
  BY <1>1, CountLaid, ReplaceMaps
<1> HIDE DEF n, mid
<1>8. Laid(cut, n, m, h) /\ cut.lines = mid.lines
  BY <1>4, <1>6, LaidFewer, SpansPut DEF Laid
<1> HIDE DEF cut, to
<1>9. Laid(moved, n, n, h) /\ moved.lines = cut.lines
  BY <1>7, <1>8, RemappedLaid, RemappedFields DEF Laid
<1> HIDE DEF moved
<1>10. Turned(s.lines, moved.lines, g, how)
  BY <1>3, <1>8, <1>9
<1>11. QED
  BY <1>2, <1>9, <1>10, FlaggedTurned

\* Copies that the g-th edit makes of measures.
LEMMA ClonedNew ==
  ASSUME NEW new, IsBundle(new), NEW how,
         \A l \in DOMAIN new : \A k \in DOMAIN new[l] : Fits(new[l][k].events, how),
         NEW g, NEW c, c = Cloned(new, g)
  PROVE  NewBars(c, g, how)
<1>1. Offered(c) /\ Len(c["p"]) = Len(new["p"])
  BY ClonedOffered
<1>2. DOMAIN c = DOMAIN new /\ \A l \in DOMAIN new : DOMAIN c[l] = DOMAIN new[l]
  BY DEF Cloned
<1>3. ASSUME NEW l \in DOMAIN new, NEW k \in DOMAIN new[l]
      PROVE  c[l][k].uid = <<g, k>> /\ Fits(c[l][k].events, how)
  <2> DEFINE b == new[l][k]
             x == b.events
             y == Identified(g, l, k, x)
             d == c[l][k]
             u == <<g, k>>
  <2>1. b = [uid |-> b.uid, part |-> b.part, events |-> b.events]
    BY DEF IsBundle, IsVoice
  <2>2. d = [b EXCEPT !.uid = u, !.events = y]
    BY DEF Cloned
  <2>3. Fits(x, how) /\ IsMusic(x)
    BY DEF Fits
  <2>4. y = [i \in DOMAIN x |-> [x[i] EXCEPT !.id = <<g, l, k, i>>]]
    BY DEF Identified
  <2> HIDE DEF d, y, b, u
  <2>5. d.uid = u /\ d.events = y
    BY <2>1, <2>2
  <2> HIDE DEF x
  <2>6. Alike(x, y)
    <3>1. Len(x) \in Nat /\ DOMAIN x = 1 .. Len(x) /\ \A i \in 1 .. Len(x) : IsEvent(x[i])
      BY <2>3, MusicIs DEF IsMusic
    <3>2. y = [i \in 1 .. Len(x) |-> y[i]]
      BY <2>4, <3>1
    <3>3. IsSequence(y) /\ Len(y) = Len(x)
      BY <3>1, <3>2, FunctionIs
    <3>4. ASSUME NEW i \in 1 .. Len(x)
          PROVE  IsEvent(y[i]) /\ y[i].u = x[i].u /\ y[i].rest = x[i].rest /\ y[i].tup = x[i].tup
      <4> DEFINE e == x[i]
                 f == y[i]
                 name == <<g, l, k, i>>
      <4>1. IsEvent(e) /\ f = [e EXCEPT !.id = name]
        BY <2>4, <3>1
      <4> HIDE DEF e, f, name
      <4>2. e = [id |-> e.id, u |-> e.u, rest |-> e.rest, tup |-> e.tup]
        BY <4>1 DEF IsEvent
      <4>3. f = [id |-> name, u |-> e.u, rest |-> e.rest, tup |-> e.tup]
        BY <4>1, <4>2
      <4>4. f.id = name /\ f.u = e.u /\ f.rest = e.rest /\ f.tup = e.tup
        BY <4>3
      <4>5. f = [id |-> f.id, u |-> f.u, rest |-> f.rest, tup |-> f.tup]
        BY <4>3, <4>4
      <4>6. f.u \in Durations /\ f.rest \in BOOLEAN /\ f.tup \in BOOLEAN
        BY <4>1, <4>4 DEF IsEvent
      <4>7. IsEvent(f)
        BY <4>5, <4>6 DEF IsEvent
      <4>8. QED
        BY <4>4, <4>7 DEF e, f
    <3>5. QED
      BY <3>3, <3>4 DEF Alike
  <2>7. Fits(y, how)
    BY <2>3, <2>6, AlikeKeeps
  <2>8. QED
    BY <2>5, <2>7 DEF d, u
<1>4. Distinct(c["p"])
  <2>1. "p" \in DOMAIN new
    BY DEF IsBundle
  <2>2. ASSUME NEW i \in DOMAIN c["p"], NEW j \in DOMAIN c["p"], c["p"][i].uid = c["p"][j].uid
        PROVE  i = j
    <3>1. c["p"][i].uid = <<g, i>> /\ c["p"][j].uid = <<g, j>>
      BY <1>2, <1>3, <2>1
    <3>2. <<g, i>> = <<g, j>>
      BY <2>2, <3>1
    <3>3. QED
      BY <3>2
  <2>3. QED
    BY <2>2 DEF Distinct
<1>5. ASSUME NEW l \in DOMAIN c, NEW k \in DOMAIN c[l]
      PROVE  NewBar(c[l][k], g, how)
  <2>1. c[l][k].uid = <<g, k>> /\ Fits(c[l][k].events, how)
    BY <1>2, <1>3
  <2> HIDE DEF NewBar
  <2>2. c[l][k].uid[1] = g
    BY <2>1
  <2>3. QED
    BY <2>1, <2>2 DEF NewBar
<1>6. QED
  BY <1>1, <1>4, <1>5 DEF NewBars

\* What captured measures are.
LEMMA CapturedIs ==
  ASSUME NEW s, NEW m, NEW n, NEW h, Laid(s, m, n, h), NEW a \in 1 .. m, NEW b \in a .. m,
         NEW new, new = Captured(s, a, b)
  PROVE  /\ IsBundle(new) /\ Offered(new) /\ DOMAIN new = DOMAIN s.lines
         /\ Len(new["p"]) = b - a + 1
         /\ \A l \in DOMAIN s.lines : IsPart(s.lines[l], a, b, new[l])
<1>1. Offered(new) /\ Len(new["p"]) = b - a + 1 /\ IsBundle(new)
  BY CapturedOffered DEF Offered
<1>2. DOMAIN new = DOMAIN s.lines
  BY DEF Captured, Voices
<1>3. ASSUME NEW l \in DOMAIN s.lines
      PROVE  IsPart(s.lines[l], a, b, new[l])
  <2> DEFINE q == s.lines[l]
             w == new[l]
  <2>1. IsVoice(q) /\ Len(q) = m /\ w = SubSeq(q, a, b)
    BY DEF Laid, Matched, IsBundle, Captured, Voices
  <2> HIDE DEF q, w
  <2>2. a \in 1 .. Len(q) /\ b \in a .. Len(q)
    BY <2>1
  <2>3. IsPart(q, a, b, w)
    BY <2>1, <2>2, VoicePart
  <2>4. QED
    BY <2>3 DEF q, w
<1>4. QED
  BY <1>1, <1>2, <1>3

LEMMA PartOf ==
  ASSUME NEW q, IsVoice(q), NEW a, NEW b, NEW w, IsPart(q, a, b, w), NEW i \in DOMAIN w
  PROVE  a + i - 1 \in DOMAIN q /\ w[i] = q[a + i - 1] /\ i \in 1 .. b - a + 1
<1>1. DOMAIN w = 1 .. Len(w) /\ Len(w) = b - a + 1 /\ DOMAIN q = 1 .. Len(q)
  BY VoiceFacts DEF IsPart
<1>2. QED
  BY <1>1 DEF IsPart

LEMMA CapturedFits ==
  ASSUME NEW s, NEW m, NEW n, NEW h, Laid(s, m, n, h), NEW a \in 1 .. m, NEW b \in a .. m, NEW how,
         \A l \in DOMAIN s.lines : \A k \in DOMAIN s.lines[l] : Fits(s.lines[l][k].events, how),
         NEW new, new = Captured(s, a, b)
  PROVE  IsBundle(new) /\ \A l \in DOMAIN new : \A k \in DOMAIN new[l] : Fits(new[l][k].events, how)
<1>1. /\ IsBundle(new) /\ DOMAIN new = DOMAIN s.lines
      /\ \A l \in DOMAIN s.lines : IsPart(s.lines[l], a, b, new[l])
  BY CapturedIs
<1>2. ASSUME NEW l \in DOMAIN s.lines, NEW k \in DOMAIN new[l]
      PROVE  Fits(new[l][k].events, how)
  <2>1. IsVoice(s.lines[l])
    BY DEF Laid, Matched, IsBundle
  <2>2. a + k - 1 \in DOMAIN s.lines[l] /\ new[l][k] = s.lines[l][a + k - 1]
    BY <1>1, <2>1, PartOf
  <2>3. QED
    BY <2>2
<1>3. QED
  BY <1>1, <1>2

LEMMA DuplicateTurned ==
  ASSUME NEW s, NEW m, NEW h, Laid(s, m, m, h), NEW g, NEW how, Turnable(s.lines, g),
         \A l \in DOMAIN s.lines : \A k \in DOMAIN s.lines[l] : Fits(s.lines[l][k].events, how),
         NEW a \in 1 .. m, NEW b \in a .. m, NEW after \in 0 .. m,
         NEW next, next = DuplicateRange(s, a, b, after, g)
  PROVE  Turned(s.lines, next.lines, g, how)
<1> DEFINE had == Captured(s, a, b)
           new == Cloned(had, g)
           k == b - a + 1
           mid == Inserted(s, new, after)
           to == InsertIdx(Count(s), after, k)
           moved == Remapped(mid, to)
<1>1. m \in Nat /\ after \in Nat /\ after <= m /\ Older(s.lines["p"], g) /\ Count(s) = m
  BY CountLaid DEF Turnable
<1>2. IsBundle(had) /\ \A l \in DOMAIN had : \A i \in DOMAIN had[l] : Fits(had[l][i].events, how)
  BY CapturedFits
<1>3. next = FlagOnlyLast(moved, EndsPartial(s))
  BY DEF DuplicateRange
<1>a. Len(had["p"]) = k
  BY CapturedOffered
<1> HIDE DEF had
<1>4. NewBars(new, g, how) /\ Offered(new) /\ Len(new["p"]) = k
  BY <1>2, <1>a, ClonedNew, ClonedOffered
<1>5. k \in Nat
  BY <1>1
<1> HIDE DEF new, k
<1>6. Turned(s.lines, mid.lines, g, how)
  BY <1>1, <1>4, TurnedSelf, NewBrought, InsertedTurned
<1>7. Laid(mid, m + k, m, h)
  BY <1>1, <1>4, InsertedLaid
<1>8. Maps(to, m, m + k)
  BY <1>1, <1>5, InsertMaps
<1> HIDE DEF mid, to
<1>9. Laid(moved, m + k, m + k, h) /\ moved.lines = mid.lines
  BY <1>7, <1>8, RemappedLaid, RemappedFields DEF Laid
<1> HIDE DEF moved
<1>10. QED
  BY <1>3, <1>6, <1>9, FlaggedTurned

\* The model's measures.
LEMMA AnswerNew ==
  ASSUME NEW content \in Contents, NEW c, c = Answer(content)
  PROVE  NewBars(c, Gen, "any")
<1>1. Offered(c)
  BY AnswerOffered
<1>2. /\ DOMAIN c = DOMAIN content /\ "p" \in DOMAIN content
      /\ \A l \in DOMAIN content : c[l] = [k \in DOMAIN content[l] |->
           [uid |-> <<Gen, k>>, part |-> content[l][k].part, events |-> content[l][k].events]]
  BY ScoreEditsAssumption DEF Answer
<1>3. ASSUME NEW l \in DOMAIN c, NEW k \in DOMAIN c[l]
      PROVE  c[l][k].uid = <<Gen, k>> /\ IsMusic(c[l][k].events)
  <2>1. k \in DOMAIN content[l] /\ IsMusic(content[l][k].events)
    BY <1>2, ScoreEditsAssumption
  <2> DEFINE d == c[l][k]
             u == <<Gen, k>>
             p == content[l][k].part
             e == content[l][k].events
  <2>2. d = [uid |-> u, part |-> p, events |-> e]
    BY <1>2, <2>1
  <2>3. IsMusic(e)
    BY <2>1
  <2> HIDE DEF d, u, p, e
  <2>4. d.uid = u /\ IsMusic(d.events)
    BY <2>2, <2>3
  <2>5. QED
    BY <2>4 DEF d, u
<1>4. Distinct(c["p"])
  <2>1. ASSUME NEW i \in DOMAIN c["p"], NEW j \in DOMAIN c["p"], c["p"][i].uid = c["p"][j].uid
        PROVE  i = j
    <3>1. <<Gen, i>> = <<Gen, j>>
      BY <1>2, <1>3, <2>1
    <3>2. QED
      BY <3>1
  <2>2. QED
    BY <2>1 DEF Distinct
<1>5. ASSUME NEW l \in DOMAIN c, NEW k \in DOMAIN c[l]
      PROVE  NewBar(c[l][k], Gen, "any")
  <2>1. c[l][k].uid = <<Gen, k>> /\ IsMusic(c[l][k].events)
    BY <1>3
  <2>2. c[l][k].uid[1] = Gen
    BY <2>1
  <2>3. QED
    BY <2>1, <2>2 DEF NewBar, Fits
<1>6. QED
  BY <1>1, <1>4, <1>5 DEF NewBars

LEMMA AppendTurned ==
  ASSUME NEW s, NEW m, NEW h, Laid(s, m, m, h), NEW g, NEW how, Turnable(s.lines, g),
         NEW new, NewBars(new, g, how), NEW next, next = AppendMeasures(s, new)
  PROVE  Turned(s.lines, next.lines, g, how)
<1> DEFINE mid == Inserted(s, new, Count(s))
           lines == [l \in Voices(s) |-> [mid.lines[l] EXCEPT ![Count(s)].part = FALSE]]
<1>1. /\ m \in Nat /\ Count(s) = m /\ m <= m /\ Offered(new) /\ Older(s.lines["p"], g)
      /\ "p" \in Voices(s)
  BY CountLaid DEF NewBars, Turnable, Matched, IsBundle, Voices
<1>2. Turned(s.lines, mid.lines, g, how)
  BY <1>1, TurnedSelf, NewBrought, InsertedTurned
<1>3. next = [mid EXCEPT !.lines = lines]
  BY DEF AppendMeasures, EachVoice
<1>4. HasFields(mid)
  BY OtherLines DEF Inserted, EachVoice, Laid
<1>5. PICK n : Laid(mid, n, m, h)
  BY <1>1, InsertedLaid
<1>6. DOMAIN mid.lines = Voices(s)
  BY <1>2 DEF Turned, Voices
<1> HIDE DEF mid
<1>7. \A l \in DOMAIN mid.lines : Kept(mid.lines[l], lines[l])
  <2>1. ASSUME NEW l \in DOMAIN mid.lines
        PROVE  Kept(mid.lines[l], lines[l])
    <3>1. IsVoice(mid.lines[l])
      BY <1>5 DEF Laid, Matched, IsBundle
    <3>2. lines[l] = [mid.lines[l] EXCEPT ![Count(s)].part = FALSE]
      BY <1>6
    <3>3. QED
      BY <3>1, <3>2, KeptOne
  <2>2. QED
    BY <2>1
<1>8. next.lines = lines /\ DOMAIN lines = DOMAIN mid.lines
  BY <1>3, <1>4, <1>6, OtherLines
<1> HIDE DEF lines
<1>9. QED
  BY <1>1, <1>2, <1>6, <1>7, <1>8, TurnedKept

\* What is left when the measures from a to b go.
LEMMA LeftOver ==
  ASSUME NEW s, NEW m, NEW n, NEW h, Laid(s, m, n, h), NEW a \in 1 .. m, NEW b \in a .. m,
         NEW next, next = Replaced(s, a, b, Nothing), NEW j \in DOMAIN next.lines["p"]
  PROVE  \E x \in DOMAIN s.lines["p"] : x \notin a .. b /\ next.lines["p"][j] = s.lines["p"][x]
<1> DEFINE q == s.lines["p"]
           w == next.lines["p"]
           r == TagLast(MeasuresFor(Nothing, "p"), b = Count(s) /\ EndsPartial(s))
<1>1. /\ IsVoice(q) /\ Len(q) = m /\ m \in Nat /\ HasFields(s) /\ DOMAIN q = 1 .. m
      /\ "p" \in DOMAIN s.lines
  BY VoiceFacts DEF Laid, Matched, IsBundle
<1>2. r = <<>>
  BY DEF MeasuresFor, Nothing, TagLast
<1>3. w = Splice(q, a - 1, r, b)
  <2>1. next.lines = [l \in DOMAIN s.lines |->
          Splice(s.lines[l], a - 1, TagLast(MeasuresFor(Nothing, l), b = Count(s) /\ EndsPartial(s)),
                 b)]
    BY <1>1, OtherLines DEF Replaced, EachVoice, Voices, Splice
  <2>2. QED
    BY <1>1, <2>1
<1> HIDE DEF q, w, r
<1>4. IsVoice(r) /\ Len(r) = 0
  BY <1>2 DEF IsVoice, IsSequence
<1>5. a - 1 \in Nat /\ b \in Nat /\ a - 1 <= b /\ b <= Len(q)
  BY <1>1
<1>6. IsSplice(q, a - 1, r, b, w)
  BY <1>1, <1>3, <1>4, <1>5, Splicing
<1> DEFINE c == a - 1
           x == IF j <= c THEN j ELSE j - c - 0 + b
<1>7. /\ j \in 1 .. Len(w) /\ Len(w) = c + 0 + (m - b)
      /\ w[j] = IF j <= c THEN q[j] ELSE IF j <= c + 0 THEN r[j - c] ELSE q[j - c - 0 + b]
  BY <1>1, <1>4, <1>6 DEF IsSplice, w
<1>8. w[j] = q[x]
  BY <1>1, <1>5, <1>7
<1>9. x \in 1 .. m /\ x \notin a .. b
  BY <1>1, <1>5, <1>7
<1> HIDE DEF x, c
<1>10. QED
  BY <1>1, <1>8, <1>9 DEF q, w

LEMMA MoveTurned ==
  ASSUME NEW s, NEW m, NEW h, Whole(s, m, h), NEW g, NEW how, Turnable(s.lines, g),
         NEW a \in 1 .. m, NEW b \in a .. m, NEW after \in 0 .. m, after \notin (a - 1) .. b,
         NEW next, next = MoveRange(s, a, b, after)
  PROVE  Turned(s.lines, next.lines, g, how)
<1> DEFINE k == b - a + 1
           c == (a - 1) + 0 + (m - b)
           dest == IF after > b THEN after - k ELSE after
           d == dest + 1 - a
           t == Stripped(s, a, b)
           u == Replaced(t, a, b, Nothing)
           to == ReplaceIdx(Count(s), a, b, 0)
           left == Remapped(u, to)
           new == Captured(s, a, b)
           v == Inserted(left, new, dest)
           back == InsertIdx(Count(left), dest, k)
           moved == Remapped(v, back)
           put == Reattached(moved, InRange(s, a, b), d)
<1>1. next = FlagOnlyLast(put, EndsPartial(s))
  BY DEF MoveRange
<1>2. /\ Laid(s, m, m, h) /\ Count(s) = m /\ m \in Nat /\ Older(s.lines["p"], g)
      /\ Distinct(s.lines["p"]) /\ Matched(s.lines) /\ "p" \in DOMAIN s.lines
  BY CountLaid DEF Whole, Turnable, Matched, IsBundle
<1>3. k \in Nat /\ c \in Nat /\ c + k = m /\ dest \in Nat /\ dest <= c
  BY <1>2
<1>4. Laid(t, m, m, h) /\ t.lines = s.lines
  BY <1>2, StrippedLaid
<1>5. Maps(to, m, c)
  BY <1>2, ReplaceMaps
<1>6. /\ Laid(u, c, m, h) /\ Turned(s.lines, u.lines, g, how)
      /\ \A j \in DOMAIN u.lines["p"] : \E x \in DOMAIN s.lines["p"] :
           x \notin a .. b /\ u.lines["p"][j] = s.lines["p"][x]
  <2> HIDE DEF t
  <2>1. Laid(u, c, m, h)
    BY <1>4, NothingOffered, ReplacedLaid
  <2>2. Turned(s.lines, u.lines, g, how)
    BY <1>2, <1>4, TurnedSelf, NothingNew, NothingOffered, NewBrought, ReplacedTurned
  <2>3. QED
    BY <1>4, <2>1, <2>2, LeftOver
<1> HIDE DEF t, u, to
<1>7. Laid(left, c, c, h) /\ left.lines = u.lines
  BY <1>5, <1>6, RemappedLaid, RemappedFields DEF Laid
<1> HIDE DEF left
<1>8. /\ Offered(new) /\ Len(new["p"]) = k /\ DOMAIN new = DOMAIN s.lines
      /\ \A l \in DOMAIN s.lines : IsPart(s.lines[l], a, b, new[l])
  BY <1>2, CapturedIs
<1> HIDE DEF new, dest
<1>9. Brought(s.lines, left.lines, dest, new, dest, g, how)
  <2>1. \A l \in DOMAIN s.lines : MeasuresFor(new, l) = new[l]
    BY <1>2, <1>8 DEF MeasuresFor, IsPart
  <2>2. DOMAIN left.lines = DOMAIN s.lines
    BY <1>6, <1>7 DEF Turned
  <2>3. ASSUME NEW l \in DOMAIN s.lines
        PROVE  Came(s.lines[l], new[l], g, how)
    <3>1. IsVoice(s.lines[l]) /\ Scored(s.lines[l])
      BY DEF Turnable, Matched, IsBundle
    <3>2. ASSUME NEW i \in DOMAIN new[l]
          PROVE  Has(s.lines[l], new[l][i])
      <4>1. a + i - 1 \in DOMAIN s.lines[l] /\ new[l][i] = s.lines[l][a + i - 1]
        BY <1>8, <3>1, PartOf
      <4>2. Continues(s.lines[l][a + i - 1].events, new[l][i].events)
        BY <3>1, <4>1, ContinuesSelf DEF Scored
      <4>3. QED
        BY <4>1, <4>2 DEF Has
    <3>3. QED
      BY <3>2 DEF Came
  <2>4. ASSUME NEW i \in DOMAIN new["p"]
        PROVE  /\ a + i - 1 \in DOMAIN s.lines["p"] /\ new["p"][i] = s.lines["p"][a + i - 1]
               /\ a + i - 1 \in a .. b /\ i \in Nat
    <3>1. IsVoice(s.lines["p"]) /\ IsPart(s.lines["p"], a, b, new["p"])
      BY <1>2, <1>8 DEF Matched, IsBundle
    <3>2. /\ a + i - 1 \in DOMAIN s.lines["p"] /\ new["p"][i] = s.lines["p"][a + i - 1]
          /\ i \in 1 .. b - a + 1
      BY <3>1, PartOf
    <3>3. a + i - 1 \in a .. b /\ i \in Nat
      BY <1>2, <3>2
    <3>4. QED
      BY <3>2, <3>3
  <2>5. Distinct(new["p"])
    <3>1. ASSUME NEW i \in DOMAIN new["p"], NEW j \in DOMAIN new["p"], new["p"][i].uid = new["p"][j].uid
          PROVE  i = j
      <4>1. a + i - 1 = a + j - 1
        BY <1>2, <2>4, <3>1 DEF Distinct
      <4>2. QED
        BY <2>4, <4>1
    <3>2. QED
      BY <3>1 DEF Distinct
  <2>6. ASSUME NEW i \in DOMAIN new["p"], NEW j \in DOMAIN left.lines["p"]
        PROVE  new["p"][i].uid # left.lines["p"][j].uid
    <3>1. PICK x \in DOMAIN s.lines["p"] :
            x \notin a .. b /\ left.lines["p"][j] = s.lines["p"][x]
      BY <1>6, <1>7
    <3>2. a + i - 1 # x
      BY <2>4, <3>1
    <3>3. QED
      BY <1>2, <2>4, <3>1, <3>2 DEF Distinct
  <2>7. QED
    BY <1>2, <2>1, <2>2, <2>3, <2>5, <2>6 DEF Brought, Foreign
<1>10. Turned(s.lines, v.lines, g, how)
  BY <1>3, <1>6, <1>7, <1>8, <1>9, InsertedTurned
<1> HIDE DEF k, c
<1>11. Laid(v, c + k, c, h) /\ Count(left) = c
  BY <1>3, <1>7, <1>8, InsertedLaid, CountLaid
<1>12. Maps(back, c, c + k)
  BY <1>3, <1>11, InsertMaps
<1> HIDE DEF v, back
<1>13. Laid(moved, c + k, c + k, h) /\ moved.lines = v.lines
  BY <1>11, <1>12, RemappedLaid, RemappedFields DEF Laid
<1> HIDE DEF moved
<1>14. put.lines = moved.lines /\ "p" \in DOMAIN put.lines
  BY <1>13 DEF Reattached, Laid, HasFields, Matched, IsBundle
<1>15. /\ DOMAIN next.lines = DOMAIN put.lines
       /\ \A l \in DOMAIN put.lines : Kept(put.lines[l], next.lines[l])
  <2> DEFINE w == FlagOnlyLast(moved, EndsPartial(s))
  <2>1. /\ DOMAIN w.lines = DOMAIN moved.lines
        /\ \A l \in DOMAIN moved.lines : Kept(moved.lines[l], w.lines[l])
    BY <1>13, KeptFlagged
  <2>2. HasFields(put) /\ HasFields(moved)
    <3> DEFINE e == InRange(s, a, b)
               P == moved.points \union {[p EXCEPT !.at = @ + d] : p \in e.points}
               J == moved.jumps \union {[j EXCEPT !.at = @ + d] : j \in e.jumps}
               R == moved.ranges \union {[r EXCEPT !.from = @ + d, !.to = @ + d] : r \in e.ranges}
    <3>1. put = [moved EXCEPT !.points = P, !.jumps = J, !.ranges = R]
      BY DEF Reattached
    <3>2. HasFields(moved)
      BY <1>13 DEF Laid
    <3> HIDE DEF P, J, R, put
    <3>3. QED
      BY <3>1, <3>2 DEF HasFields
  <2> HIDE DEF put
  <2>3. /\ next.lines = [l \in DOMAIN put.lines |-> [i \in DOMAIN put.lines[l] |->
                [put.lines[l][i] EXCEPT !.part = i = Len(put.lines[l]) /\ EndsPartial(s)]]]
        /\ w.lines = [l \in DOMAIN moved.lines |-> [i \in DOMAIN moved.lines[l] |->
                [moved.lines[l][i] EXCEPT !.part = i = Len(moved.lines[l]) /\ EndsPartial(s)]]]
    BY <1>1, <2>2, OtherLines DEF FlagOnlyLast, EachVoice, Voices
  <2>4. next.lines = w.lines
    BY <1>14, <2>3
  <2>5. QED
    BY <1>14, <2>1, <2>4
<1>16. Turned(s.lines, put.lines, g, how)
  BY <1>10, <1>13, <1>14
<1> HIDE DEF put
<1>17. QED
  BY <1>14, <1>15, <1>16, TurnedKept

LEMMA BackfilledTurned ==
  ASSUME NEW s, NEW m, NEW h, Whole(s, m, h), NEW o, NEW g, NEW how, Turned(o, s.lines, g, how),
         \A l \in DOMAIN s.lines : Scored(s.lines[l]), NEW next, next = Backfilled(s)
  PROVE  Turned(o, next.lines, g, how)
<1> DEFINE voice(l) == [k \in DOMAIN s.lines[l] |->
                          [s.lines[l][k] EXCEPT !.events = WithIds(l, k, @)]]
           lines == [l \in DOMAIN s.lines |-> voice(l)]
<1>1. next.lines = lines
  BY VoicesAre, OtherLines DEF Backfilled, Voices
<1>2. ASSUME NEW l \in DOMAIN s.lines, NEW k \in DOMAIN s.lines[l]
      PROVE  /\ lines[l][k].uid = s.lines[l][k].uid
             /\ Continues(s.lines[l][k].events, lines[l][k].events)
  <2> DEFINE b == s.lines[l][k]
             x == b.events
             y == WithIds(l, k, x)
             d == lines[l][k]
  <2>1. b = [uid |-> b.uid, part |-> b.part, events |-> b.events] /\ IsMusic(x)
    <3>1. IsVoice(s.lines[l]) /\ Scored(s.lines[l])
      BY VoicesAre
    <3>2. QED
      BY <3>1 DEF IsVoice, Scored
  <2>2. d = [b EXCEPT !.events = y]
    OBVIOUS
  <2>3. y = [i \in DOMAIN x |-> IF x[i].id # NoId THEN x[i]
                                ELSE [x[i] EXCEPT !.id = Derived(l, k, i, x[i])]]
    BY DEF WithIds
  <2> HIDE DEF d, y, b, lines
  <2>4. d.uid = b.uid /\ d.events = y
    BY <2>1, <2>2
  <2> HIDE DEF x
  <2>5. Continues(x, y)
    <3>1. Len(x) \in Nat /\ DOMAIN x = 1 .. Len(x) /\ \A i \in 1 .. Len(x) : IsEvent(x[i])
      BY <2>1, MusicIs DEF IsMusic
    <3>2. y = [i \in 1 .. Len(x) |-> y[i]]
      BY <2>3, <3>1
    <3>3. IsSequence(y) /\ Len(y) = Len(x)
      BY <3>1, <3>2, FunctionIs
    <3>4. ASSUME NEW i \in 1 .. Len(x)
          PROVE  IsEvent(y[i]) /\ y[i].u = x[i].u /\ y[i].rest = x[i].rest /\ y[i].tup = x[i].tup
      <4> DEFINE e == x[i]
                 f == y[i]
                 name == Derived(l, k, i, x[i])
      <4>1. IsEvent(e) /\ (f = e \/ f = [e EXCEPT !.id = name])
        BY <2>3, <3>1
      <4> HIDE DEF e, f, name
      <4>2. e = [id |-> e.id, u |-> e.u, rest |-> e.rest, tup |-> e.tup]
        BY <4>1 DEF IsEvent
      <4>3. CASE f = e
        BY <4>1, <4>3 DEF e, f
      <4>4. CASE f = [e EXCEPT !.id = name]
        <5>1. f = [id |-> name, u |-> e.u, rest |-> e.rest, tup |-> e.tup]
          BY <4>2, <4>4
        <5>2. f.id = name /\ f.u = e.u /\ f.rest = e.rest /\ f.tup = e.tup
          BY <5>1
        <5>3. f = [id |-> f.id, u |-> f.u, rest |-> f.rest, tup |-> f.tup]
          BY <5>1, <5>2
        <5>4. f.u \in Durations /\ f.rest \in BOOLEAN /\ f.tup \in BOOLEAN
          BY <4>1, <5>2 DEF IsEvent
        <5>5. IsEvent(f)
          BY <5>3, <5>4 DEF IsEvent
        <5>6. QED
          BY <5>2, <5>5 DEF e, f
      <4>5. QED
        BY <4>1, <4>3, <4>4
    <3>5. \A i \in 1 .. Len(x) : x[i].id # NoId => y[i].id = x[i].id
      BY <2>3, <3>1
    <3>6. Alike(x, y)
      BY <3>3, <3>4 DEF Alike
    <3>7. QED
      BY <3>5, <3>6 DEF Continues
  <2>6. QED
    BY <2>4, <2>5 DEF d, b, x
<1>3. DOMAIN lines = DOMAIN s.lines /\ \A l \in DOMAIN s.lines : DOMAIN lines[l] = DOMAIN s.lines[l]
  OBVIOUS
<1> HIDE DEF lines
<1>4. ASSUME NEW l \in DOMAIN o
      PROVE  Came(o[l], lines[l], g, how)
  <2>1. l \in DOMAIN s.lines /\ Came(o[l], s.lines[l], g, how)
    BY DEF Turned
  <2>2. Came(s.lines[l], lines[l], g, how)
    BY <1>2, <1>3, <2>1 DEF Came, Has
  <2>3. QED
    BY <2>1, <2>2, CameTwice
<1>5. Distinct(lines["p"])
  <2>1. "p" \in DOMAIN s.lines /\ Distinct(s.lines["p"])
    BY VoicesAre DEF Turned
  <2>2. QED
    BY <1>2, <1>3, <2>1 DEF Distinct
<1>6. QED
  BY <1>1, <1>3, <1>4, <1>5 DEF Turned

LEMMA RestNew ==
  ASSUME NEW g, NEW how, NEW c, c = [l \in {"p"} |-> <<RestBar(<<g, 1>>)>>]
  PROVE  NewBars(c, g, how)
<1> DEFINE b == RestBar(<<g, 1>>)
<1>1. Offered(c)
  BY RestOffered
<1>2. b.uid = <<g, 1>> /\ Fits(b.events, how)
  BY RestsFit
<1> HIDE DEF b
<1>3. c["p"] = <<b>> /\ DOMAIN c = {"p"}
  BY DEF b
<1>4. DOMAIN c["p"] = {1} /\ c["p"][1] = b
  BY <1>3
<1>5. b.uid[1] = g
  BY <1>2
<1>6. NewBar(b, g, how)
  BY <1>2, <1>5 DEF NewBar
<1>7. QED
  BY <1>1, <1>3, <1>4, <1>6 DEF NewBars, Distinct

-----------------------------------------------------------------------------
(* Scores that stay in time *)

\* Every measure of the voices is in time.
Timed(lines) == \A l \in DOMAIN lines : \A m \in DOMAIN lines[l] : InTime(lines[l][m].events)

\* The score and the copied measures are in time, and no measure is there twice
\* or brought in again.
TimeInv == Timed(score.lines) /\ Timed(clip.new) /\ Apart(score, edits)

LEMMA PlayableTimed ==
  ASSUME NEW lines, Playable(lines)
  PROVE  Timed(lines)
<1>1. ASSUME NEW l \in DOMAIN lines, NEW m \in DOMAIN lines[l]
      PROVE  InTime(lines[l][m].events)
  <2> DEFINE x == lines[l][m].events
  <2>1. IsMusic(x) /\ Sounds(x) <= 3 * Capacity /\ WholeTriplets(x)
    BY DEF Playable
  <2> HIDE DEF x
  <2>2. InTime(x)
    BY <2>1, WholeIsThrees DEF InTime
  <2>3. QED
    BY <2>2 DEF x
<1>2. QED
  BY <1>1 DEF Timed

LEMMA InitTime ==
  ASSUME Init
  PROVE  TimeInv
<1>1. PICK start \in Initial : score = start.score /\ clip = start.clip /\ edits = start.edits
  BY DEF Init
<1>2. Playable(score.lines) /\ Playable(clip.new) /\ Apart(score, edits)
  BY <1>1, ScoreEditsAssumption
<1>3. QED
  BY <1>2, PlayableTimed DEF TimeInv

LEMMA FullIs ==
  ASSUME NEW b, IsMusic(b.events)
  PROVE  Full(b) <=> FullBar(b.events)
BY DEF Full, FullBar, Clean

\* What the user's edits bring in: full measures, if all there are are full.
Brings == IF AllFull(score.lines) /\ AllFull(clip.new) THEN "full" ELSE "timed"

LEMMA HadFits ==
  ASSUME TimeInv
  PROVE  /\ Brings # "any"
         /\ \A l \in DOMAIN score.lines : \A k \in DOMAIN score.lines[l] :
              Fits(score.lines[l][k].events, Brings)
         /\ \A l \in DOMAIN clip.new : \A k \in DOMAIN clip.new[l] :
              Fits(clip.new[l][k].events, Brings)
<1>1. ASSUME NEW b, InTime(b.events), Brings = "full" => Full(b)
      PROVE  Fits(b.events, Brings)
  <2>1. IsMusic(b.events)
    BY <1>1 DEF InTime
  <2>2. QED
    BY <1>1, <2>1, FullIs DEF Fits
<1>2. Brings # "any" /\ (Brings = "full" => AllFull(score.lines) /\ AllFull(clip.new))
  BY DEF Brings
<1> HIDE DEF Brings
<1>3. \A l \in DOMAIN score.lines : \A k \in DOMAIN score.lines[l] :
        Fits(score.lines[l][k].events, Brings)
  BY <1>1, <1>2 DEF AllFull, TimeInv, Timed
<1>4. \A l \in DOMAIN clip.new : \A k \in DOMAIN clip.new[l] : Fits(clip.new[l][k].events, Brings)
  BY <1>1, <1>2 DEF AllFull, TimeInv, Timed
<1>5. QED
  BY <1>2, <1>3, <1>4

\* The voices of lines follow on those of o: the ones there were came from them
\* by the g-th edit, the others are of full measures.
Follows(o, lines, g, how) ==
  /\ \A l \in DOMAIN lines \cap DOMAIN o : Came(o[l], lines[l], g, how)
  /\ \A l \in DOMAIN lines \ DOMAIN o : \A m \in DOMAIN lines[l] : FullBar(lines[l][m].events)
  /\ Distinct(lines["p"])

LEMMA TurnedFollows ==
  ASSUME NEW o, NEW lines, NEW g, NEW how, Turned(o, lines, g, how)
  PROVE  Follows(o, lines, g, how)
BY DEF Turned, Follows

LEMMA ScoreTurnable ==
  ASSUME ScoreInv, TimeInv, More
  PROVE  Turnable(score.lines, Gen) /\ Gen \in edits + 1 .. MaxEdits /\ edits \in Nat
<1>1. Matched(score.lines) /\ edits \in Nat
  BY Standings DEF Laid
<1>2. MaxEdits \in Nat
  BY ScoreEditsAssumption
<1>3. Gen \in edits + 1 .. MaxEdits
  BY <1>1, <1>2 DEF Gen, More
<1>4. DOMAIN score.lines["p"] = Bars(score)
  BY <1>1, VoiceFacts DEF Matched, IsBundle, Bars, Count
<1>5. Distinct(score.lines["p"]) /\ Older(score.lines["p"], Gen)
  BY <1>3, <1>4 DEF TimeInv, Apart, UidOf, Distinct, Older
<1>6. \A l \in DOMAIN score.lines : Scored(score.lines[l])
  BY DEF TimeInv, Timed, InTime, Scored
<1>7. QED
  BY <1>1, <1>3, <1>5, <1>6 DEF Turnable

LEMMA SameFollows ==
  ASSUME ScoreInv, TimeInv, More, NEW g, NEW how
  PROVE  Follows(score.lines, score.lines, g, how)
<1>1. Turnable(score.lines, Gen)
  BY ScoreTurnable
<1>2. \A l \in DOMAIN score.lines : Came(score.lines[l], score.lines[l], g, how)
  BY <1>1, CameSelf DEF Turnable
<1>3. QED
  BY <1>1, <1>2 DEF Follows, Turnable

\* Every measure of the voices is full.
Filled(lines) == \A l \in DOMAIN lines : \A m \in DOMAIN lines[l] : FullBar(lines[l][m].events)
\* The voices are music.
Sung(lines) == \A l \in DOMAIN lines : Scored(lines[l])

LEMMA FollowsTimed ==
  ASSUME NEW o, NEW lines, NEW g, NEW how, Follows(o, lines, g, how)
  PROVE  /\ how # "any" /\ Timed(o) => Timed(lines)
         /\ Sung(o) => Sung(lines)
         /\ how = "full" /\ Filled(o) => Filled(lines)
<1>1. ASSUME NEW l \in DOMAIN lines, NEW m \in DOMAIN lines[l], l \in DOMAIN o, Sung(o)
      PROVE  /\ IsMusic(lines[l][m].events)
             /\ how # "any" /\ Timed(o) => InTime(lines[l][m].events)
             /\ how = "full" /\ Filled(o) => FullBar(lines[l][m].events)
  <2> DEFINE x == lines[l][m].events
  <2>1. Has(o[l], lines[l][m]) \/ NewBar(lines[l][m], g, how)
    BY <1>1 DEF Follows, Came
  <2>2. CASE Has(o[l], lines[l][m])
    <3>1. PICK n \in DOMAIN o[l] : Alike(o[l][n].events, x)
      BY <2>2 DEF Has, Continues
    <3>2. IsMusic(o[l][n].events)
      BY <1>1 DEF Scored, Sung
    <3>3. /\ IsMusic(x) /\ (InTime(o[l][n].events) => InTime(x))
          /\ FullBar(o[l][n].events) => FullBar(x)
      BY <3>1, <3>2, AlikeKeeps
    <3>4. QED
      BY <1>1, <3>3 DEF Timed, Filled
  <2>3. CASE NewBar(lines[l][m], g, how)
    BY <2>3 DEF NewBar, Fits
  <2>4. QED
    BY <2>1, <2>2, <2>3
<1>2. ASSUME NEW l \in DOMAIN lines, NEW m \in DOMAIN lines[l], l \notin DOMAIN o
      PROVE  /\ IsMusic(lines[l][m].events) /\ InTime(lines[l][m].events)
             /\ FullBar(lines[l][m].events)
  <2>1. FullBar(lines[l][m].events)
    BY <1>2 DEF Follows
  <2>2. QED
    BY <2>1, FullInTime DEF FullBar
<1>3. (Timed(o) => Sung(o)) /\ (Filled(o) => Sung(o))
  BY DEF Timed, InTime, Filled, FullBar, Scored, Sung
<1>4. how # "any" /\ Timed(o) => Timed(lines)
  BY <1>1, <1>2, <1>3 DEF Timed
<1>5. Sung(o) => Sung(lines)
  BY <1>1, <1>2 DEF Sung, Scored
<1>6. how = "full" /\ Filled(o) => Filled(lines)
  BY <1>1, <1>2, <1>3 DEF Filled
<1>7. QED
  BY <1>4, <1>5, <1>6

\* An edit of entries leaves the voices alone.
LinesStay ==
  /\ More /\ score'.lines = score.lines /\ clip' = clip /\ edits' = edits + 1
  /\ last' \notin {"balanced", "model"}

Fields == {"points", "ranges", "jumps", "spans"}

LEMMA FieldStays ==
  ASSUME ScoreInv, NEW field \in Fields, NEW x, Becomes([score EXCEPT ![field] = x], "entry")
  PROVE  LinesStay
<1>1. HasFields(score)
  BY Standings DEF Laid
<1>2. [score EXCEPT ![field] = x].lines = score.lines
  BY <1>1 DEF Fields, HasFields
<1>3. QED
  BY <1>2 DEF Becomes, LinesStay

LEMMA EntryStays ==
  ASSUME ScoreInv, NEW field \in Fields
  PROVE  /\ \A e : Put(field, e) => LinesStay
         /\ \A kinds : Drop(field, kinds) => LinesStay
         /\ \A x, y : Change(field, x, y) => LinesStay
<1>1. \A e : Put(field, e) => LinesStay
  BY FieldStays DEF Put
<1>2. \A kinds : Drop(field, kinds) => LinesStay
  BY FieldStays DEF Drop
<1>3. \A x, y : Change(field, x, y) => LinesStay
  BY FieldStays DEF Change
<1>4. QED
  BY <1>1, <1>2, <1>3

LEMMA EntriesStay ==
  ASSUME ScoreInv,
         \/ AddTechnique \/ RemoveTechnique
         \/ AddMarker \/ RemoveMarker \/ UpdateMarker
         \/ AddAnnotation \/ RemoveAnnotation \/ UpdateAnnotation
         \/ AddVolta \/ RemoveVolta \/ UpdateVolta
         \/ AddJump \/ RemoveJump \/ UpdateJump
         \/ AddSpan \/ RemoveSpan \/ UpdateSpan
  PROVE  LinesStay
<1>1. ASSUME NEW field \in Fields
      PROVE  /\ \A e : Put(field, e) => LinesStay
             /\ \A kinds : Drop(field, kinds) => LinesStay
             /\ \A x, y : Change(field, x, y) => LinesStay
  BY EntryStays
<1>2. Fields = {"points", "ranges", "jumps", "spans"}
  BY DEF Fields
<1>3. CASE AddTechnique \/ RemoveTechnique \/ AddMarker \/ RemoveMarker \/ UpdateMarker
  BY <1>1, <1>2, <1>3 DEF AddTechnique, RemoveTechnique, AddMarker, RemoveMarker, UpdateMarker
<1>4. CASE AddAnnotation \/ RemoveAnnotation \/ UpdateAnnotation
  BY <1>1, <1>2, <1>4 DEF AddAnnotation, RemoveAnnotation, UpdateAnnotation, AddRange, UpdateRange
<1>5. CASE AddVolta \/ RemoveVolta \/ UpdateVolta
  BY <1>1, <1>2, <1>5 DEF AddVolta, RemoveVolta, UpdateVolta, AddRange, UpdateRange
<1>6. CASE AddJump \/ UpdateJump
  BY <1>1, <1>2, <1>6 DEF AddJump, UpdateJump
<1>7. CASE RemoveJump
  <2>1. PICK j \in score.jumps :
          Becomes([score EXCEPT !.jumps =
                    {[k EXCEPT !.tocoda = IF @ = j.id THEN 0 ELSE @] : k \in @ \ {j}}], "entry")
    BY <1>7 DEF RemoveJump
  <2> DEFINE J == {[k EXCEPT !.tocoda = IF @ = j.id THEN 0 ELSE @] : k \in score.jumps \ {j}}
  <2>2. Becomes([score EXCEPT !["jumps"] = J], "entry")
    BY <2>1
  <2> HIDE DEF J
  <2>3. QED
    BY <1>2, <2>2, FieldStays
<1>8. CASE AddSpan \/ UpdateSpan
  BY <1>1, <1>2, <1>8 DEF AddSpan, UpdateSpan
<1>9. CASE RemoveSpan
  <2>1. PICK x \in score.spans : Becomes([score EXCEPT !.spans = @ \ {x}], "entry")
    BY <1>9 DEF RemoveSpan
  <2> DEFINE S == score.spans \ {x}
  <2>2. Becomes([score EXCEPT !["spans"] = S], "entry")
    BY <2>1
  <2> HIDE DEF S
  <2>3. QED
    BY <1>2, <2>2, FieldStays
<1>10. QED
  BY <1>3, <1>4, <1>5, <1>6, <1>7, <1>8, <1>9

\* A step that is no edit of the notes of a measure.
StepFollows(how) ==
  /\ More /\ Follows(score.lines, score'.lines, Gen, how) /\ edits' = edits + 1
  /\ Timed(score'.lines) /\ Timed(clip'.new) /\ last' # "balanced"
  /\ how = Brings \/ last' = "model"

LEMMA BecomesFollows ==
  ASSUME TimeInv, NEW next, NEW kind, kind \notin {"balanced", "model"}, Becomes(next, kind),
         Follows(score.lines, next.lines, Gen, Brings)
  PROVE  StepFollows(Brings)
<1>1. More /\ score' = next /\ edits' = edits + 1 /\ last' = kind /\ clip' = clip
  BY DEF Becomes
<1>2. Timed(next.lines)
  BY HadFits, FollowsTimed DEF TimeInv
<1>3. QED
  BY <1>1, <1>2 DEF StepFollows, TimeInv

LEMMA StayFollows ==
  ASSUME ScoreInv, TimeInv, LinesStay
  PROVE  StepFollows(Brings)
<1>1. Follows(score.lines, score'.lines, Gen, Brings)
  BY SameFollows DEF LinesStay
<1>2. QED
  BY <1>1 DEF LinesStay, StepFollows, TimeInv

LEMMA MeasuresFollow ==
  ASSUME ScoreInv, TimeInv, AddMeasure \/ Duplicate \/ Delete \/ Move
  PROVE  StepFollows(Brings)
<1> DEFINE m == Count(score)
           o == score.lines
<1>1. /\ m \in Nat /\ edits \in Nat /\ Laid(score, m, m, edits) /\ Whole(score, m, edits)
      /\ \A r \in Stretches : r[1] \in 1 .. m /\ r[2] \in r[1] .. m
  BY Standings
<1>2. More
  BY DEF AddMeasure, Duplicate, Delete, Move, Becomes
<1>3. Turnable(o, Gen)
  BY <1>2, ScoreTurnable
<1> HIDE DEF m
<1>4. CASE AddMeasure
  <2> DEFINE new == [l \in {"p"} |-> <<RestBar(<<Gen, 1>>)>>]
             next == Inserted(score, new, m)
  <2>1. Becomes(next, "bars")
    BY <1>4 DEF AddMeasure, m
  <2>2. NewBars(new, Gen, Brings)
    BY RestNew
  <2> HIDE DEF new
  <2>3. Offered(new) /\ Older(o["p"], Gen) /\ Turned(o, o, Gen, Brings) /\ m \in Nat /\ m <= m
    BY <1>1, <1>3, <2>2, TurnedSelf DEF NewBars, Turnable
  <2>4. Brought(o, o, m, new, m, Gen, Brings)
    BY <2>2, <2>3, NewBrought
  <2>5. Turned(o, next.lines, Gen, Brings)
    BY <1>1, <2>3, <2>4, InsertedTurned
  <2> HIDE DEF next
  <2>6. QED
    BY <2>1, <2>5, TurnedFollows, BecomesFollows
<1>5. CASE Duplicate
  <2>1. PICK r \in Stretches, after \in 0 .. m :
          Becomes(DuplicateRange(score, r[1], r[2], after, Gen), "bars")
    BY <1>5 DEF Duplicate, m
  <2> DEFINE next == DuplicateRange(score, r[1], r[2], after, Gen)
  <2>2. Turned(o, next.lines, Gen, Brings)
    BY <1>1, <1>3, HadFits, DuplicateTurned
  <2> HIDE DEF next
  <2>3. QED
    BY <2>1, <2>2, TurnedFollows, BecomesFollows DEF next
<1>6. CASE Delete
  <2>1. PICK r \in Stretches : Becomes(DeleteRange(score, r[1], r[2]), "bars")
    BY <1>6 DEF Delete
  <2> DEFINE next == DeleteRange(score, r[1], r[2])
  <2>2. Turned(o, next.lines, Gen, Brings)
    BY <1>1, <1>3, DeleteTurned
  <2> HIDE DEF next
  <2>3. QED
    BY <2>1, <2>2, TurnedFollows, BecomesFollows DEF next
<1>7. CASE Move
  <2>1. PICK r \in Stretches, after \in 0 .. m :
          after \notin (r[1] - 1)..r[2] /\ Becomes(MoveRange(score, r[1], r[2], after), "move")
    BY <1>7 DEF Move, m
  <2> DEFINE next == MoveRange(score, r[1], r[2], after)
  <2>2. Turned(o, next.lines, Gen, Brings)
    BY <1>1, <1>3, <2>1, MoveTurned
  <2> HIDE DEF next
  <2>3. QED
    BY <2>1, <2>2, TurnedFollows, BecomesFollows DEF next
<1>8. QED
  BY <1>4, <1>5, <1>6, <1>7

LEMMA PastesFollow ==
  ASSUME ScoreInv, TimeInv, PasteAfter \/ PasteOver
  PROVE  StepFollows(Brings)
<1> DEFINE m == Count(score)
           o == score.lines
           new == Cloned(clip.new, Gen)
           spans == SpansCarried(clip.new, clip.spans, Gen)
<1>1. /\ m \in Nat /\ Laid(score, m, m, edits)
      /\ \A r \in Stretches : r[1] \in 1 .. m /\ r[2] \in r[1] .. m
  BY Standings
<1>2. More
  BY DEF PasteAfter, PasteOver, Becomes
<1>3. Turnable(o, Gen)
  BY <1>2, ScoreTurnable
<1>4. NewBars(new, Gen, Brings)
  BY HadFits, ClonedNew DEF ScoreInv, ClipStands
<1> HIDE DEF m, new, spans
<1>5. CASE PasteAfter
  <2>1. PICK after \in Bars(score) :
          Becomes(InsertMeasuresAfter(score, new, spans, after), "paste")
    BY <1>5 DEF PasteAfter, new, spans
  <2>2. after \in 0 .. m
    BY <1>1, <2>1 DEF Bars, m
  <2> DEFINE next == InsertMeasuresAfter(score, new, spans, after)
  <2>3. Turned(o, next.lines, Gen, Brings)
    BY <1>1, <1>3, <1>4, <2>2, InsertTurned
  <2> HIDE DEF next
  <2>4. QED
    BY <2>1, <2>3, TurnedFollows, BecomesFollows DEF next
<1>6. CASE PasteOver
  <2>1. PICK r \in Stretches : Becomes(RegionReplace(score, r[1], r[2], new, spans), "paste")
    BY <1>6 DEF PasteOver, new, spans
  <2> DEFINE next == RegionReplace(score, r[1], r[2], new, spans)
  <2>2. Turned(o, next.lines, Gen, Brings)
    BY <1>1, <1>3, <1>4, RegionTurned
  <2> HIDE DEF next
  <2>3. QED
    BY <2>1, <2>2, TurnedFollows, BecomesFollows DEF next
<1>7. QED
  BY <1>5, <1>6

LEMMA CopyFollows ==
  ASSUME ScoreInv, TimeInv, Copy
  PROVE  StepFollows(Brings)
<1>1. PICK r \in Stretches :
        clip' = [new   |-> Captured(score, r[1], r[2]), spans |-> SpansInside(score, r[1], r[2])]
  BY DEF Copy
<1>2. /\ Laid(score, Count(score), Count(score), edits)
      /\ r[1] \in 1 .. Count(score) /\ r[2] \in r[1] .. Count(score)
  BY Standings
<1> DEFINE new == Captured(score, r[1], r[2])
<1>3. \A l \in DOMAIN new : \A k \in DOMAIN new[l] : Fits(new[l][k].events, Brings)
  BY <1>2, HadFits, CapturedFits
<1>4. clip'.new = new
  BY <1>1
<1> HIDE DEF new
<1>5. Timed(clip'.new)
  BY <1>3, <1>4, HadFits DEF Timed, Fits
<1>6. Follows(score.lines, score'.lines, Gen, Brings)
  BY SameFollows DEF Copy
<1>7. QED
  BY <1>5, <1>6 DEF Copy, StepFollows, TimeInv

LEMMA VoicesFollow ==
  ASSUME ScoreInv, TimeInv, AddVoice \/ RemoveVoice \/ AddStaff \/ RemoveStaff
  PROVE  StepFollows(Brings)
<1> DEFINE o == score.lines
<1>1. PICK l \in {"v", "s"} : AddLine(l) \/ RemoveLine(l)
  BY DEF AddVoice, RemoveVoice, AddStaff, RemoveStaff
<1>2. l # "p"
  BY <1>1
<1>3. More
  BY <1>1 DEF AddLine, RemoveLine, Becomes
<1>4. "p" \in DOMAIN o /\ HasFields(score)
  BY Standings DEF Laid, Matched, IsBundle
<1>5. Follows(o, o, Gen, Brings)
  BY <1>3, SameFollows
<1>6. CASE AddLine(l)
  <2> DEFINE lines == [k \in Voices(score) \union {l} |-> IF k = l THEN RestLine ELSE o[k]]
             next == [score EXCEPT !.lines = lines]
  <2>1. Becomes(next, "voice") /\ l \notin DOMAIN o
    BY <1>6 DEF AddLine, Voices
  <2>2. next.lines = lines
    BY <1>4, OtherLines
  <2>3. \A k \in DOMAIN RestLine : FullBar(RestLine[k].events)
    BY RestsFit DEF RestLine
  <2>4. Follows(o, lines, Gen, Brings)
    BY <1>2, <1>4, <1>5, <2>1, <2>3 DEF Follows, Voices
  <2> HIDE DEF lines, next
  <2>5. QED
    BY <2>1, <2>2, <2>4, BecomesFollows
<1>7. CASE RemoveLine(l)
  <2> DEFINE lines == [k \in Voices(score) \ {l} |-> o[k]]
             next == [score EXCEPT !.lines = lines]
  <2>1. Becomes(next, "voice")
    BY <1>7 DEF RemoveLine
  <2>2. next.lines = lines
    BY <1>4, OtherLines
  <2>3. Follows(o, lines, Gen, Brings)
    BY <1>2, <1>4, <1>5 DEF Follows, Voices
  <2> HIDE DEF lines, next
  <2>4. QED
    BY <2>1, <2>2, <2>3, BecomesFollows
<1>8. QED
  BY <1>1, <1>6, <1>7

\* What is valid is in time.
LEMMA ValidTimed ==
  ASSUME NEW s, Valid(s), Sung(s.lines)
  PROVE  Timed(s.lines)
<1>1. ASSUME NEW l \in DOMAIN s.lines, NEW m \in DOMAIN s.lines[l]
      PROVE  InTime(s.lines[l][m].events)
  <2> DEFINE b == s.lines[l][m]
             x == b.events
  <2>1. BarValid(b)
    BY DEF Valid, Voices
  <2>2. IsMusic(x)
    BY DEF Sung, Scored
  <2>3. WholeTriplets(x) /\ (Sounds(x) <= 3 * Capacity \/ Sounds(x) = 3 * Capacity)
    BY <2>1 DEF BarValid
  <2> HIDE DEF b, x
  <2>4. Sounds(x) \in Nat /\ Capacity \in Nat
    BY <2>2, WeightsAre, MeasuresAssumption
  <2>5. Sounds(x) <= 3 * Capacity
    BY <2>3, <2>4
  <2>6. InTime(x)
    BY <2>2, <2>3, <2>5, WholeIsThrees DEF InTime
  <2>7. QED
    BY <2>6 DEF x, b
<1>2. QED
  BY <1>1 DEF Timed

LEMMA AnsweredFollows ==
  ASSUME ScoreInv, TimeInv, NEW next, Answered(next), NEW n, NEW h, Whole(next, n, h),
         Turned(score.lines, next.lines, Gen, "any")
  PROVE  StepFollows("any")
<1>1. PICK shown \in BOOLEAN : Becomes(IF shown THEN Backfilled(next) ELSE next, "model")
  BY DEF Answered
<1>2. Valid(next) /\ More
  BY DEF Answered
<1> DEFINE filled == Backfilled(next)
           o == next.lines
<1>3. Sung(score.lines)
  BY DEF TimeInv, Timed, InTime, Sung, Scored
<1>4. Sung(o)
  BY <1>3, TurnedFollows, FollowsTimed
<1>5. Timed(o)
  BY <1>2, <1>4, ValidTimed
<1>6. Turned(score.lines, filled.lines, Gen, "any")
  BY <1>4, BackfilledTurned DEF Sung
<1>7. Turned(o, o, Gen, "timed")
  BY <1>4, CameSelf DEF Turned, Sung
<1>8. Turned(o, filled.lines, Gen, "timed")
  BY <1>4, <1>7, BackfilledTurned DEF Sung
<1>9. Follows(o, filled.lines, Gen, "timed")
  BY <1>8, TurnedFollows
<1>10. Timed(filled.lines)
  BY <1>5, <1>9, FollowsTimed
<1>11. score' = next \/ score' = filled
  BY <1>1 DEF Becomes
<1> HIDE DEF filled, o
<1>12. Follows(score.lines, score'.lines, Gen, "any")
  BY <1>6, <1>11, TurnedFollows
<1>13. Timed(score'.lines)
  BY <1>5, <1>10, <1>11 DEF o
<1>14. edits' = edits + 1 /\ clip' = clip /\ last' = "model"
  BY <1>1 DEF Becomes
<1>15. QED
  BY <1>2, <1>12, <1>13, <1>14 DEF StepFollows, TimeInv

LEMMA AnswersFollow ==
  ASSUME ScoreInv, TimeInv, ExtendComposition \/ InsertMeasures \/ ReplaceRegion
  PROVE  StepFollows("any")
<1> DEFINE m == Count(score)
           o == score.lines
<1>1. /\ m \in Nat /\ edits \in Nat /\ Laid(score, m, m, edits) /\ Whole(score, m, edits)
      /\ \A r \in Stretches : r[1] \in 1 .. m /\ r[2] \in r[1] .. m
  BY Standings
<1>2. More /\ edits < MaxEdits
  BY DEF ExtendComposition, InsertMeasures, ReplaceRegion, Answered, More
<1>3. Turnable(o, Gen)
  BY <1>2, ScoreTurnable
<1> HIDE DEF m
<1>4. CASE ExtendComposition
  <2>1. PICK content \in Contents : Answered(AppendMeasures(score, Answer(content)))
    BY <1>4 DEF ExtendComposition
  <2> DEFINE new == Answer(content)
             next == AppendMeasures(score, new)
  <2>2. NewBars(new, Gen, "any") /\ Offered(new)
    BY AnswerNew DEF NewBars
  <2> HIDE DEF new
  <2>3. PICK n : Whole(next, n, edits)
    BY <1>1, <2>2, AppendedWhole
  <2>4. Turned(o, next.lines, Gen, "any")
    BY <1>1, <1>3, <2>2, AppendTurned
  <2> HIDE DEF next
  <2>5. QED
    BY <2>1, <2>3, <2>4, AnsweredFollows DEF next, new
<1>5. CASE InsertMeasures
  <2>1. PICK content \in Contents, after \in 0 .. m :
          Answered(InsertMeasuresAfter(score, Answer(content), {}, after))
    BY <1>5 DEF InsertMeasures, m
  <2> DEFINE new == Answer(content)
             next == InsertMeasuresAfter(score, new, {}, after)
  <2>2. NewBars(new, Gen, "any") /\ Offered(new)
    BY AnswerNew DEF NewBars
  <2> HIDE DEF new
  <2>3. PICK n : Whole(next, n, edits + 1)
    BY <1>1, <1>2, <2>2, NoneMinted, InsertLaid
  <2>4. Turned(o, next.lines, Gen, "any")
    BY <1>1, <1>3, <2>2, InsertTurned
  <2> HIDE DEF next
  <2>5. QED
    BY <2>1, <2>3, <2>4, AnsweredFollows DEF next, new
<1>6. CASE ReplaceRegion
  <2>1. PICK content \in Contents, r \in Stretches :
          Answered(RegionReplace(score, r[1], r[2], Answer(content), {}))
    BY <1>6 DEF ReplaceRegion
  <2> DEFINE new == Answer(content)
             next == RegionReplace(score, r[1], r[2], new, {})
  <2>2. NewBars(new, Gen, "any") /\ Offered(new)
    BY AnswerNew DEF NewBars
  <2> HIDE DEF new
  <2>3. PICK n : Whole(next, n, edits + 1)
    BY <1>1, <1>2, <2>2, NoneMinted, RegionLaid
  <2>4. Turned(o, next.lines, Gen, "any")
    BY <1>1, <1>3, <2>2, RegionTurned
  <2> HIDE DEF next
  <2>5. QED
    BY <2>1, <2>3, <2>4, AnsweredFollows DEF next, new
<1>7. QED
  BY <1>4, <1>5, <1>6

\* An edit of notes keeps every measure and its time.
StepKeeps ==
  /\ More /\ edits' = edits + 1 /\ clip' = clip /\ last' = "balanced"
  /\ DOMAIN score'.lines = DOMAIN score.lines
  /\ \A l \in DOMAIN score.lines :
       /\ DOMAIN score'.lines[l] = DOMAIN score.lines[l]
       /\ \A m \in DOMAIN score.lines[l] :
            /\ score'.lines[l][m].uid = score.lines[l][m].uid
            /\ Keeps(score.lines[l][m].events, score'.lines[l][m].events)

LEMMA ScoreVoice ==
  ASSUME ScoreInv, TimeInv, NEW l \in Voices(score)
  PROVE  VoiceInTime(score.lines[l]) /\ DOMAIN score.lines[l] = Bars(score)
<1>1. /\ IsVoice(score.lines[l]) /\ Len(score.lines[l]) = Count(score)
      /\ \A k \in DOMAIN score.lines[l] : InTime(score.lines[l][k].events)
  BY VoicesAre DEF ScoreInv, Voices, TimeInv, Timed
<1>2. QED
  BY <1>1, VoiceFacts DEF VoiceInTime, Bars

LEMMA BalancedKeeps ==
  ASSUME ScoreInv, TimeInv, NEW l \in Voices(score), NEW results, Balanced(l, results),
         \A w \in results : KeepsTime(score.lines[l], w) /\ \E new : w = Writes(score.lines[l], new)
  PROVE  StepKeeps
<1>1. PICK w \in results : Becomes([score EXCEPT !.lines[l] = w], "balanced")
  BY DEF Balanced
<1>2. KeepsTime(score.lines[l], w)
  OBVIOUS
<1>0. IsVoice(score.lines[l])
  BY ScoreVoice DEF VoiceInTime
<1>9. Rewritten(score.lines[l], w)
  BY <1>0, WritesRewrites
<1>10. \A m \in DOMAIN score.lines[l] : w[m].uid = score.lines[l][m].uid
  BY <1>0, <1>9, Rewriting
<1>3. More /\ edits' = edits + 1 /\ clip' = clip /\ last' = "balanced"
      /\ score' = [score EXCEPT !.lines[l] = w]
  BY <1>1 DEF Becomes
<1>4. HasFields(score) /\ score.lines = [k \in DOMAIN score.lines |-> score.lines[k]]
  BY VoicesAre DEF ScoreInv
<1>5. score'.lines = [k \in DOMAIN score.lines |-> IF k = l THEN w ELSE score.lines[k]]
  BY <1>3, <1>4 DEF HasFields
<1>6. ASSUME NEW k \in DOMAIN score.lines
      PROVE  /\ DOMAIN score'.lines[k] = DOMAIN score.lines[k]
             /\ \A m \in DOMAIN score.lines[k] :
                  /\ score'.lines[k][m].uid = score.lines[k][m].uid
                  /\ Keeps(score.lines[k][m].events, score'.lines[k][m].events)
  <2>1. CASE k = l
    <3>1. score'.lines[k] = w
      BY <1>5, <2>1
    <3>2. \A m \in DOMAIN score.lines[k] : w[m].uid = score.lines[k][m].uid
      BY <1>10, <2>1
    <3>3. QED
      BY <1>2, <2>1, <3>1, <3>2 DEF KeepsTime
  <2>2. CASE k # l
    <3>1. score'.lines[k] = score.lines[k]
      BY <1>5, <2>2
    <3>2. \A m \in DOMAIN score.lines[k] : InTime(score.lines[k][m].events)
      BY DEF TimeInv, Timed
    <3>3. QED
      BY <3>1, <3>2, KeepsSelf
  <2>3. QED
    BY <2>1, <2>2
<1>7. DOMAIN score'.lines = DOMAIN score.lines
  BY <1>5
<1>8. QED
  BY <1>3, <1>6, <1>7 DEF StepKeeps

LEMMA EventsKeep ==
  ASSUME ScoreInv, TimeInv, MoveEvent \/ ChangeDuration \/ RemoveEvent
  PROVE  StepKeeps
<1>1. ASSUME NEW l \in Voices(score), NEW x \in Spots(score.lines[l])
      PROVE  x[1] \in DOMAIN score.lines[l] /\ x[2] \in DOMAIN score.lines[l][x[1]].events
  BY DEF Spots
<1>2. CASE MoveEvent
  <2>1. PICK l \in Voices(score) : \E x \in Spots(score.lines[l]),
                d \in Bars(score), pos \in 0..Capacity :
                  Balanced(l, MoveBalanced(score.lines[l], x[1], x[2], d, pos))
    BY <1>2 DEF MoveEvent
  <2>2. PICK x \in Spots(score.lines[l]), d \in Bars(score), pos \in 0..Capacity :
          Balanced(l, MoveBalanced(score.lines[l], x[1], x[2], d, pos))
    BY <2>1
  <2>3. /\ VoiceInTime(score.lines[l]) /\ d \in DOMAIN score.lines[l] /\ pos \in Nat
        /\ x[1] \in DOMAIN score.lines[l] /\ x[2] \in DOMAIN score.lines[l][x[1]].events
    BY <1>1, ScoreVoice, MeasuresAssumption
  <2>4. \A w \in MoveBalanced(score.lines[l], x[1], x[2], d, pos) :
          KeepsTime(score.lines[l], w) /\ \E new : w = Writes(score.lines[l], new)
    BY <2>3, MoveInTime, MoveWrites
  <2>5. QED
    BY <2>2, <2>4, BalancedKeeps
<1>3. CASE ChangeDuration
  <2>1. PICK l \in Voices(score) : \E x \in Spots(score.lines[l]), u \in Durations :
                  Balanced(l, ChangeDurationBalanced(score.lines[l], x[1], x[2], u))
    BY <1>3 DEF ChangeDuration
  <2>2. PICK x \in Spots(score.lines[l]), u \in Durations :
          Balanced(l, ChangeDurationBalanced(score.lines[l], x[1], x[2], u))
    BY <2>1
  <2>3. /\ VoiceInTime(score.lines[l])
        /\ x[1] \in DOMAIN score.lines[l] /\ x[2] \in DOMAIN score.lines[l][x[1]].events
    BY <1>1, ScoreVoice
  <2>4. \A w \in ChangeDurationBalanced(score.lines[l], x[1], x[2], u) :
          KeepsTime(score.lines[l], w) /\ \E new : w = Writes(score.lines[l], new)
    BY <2>3, ChangeDurationInTime, ChangeWrites
  <2>5. QED
    BY <2>2, <2>4, BalancedKeeps
<1>4. CASE RemoveEvent
  <2>1. PICK l \in Voices(score) : \E x \in Spots(score.lines[l]) :
                  Balanced(l, RemoveBalanced(score.lines[l], x[1], x[2]))
    BY <1>4 DEF RemoveEvent
  <2>2. PICK x \in Spots(score.lines[l]) :
          Balanced(l, RemoveBalanced(score.lines[l], x[1], x[2]))
    BY <2>1
  <2>3. /\ VoiceInTime(score.lines[l])
        /\ x[1] \in DOMAIN score.lines[l] /\ x[2] \in DOMAIN score.lines[l][x[1]].events
    BY <1>1, ScoreVoice
  <2>4. \A w \in RemoveBalanced(score.lines[l], x[1], x[2]) :
          KeepsTime(score.lines[l], w) /\ \E new : w = Writes(score.lines[l], new)
    BY <2>3, RemoveInTime, RemoveWrites
  <2>5. QED
    BY <2>2, <2>4, BalancedKeeps
<1>5. QED
  BY <1>2, <1>3, <1>4

-----------------------------------------------------------------------------
(* Measures stay in time *)

\* Every step keeps the measures and their time, or brings new ones in.
LEMMA NextTurns ==
  ASSUME ScoreInv, TimeInv, Next
  PROVE  StepKeeps \/ \E how : StepFollows(how)
<1>1. CASE MoveEvent \/ ChangeDuration \/ RemoveEvent
  BY <1>1, EventsKeep
<1>2. CASE AddMeasure \/ Duplicate \/ Delete \/ Move
  BY <1>2, MeasuresFollow
<1>3. CASE Copy
  BY <1>3, CopyFollows
<1>4. CASE PasteAfter \/ PasteOver
  BY <1>4, PastesFollow
<1>5. CASE ExtendComposition \/ InsertMeasures \/ ReplaceRegion
  BY <1>5, AnswersFollow
<1>6. CASE AddVoice \/ RemoveVoice \/ AddStaff \/ RemoveStaff
  BY <1>6, VoicesFollow
<1>7. CASE \/ AddTechnique \/ RemoveTechnique
           \/ AddMarker \/ RemoveMarker \/ UpdateMarker
           \/ AddAnnotation \/ RemoveAnnotation \/ UpdateAnnotation
           \/ AddVolta \/ RemoveVolta \/ UpdateVolta
           \/ AddJump \/ RemoveJump \/ UpdateJump
           \/ AddSpan \/ RemoveSpan \/ UpdateSpan
  BY <1>7, EntriesStay, StayFollows
<1>8. QED
  BY <1>1, <1>2, <1>3, <1>4, <1>5, <1>6, <1>7 DEF Next

\* The measures of the score, before and after.
LEMMA BarsAre ==
  ASSUME ScoreInv
  PROVE  /\ "p" \in DOMAIN score.lines /\ Bars(score) = DOMAIN score.lines["p"]
         /\ \A l \in DOMAIN score.lines :
              /\ DOMAIN score.lines[l] = Bars(score)
              /\ \A m \in Bars(score) : score.lines[l][m].uid = UidOf(score, m)
<1>1. Matched(score.lines)
  BY Standings DEF Laid
<1>2. "p" \in DOMAIN score.lines /\ IsVoice(score.lines["p"])
  BY <1>1 DEF Matched, IsBundle
<1>3. Bars(score) = DOMAIN score.lines["p"]
  BY <1>2, VoiceFacts DEF Bars, Count
<1>4. ASSUME NEW l \in DOMAIN score.lines
      PROVE  DOMAIN score.lines[l] = Bars(score)
  <2>1. IsVoice(score.lines[l]) /\ Len(score.lines[l]) = Len(score.lines["p"])
    BY <1>1 DEF Matched, IsBundle
  <2>2. QED
    BY <2>1, VoiceFacts DEF Bars, Count
<1>5. \A l \in DOMAIN score.lines : \A m \in Bars(score) : score.lines[l][m].uid = UidOf(score, m)
  BY <1>1 DEF Matched, Bars, Count, UidOf
<1>6. QED
  BY <1>2, <1>3, <1>4, <1>5

LEMMA KeepsHold ==
  ASSUME ScoreInv, TimeInv, ScoreInv', StepKeeps
  PROVE  TimeInv'
<1>1. /\ edits' = edits + 1 /\ clip' = clip /\ edits \in Nat /\ MaxEdits \in Nat
      /\ DOMAIN score'.lines = DOMAIN score.lines
  BY Standings, ScoreEditsAssumption DEF StepKeeps
<1>2. Timed(score'.lines)
  BY DEF StepKeeps, Keeps, Timed
<1>3. "p" \in DOMAIN score.lines /\ Bars(score) = DOMAIN score.lines["p"]
  BY BarsAre
<1>4. Bars(score') = DOMAIN score'.lines["p"]
  <2>1. Whole(score', Count(score'), edits')
    BY DEF ScoreInv
  <2>2. "p" \in DOMAIN score'.lines /\ IsVoice(score'.lines["p"])
    BY <2>1, VoicesAre
  <2>3. QED
    BY <2>2, VoiceFacts DEF Bars, Count
<1>5. Bars(score') = Bars(score) /\ \A m \in Bars(score) : UidOf(score', m) = UidOf(score, m)
  BY <1>3, <1>4 DEF StepKeeps, UidOf
<1>6. ASSUME NEW g, g \notin (edits + 1) .. MaxEdits
      PROVE  g \notin (edits + 1 + 1) .. MaxEdits
  BY <1>1, <1>6
<1>7. Apart(score', edits')
  BY <1>1, <1>5, <1>6 DEF TimeInv, Apart
<1>8. Timed(clip'.new)
  BY <1>1 DEF TimeInv
<1>9. QED
  BY <1>2, <1>7, <1>8 DEF TimeInv

LEMMA FollowsHold ==
  ASSUME ScoreInv, TimeInv, ScoreInv', NEW how, StepFollows(how)
  PROVE  TimeInv'
<1>1. /\ edits' = edits + 1 /\ edits \in Nat /\ MaxEdits \in Nat
      /\ Timed(score'.lines) /\ Timed(clip'.new)
      /\ Follows(score.lines, score'.lines, Gen, how)
  BY Standings, ScoreEditsAssumption DEF StepFollows
<1>2. "p" \in DOMAIN score.lines /\ Bars(score) = DOMAIN score.lines["p"]
  BY BarsAre
<1>3. "p" \in DOMAIN score'.lines /\ Bars(score') = DOMAIN score'.lines["p"]
  <2>1. Whole(score', Count(score'), edits')
    BY DEF ScoreInv
  <2>2. "p" \in DOMAIN score'.lines /\ IsVoice(score'.lines["p"])
    BY <2>1, VoicesAre
  <2>3. QED
    BY <2>2, VoiceFacts DEF Bars, Count
<1>4. Distinct(score'.lines["p"])
  BY <1>1 DEF Follows
<1>5. Came(score.lines["p"], score'.lines["p"], Gen, how)
  BY <1>1, <1>2, <1>3 DEF Follows
<1>6. ASSUME NEW m \in Bars(score')
      PROVE  UidOf(score', m)[1] \notin (edits + 1 + 1) .. MaxEdits
  <2>1. Has(score.lines["p"], score'.lines["p"][m]) \/ NewBar(score'.lines["p"][m], Gen, how)
    BY <1>3, <1>5 DEF Came
  <2>2. CASE Has(score.lines["p"], score'.lines["p"][m])
    <3>1. PICK k \in Bars(score) : UidOf(score, k) = UidOf(score', m)
      BY <1>2, <2>2 DEF Has, UidOf
    <3>2. UidOf(score', m)[1] \notin (edits + 1) .. MaxEdits
      BY <3>1 DEF TimeInv, Apart
    <3>3. QED
      BY <1>1, <3>2
  <2>3. CASE NewBar(score'.lines["p"][m], Gen, how)
    <3>1. UidOf(score', m)[1] = edits + 1
      BY <2>3 DEF NewBar, UidOf, Gen
    <3>2. QED
      BY <1>1, <3>1
  <2>4. QED
    BY <2>1, <2>2, <2>3
<1>7. Apart(score', edits')
  BY <1>1, <1>3, <1>4, <1>6 DEF Apart, Distinct, UidOf
<1>8. QED
  BY <1>1, <1>7 DEF TimeInv

LEMMA TimeHolds ==
  ASSUME ScoreInv, TimeInv, ScoreInv', [Next]_vars
  PROVE  TimeInv'
<1>1. CASE Next
  BY <1>1, NextTurns, KeepsHold, FollowsHold
<1>2. CASE UNCHANGED vars
  BY <1>2 DEF vars, TimeInv
<1>3. QED
  BY <1>1, <1>2

\* Whatever the edits were, every measure of the score and of the clipboard is
\* music in time, and no measure is there twice or has an id to be minted.
THEOREM ScoreTime == Spec => [](ScoreInv /\ TimeInv)
<1>1. Init => ScoreInv /\ TimeInv
  BY InitHolds, InitTime
<1>2. ScoreInv /\ TimeInv /\ [Next]_vars => (ScoreInv /\ TimeInv)'
  BY StepHolds, TimeHolds
<1>3. QED
  BY <1>1, <1>2, PTL DEF Spec

\* Whatever the edits were, no measure sounds longer than the meter allows, and
\* its triplets are whole (transformScoreBalanced.ts, and the edits of measures,
\* pastes and answers of the model around it).
THEOREM ScoreBarsFit == Spec => []BarsFit
<1>1. TimeInv => BarsFit
  BY WholeIsThrees DEF TimeInv, Timed, InTime, BarsFit, Voices
<1>2. QED
  BY <1>1, ScoreTime, PTL

-----------------------------------------------------------------------------
(* What a step does to the time of a measure *)

LEMMA AlikeLengths ==
  ASSUME NEW a, NEW b, IsMusic(a.events), Alike(a.events, b.events)
  PROVE  Lengths(a) = Lengths(b) /\ (Full(a) => Full(b))
<1> DEFINE x == a.events
           y == b.events
<1>1. IsMusic(y) /\ (FullBar(x) => FullBar(y))
  BY AlikeKeeps
<1>2. Full(a) => Full(b)
  BY <1>1, FullIs
<1>3. DOMAIN x = 1 .. Len(x) /\ DOMAIN y = 1 .. Len(y) /\ Len(x) = Len(y)
  BY <1>1, MusicIs DEF Alike
<1>4. ASSUME NEW i \in DOMAIN x
      PROVE  [x[i] EXCEPT !.id = NoId] = [y[i] EXCEPT !.id = NoId]
  <2>1. IsEvent(x[i]) /\ IsEvent(y[i])
    BY <1>1, <1>3, <1>4 DEF IsMusic
  <2>2. y[i].u = x[i].u /\ y[i].rest = x[i].rest /\ y[i].tup = x[i].tup
    BY <1>3, <1>4 DEF Alike
  <2> DEFINE c == x[i]
             d == y[i]
  <2> HIDE DEF x, y, c, d
  <2>3. [c EXCEPT !.id = NoId] = [d EXCEPT !.id = NoId]
    BY <2>1, <2>2 DEF IsEvent, c, d
  <2>4. QED
    BY <2>3 DEF c, d
<1>5. Lengths(a) = Lengths(b)
  BY <1>3, <1>4 DEF Lengths
<1>6. QED
  BY <1>2, <1>5

LEMMA FilledIs ==
  ASSUME NEW lines, Sung(lines)
  PROVE  AllFull(lines) <=> Filled(lines)
<1>1. ASSUME NEW l \in DOMAIN lines, NEW m \in DOMAIN lines[l]
      PROVE  Full(lines[l][m]) <=> FullBar(lines[l][m].events)
  BY FullIs DEF Sung, Scored
<1>2. QED
  BY <1>1 DEF AllFull, Filled

LEMMA TimedSung ==
  ASSUME NEW lines, Timed(lines)
  PROVE  Sung(lines)
BY DEF Timed, InTime, Sung, Scored

\* A measure that stays keeps its time.
StaysInTime(old, new) ==
  old.uid = new.uid => (Full(old) => Full(new)) /\ (last' # "balanced" => Lengths(old) = Lengths(new))

LEMMA FollowsStays ==
  ASSUME ScoreInv, TimeInv, ScoreInv', NEW how, StepFollows(how),
         NEW l \in Voices(score) \cap Voices(score'), NEW m \in Bars(score), NEW n \in Bars(score')
  PROVE  StaysInTime(score.lines[l][m], score'.lines[l][n])
<1> DEFINE old == score.lines[l][m]
           new == score'.lines[l][n]
<1>1. SUFFICES ASSUME old.uid = new.uid
               PROVE  Lengths(old) = Lengths(new) /\ (Full(old) => Full(new))
  BY DEF StaysInTime
<1>2. /\ DOMAIN score.lines[l] = Bars(score)
      /\ \A k \in Bars(score) : score.lines[l][k].uid = UidOf(score, k)
  BY BarsAre DEF Voices
<1>3. DOMAIN score'.lines[l] = Bars(score')
  <2>1. Whole(score', Count(score'), edits')
    BY DEF ScoreInv
  <2>2. IsVoice(score'.lines[l]) /\ Len(score'.lines[l]) = Count(score')
    BY <2>1, VoicesAre DEF Voices
  <2>3. QED
    BY <2>2, VoiceFacts DEF Bars
<1>4. Came(score.lines[l], score'.lines[l], Gen, how)
  BY DEF StepFollows, Follows, Voices
<1>5. Has(score.lines[l], new) \/ NewBar(new, Gen, how)
  BY <1>3, <1>4 DEF Came
<1>6. ~NewBar(new, Gen, how)
  <2>1. Gen \in edits + 1 .. MaxEdits
    BY ScoreTurnable DEF StepFollows
  <2>2. new.uid = UidOf(score, m)
    BY <1>1, <1>2
  <2>3. new.uid[1] # Gen
    BY <2>1, <2>2 DEF TimeInv, Apart
  <2>4. QED
    BY <2>3 DEF NewBar
<1>7. PICK k \in Bars(score) :
        score.lines[l][k].uid = new.uid /\ Alike(score.lines[l][k].events, new.events)
  BY <1>2, <1>5, <1>6 DEF Has, Continues
<1>8. k = m
  BY <1>1, <1>2, <1>7 DEF TimeInv, Apart
<1>9. IsMusic(old.events)
  BY <1>2 DEF TimeInv, Timed, InTime, Voices
<1>10. QED
  BY <1>7, <1>8, <1>9, AlikeLengths

LEMMA KeepsStays ==
  ASSUME ScoreInv, TimeInv, ScoreInv', StepKeeps,
         NEW l \in Voices(score) \cap Voices(score'), NEW m \in Bars(score), NEW n \in Bars(score')
  PROVE  StaysInTime(score.lines[l][m], score'.lines[l][n])
<1> DEFINE old == score.lines[l][m]
           new == score'.lines[l][n]
<1>1. SUFFICES ASSUME old.uid = new.uid, Full(old)
               PROVE  Full(new)
  BY DEF StaysInTime, StepKeeps
<1>2. /\ DOMAIN score.lines[l] = Bars(score)
      /\ \A k \in Bars(score) : score.lines[l][k].uid = UidOf(score, k)
  BY BarsAre DEF Voices
<1>3. DOMAIN score'.lines[l] = Bars(score')
  <2>1. Whole(score', Count(score'), edits')
    BY DEF ScoreInv
  <2>2. IsVoice(score'.lines[l]) /\ Len(score'.lines[l]) = Count(score')
    BY <2>1, VoicesAre DEF Voices
  <2>3. QED
    BY <2>2, VoiceFacts DEF Bars
<1>4. DOMAIN score'.lines[l] = DOMAIN score.lines[l]
  BY DEF StepKeeps, Voices
<1>5. n \in Bars(score)
  BY <1>2, <1>3, <1>4
<1>6. new.uid = score.lines[l][n].uid /\ Keeps(score.lines[l][n].events, new.events)
  BY <1>2, <1>5 DEF StepKeeps, Voices
<1>7. n = m
  BY <1>1, <1>2, <1>5, <1>6 DEF TimeInv, Apart
<1>8. IsMusic(old.events)
  BY <1>2 DEF TimeInv, Timed, InTime, Voices
<1>9. FullBar(old.events)
  BY <1>1, <1>8, FullIs
<1>10. FullBar(new.events)
  BY <1>6, <1>7, <1>9 DEF Keeps
<1>11. QED
  BY <1>10, FullIs DEF FullBar

\* What is full stays full.
FullStays ==
  AllFull(score.lines) /\ AllFull(clip.new) /\ last' # "model" => AllFull(score'.lines)

LEMMA FollowsFull ==
  ASSUME TimeInv, NEW how, StepFollows(how)
  PROVE  FullStays
<1>1. SUFFICES ASSUME AllFull(score.lines), AllFull(clip.new), last' # "model"
               PROVE  AllFull(score'.lines)
  BY DEF FullStays
<1>2. how = "full"
  BY <1>1 DEF StepFollows, Brings
<1>3. Filled(score.lines)
  BY <1>1, FilledIs, TimedSung DEF TimeInv
<1>4. Filled(score'.lines)
  BY <1>2, <1>3, FollowsTimed DEF StepFollows
<1>5. Sung(score'.lines)
  BY TimedSung DEF StepFollows
<1>6. QED
  BY <1>4, <1>5, FilledIs

LEMMA KeepsFull ==
  ASSUME TimeInv, StepKeeps
  PROVE  FullStays
<1>1. SUFFICES ASSUME AllFull(score.lines)
               PROVE  AllFull(score'.lines)
  BY DEF FullStays
<1>2. Filled(score.lines)
  BY <1>1, FilledIs, TimedSung DEF TimeInv
<1>3. Filled(score'.lines)
  BY <1>2 DEF StepKeeps, Keeps, Filled
<1>4. Sung(score'.lines)
  BY <1>3 DEF Filled, FullBar, Sung, Scored
<1>5. QED
  BY <1>3, <1>4, FilledIs

TimeKept ==
  /\ \A l \in Voices(score) \cap Voices(score') : \A m \in Bars(score), n \in Bars(score') :
       StaysInTime(score.lines[l][m], score'.lines[l][n])
  /\ FullStays

LEMMA NextKeepsTime ==
  ASSUME ScoreInv, TimeInv, ScoreInv', Next
  PROVE  TimeKept
<1>1. CASE StepKeeps
  BY <1>1, KeepsStays, KeepsFull DEF TimeKept
<1>2. ASSUME NEW how, StepFollows(how)
      PROVE  TimeKept
  BY <1>2, FollowsStays, FollowsFull DEF TimeKept
<1>3. QED
  BY <1>1, <1>2, NextTurns

\* Whatever the edits were, a full measure without triplets is still full after
\* any edit, with the same notes when the edit was not of its notes; and where
\* every measure is full, those an edit of the user brings in are too
\* (rebalanceMeasure, decomposeRestGap, makeRestMeasure and the structural edits).
THEOREM ScoreBarsKeepTheirTime == Spec => BarsKeepTheirTime
<1>1. ScoreInv /\ TimeInv /\ ScoreInv' /\ [Next]_vars =>
        [/\ \A l \in Voices(score) \cap Voices(score') : \A m \in Bars(score), n \in Bars(score') :
             LET old == score.lines[l][m]
                 new == score'.lines[l][n]
             IN  old.uid = new.uid =>
                   /\ Full(old) => Full(new)
                   /\ last' # "balanced" => Lengths(old) = Lengths(new)
         /\ AllFull(score.lines) /\ AllFull(clip.new) /\ last' # "model" => AllFull(score'.lines)]_vars
  BY NextKeepsTime DEF TimeKept, StaysInTime, FullStays
<1>2. QED
  BY <1>1, ScoreTime, PTL DEF Spec, BarsKeepTheirTime

-----------------------------------------------------------------------------
(* Where the measures of a score are after an edit *)

\* The i-th measure of q is the one at to[i] in w, or it is not in w.
Sits(q, w, to, i) == to[i] \in DOMAIN w /\ w[to[i]].uid = q[i].uid
Gone(q, w, i) == \A k \in DOMAIN w : w[k].uid # q[i].uid
Homes(q, w, to) == \A i \in DOMAIN q : Sits(q, w, to, i) \/ Gone(q, w, i)

\* w has the measures of q.
SameBars(q, w) == DOMAIN w = DOMAIN q /\ \A i \in DOMAIN q : w[i].uid = q[i].uid

LEMMA HomesSame ==
  ASSUME NEW q, NEW w, NEW v, NEW to, Homes(q, w, to), SameBars(w, v)
  PROVE  Homes(q, v, to)
BY DEF Homes, Sits, Gone, SameBars

LEMMA SitsBefore ==
  ASSUME NEW q, IsVoice(q), NEW r, IsVoice(r), NEW a \in Nat, NEW b \in Nat, a <= b, b <= Len(q),
         NEW w, IsSplice(q, a, r, b, w), NEW i \in DOMAIN q, i <= a, NEW to, to[i] = i
  PROVE  Sits(q, w, to, i)
<1> DEFINE n == Len(q)
           k == Len(r)
<1>1. n \in Nat /\ k \in Nat /\ i \in 1 .. n /\ b <= n
  BY VoiceFacts
<1>2. /\ Len(w) = a + k + (n - b) /\ DOMAIN w = 1 .. Len(w)
      /\ \A j \in 1 .. Len(w) :
           w[j] = IF j <= a THEN q[j] ELSE IF j <= a + k THEN r[j - a] ELSE q[j - a - k + b]
  BY DEF IsSplice
<1> HIDE DEF n, k
<1>3. i \in 1 .. Len(w)
  BY <1>1, <1>2
<1>4. QED
  BY <1>2, <1>3 DEF Sits

LEMMA SitsBehind ==
  ASSUME NEW q, IsVoice(q), NEW r, IsVoice(r), NEW a \in Nat, NEW b \in Nat, a <= b, b <= Len(q),
         NEW w, IsSplice(q, a, r, b, w), NEW i \in DOMAIN q, i > b,
         NEW to, to[i] = i + Len(r) - (b - a)
  PROVE  Sits(q, w, to, i)
<1> DEFINE n == Len(q)
           k == Len(r)
           j == i + k - (b - a)
<1>1. n \in Nat /\ k \in Nat /\ i \in 1 .. n /\ b <= n
  BY VoiceFacts
<1>2. /\ Len(w) = a + k + (n - b) /\ DOMAIN w = 1 .. Len(w)
      /\ \A x \in 1 .. Len(w) :
           w[x] = IF x <= a THEN q[x] ELSE IF x <= a + k THEN r[x - a] ELSE q[x - a - k + b]
  BY DEF IsSplice
<1>3. to[i] = j
  BY DEF k
<1> HIDE DEF n, k
<1>4. a + k < j
  BY <1>1
<1>5. j <= a + k + (n - b)
  BY <1>1
<1>6. j - a - k + b = i
  BY <1>1
<1>7. j \in Int
  BY <1>1
<1> HIDE DEF j
<1>8. j \in 1 .. a + k + (n - b) /\ ~(j <= a) /\ ~(j <= a + k)
  BY <1>1, <1>4, <1>5, <1>7
<1>9. w[j] = q[i]
  BY <1>2, <1>6, <1>8
<1>10. j \in DOMAIN w
  BY <1>2, <1>8
<1>11. QED
  BY <1>3, <1>9, <1>10 DEF Sits

\* A measure of r is where r was spliced in.
LEMMA SitsSpliced ==
  ASSUME NEW q, IsVoice(q), NEW r, IsVoice(r), NEW a \in Nat, NEW b \in Nat, a <= b, b <= Len(q),
         NEW w, IsSplice(q, a, r, b, w), NEW i \in DOMAIN r
  PROVE  a + i \in DOMAIN w /\ w[a + i] = r[i]
<1> DEFINE n == Len(q)
           k == Len(r)
           j == a + i
<1>1. n \in Nat /\ k \in Nat /\ i \in 1 .. k /\ b <= n
  BY VoiceFacts
<1>2. /\ Len(w) = a + k + (n - b) /\ DOMAIN w = 1 .. Len(w)
      /\ \A x \in 1 .. Len(w) :
           w[x] = IF x <= a THEN q[x] ELSE IF x <= a + k THEN r[x - a] ELSE q[x - a - k + b]
  BY DEF IsSplice
<1> HIDE DEF n, k
<1>3. j \in 1 .. a + k + (n - b) /\ ~(j <= a) /\ j <= a + k /\ j - a = i
  BY <1>1
<1> HIDE DEF j
<1>4. j \in DOMAIN w /\ w[j] = r[i]
  BY <1>2, <1>3
<1>5. QED
  BY <1>4 DEF j

LEMMA GoneSpliced ==
  ASSUME NEW q, IsVoice(q), Distinct(q), NEW r, IsVoice(r),
         NEW a \in Nat, NEW b \in Nat, a <= b, b <= Len(q),
         NEW w, IsSplice(q, a, r, b, w), NEW i \in DOMAIN q, a < i, i <= b,
         \A k \in DOMAIN r : r[k].uid # q[i].uid
  PROVE  Gone(q, w, i)
<1> DEFINE n == Len(q)
           k == Len(r)
<1>1. n \in Nat /\ k \in Nat /\ DOMAIN q = 1 .. n /\ DOMAIN r = 1 .. k /\ b <= n /\ i \in 1 .. n
  BY VoiceFacts
<1>2. /\ Len(w) = a + k + (n - b) /\ DOMAIN w = 1 .. Len(w)
      /\ \A x \in 1 .. Len(w) :
           w[x] = IF x <= a THEN q[x] ELSE IF x <= a + k THEN r[x - a] ELSE q[x - a - k + b]
  BY DEF IsSplice
<1> HIDE DEF n, k
<1>3. ASSUME NEW x \in DOMAIN w
      PROVE  w[x].uid # q[i].uid
  <2>1. x \in 1 .. a + k + (n - b)
    BY <1>2
  <2>2. CASE x <= a
    <3>1. x \in 1 .. n /\ x # i /\ w[x] = q[x]
      BY <1>1, <1>2, <2>1, <2>2
    <3>2. QED
      BY <1>1, <3>1 DEF Distinct
  <2>3. CASE ~(x <= a) /\ x <= a + k
    <3>1. x - a \in 1 .. k /\ w[x] = r[x - a]
      BY <1>1, <1>2, <2>1, <2>3
    <3>2. QED
      BY <1>1, <3>1
  <2>4. CASE ~(x <= a) /\ ~(x <= a + k)
    <3>1. x - a - k + b \in 1 .. n
      BY <1>1, <2>1, <2>4, Behind
    <3>2. x - a - k + b # i /\ w[x] = q[x - a - k + b]
      BY <1>1, <1>2, <2>1, <2>4
    <3>3. QED
      BY <1>1, <3>1, <3>2 DEF Distinct
  <2>5. QED
    BY <2>2, <2>3, <2>4
<1>4. QED
  BY <1>3 DEF Gone

-----------------------------------------------------------------------------
(* Where its entries are *)

\* What stands at a measure of s that is somewhere is there, and what is in next
\* was in s.
Tracks(s, next, to) ==
  /\ \A p \in s.points : to[p.at] # 0 => \E y \in next.points : y.id = p.id /\ y.at = to[p.at]
  /\ \A y \in next.ranges : \E r \in s.ranges :
       y.id = r.id /\ y.from = to[r.from] /\ y.to = to[r.to]
  /\ \A y \in next.jumps : \E j \in s.jumps : y.id = j.id /\ y.at = to[j.at]

\* The points a jump refers to are somewhere.
Reaches(s, to, j) ==
  j.tocoda = 0 /\ \A p \in s.points : p.id \in {j.segno, j.coda} => to[p.at] # 0

TracksAll(s, next, to) ==
  /\ \A r \in s.ranges : to[r.from] # 0 /\ to[r.to] # 0 =>
       \E y \in next.ranges : y.id = r.id /\ y.from = to[r.from] /\ y.to = to[r.to]
  /\ \A j \in s.jumps : to[j.at] # 0 /\ Reaches(s, to, j) => \E y \in next.jumps : y.id = j.id

\* The entries of s are those of next.
SameMarks(s, next) ==
  next.points = s.points /\ next.ranges = s.ranges /\ next.jumps = s.jumps

LEMMA TracksSame ==
  ASSUME NEW s, NEW t, NEW u, NEW v, NEW to, SameMarks(s, t), SameMarks(u, v)
  PROVE  (Tracks(t, u, to) => Tracks(s, v, to)) /\ (TracksAll(t, u, to) => TracksAll(s, v, to))
BY DEF SameMarks, Tracks, TracksAll, Reaches

LEMMA TracksSelf ==
  ASSUME NEW s, NEW next, SameMarks(s, next), NEW n, Placed(s, n), NEW to, \A i \in 1 .. n : to[i] = i
  PROVE  Tracks(s, next, to) /\ TracksAll(s, next, to)
<1>1. \A p \in s.points \union s.jumps : to[p.at] = p.at
  BY DEF Placed
<1>2. \A r \in s.ranges : to[r.from] = r.from /\ to[r.to] = r.to
  <2>1. ASSUME NEW r \in s.ranges
        PROVE  r.from \in 1 .. n /\ r.to \in 1 .. n
    <3>1. r.from \in 1 .. n /\ r.to \in r.from .. n
      BY DEF Placed
    <3>2. QED
      BY <3>1
  <2>2. QED
    BY <2>1
<1>3. QED
  BY <1>1, <1>2 DEF SameMarks, Tracks, TracksAll

LEMMA Reached ==
  ASSUME NEW s, AreEntries(s), NEW to, NEW id, NEW kind, id = 0 \/ id \in IdsOf(OfKind(s, kind)),
         \A p \in s.points : p.id = id => to[p.at] # 0, NEW P, P = PointsTo(s, to)
  PROVE  id \in {0} \union IdsOf({p \in P : p.kind = kind})
<1>1. CASE id = 0
  BY <1>1
<1>2. CASE id \in IdsOf(OfKind(s, kind))
  <2>1. PICK p \in s.points : p.kind = kind /\ p.id = id
    BY <1>2 DEF IdsOf, OfKind
  <2>2. PICK y \in P : y.id = p.id /\ y.kind = p.kind
    BY <2>1, PointsKept
  <2>3. QED
    BY <2>1, <2>2 DEF IdsOf
<1>3. QED
  BY <1>1, <1>2

LEMMA RemappedTracks ==
  ASSUME NEW s, HasFields(s), AreEntries(s), NEW to, NEW next, next = Remapped(s, to)
  PROVE  Tracks(s, next, to) /\ (Referred(s) => TracksAll(s, next, to))
<1> DEFINE P == PointsTo(s, to)
           mid == [s EXCEPT !.points = P]
           J == Resolved(mid, JumpsTo(s, to))
           R == RangesTo(s, to)
<1>1. next = [s EXCEPT !.points = P, !.ranges = R, !.jumps = J]
  BY DEF Remapped, PointsTo, RangesTo, JumpsTo
<1>2. mid.points = P
  BY DEF HasFields
<1>3. ASSUME NEW y \in JumpsTo(s, to), y.segno \in {0} \union IdsOf({p \in P : p.kind = "segno"}),
             {y.coda, y.tocoda} \subseteq {0} \union IdsOf({p \in P : p.kind = "coda"})
      PROVE  y \in J
  <2> HIDE DEF P, mid
  <2>1. QED
    BY <1>2, <1>3 DEF Resolved, OfKind
<1>4. J \subseteq JumpsTo(s, to)
  BY DEF Resolved
<1> HIDE DEF P, R, mid, J
<1>5. next.points = P /\ next.ranges = R /\ next.jumps = J
  BY <1>1 DEF HasFields
<1>6. ASSUME NEW p \in s.points, to[p.at] # 0
      PROVE  \E y \in next.points : y.id = p.id /\ y.at = to[p.at]
  <2> DEFINE y == [p EXCEPT !.at = to[@]]
  <2>1. y \in PointsTo(s, to)
    BY <1>6 DEF PointsTo
  <2>2. p = [id |-> p.id, kind |-> p.kind, at |-> p.at, line |-> p.line]
    BY DEF AreEntries
  <2>3. y.id = p.id /\ y.at = to[p.at]
    BY <2>2
  <2>4. QED
    BY <1>5, <2>1, <2>3 DEF P
<1>7. \A y \in next.ranges : \E r \in s.ranges :
        y.id = r.id /\ y.from = to[r.from] /\ y.to = to[r.to]
  BY <1>5, RangesMoved DEF R
<1>8. \A y \in next.jumps : \E j \in s.jumps : y.id = j.id /\ y.at = to[j.at]
  BY <1>4, <1>5, JumpsMoved
<1>9. ASSUME NEW r \in s.ranges, to[r.from] # 0, to[r.to] # 0
      PROVE  \E y \in next.ranges : y.id = r.id /\ y.from = to[r.from] /\ y.to = to[r.to]
  <2> DEFINE y == [r EXCEPT !.from = to[@], !.to = to[@]]
  <2>1. y \in RangesTo(s, to)
    BY <1>9 DEF RangesTo
  <2>2. r = [id |-> r.id, kind |-> r.kind, from |-> r.from, to |-> r.to]
    BY DEF AreEntries
  <2>3. y.id = r.id /\ y.from = to[r.from] /\ y.to = to[r.to]
    BY <2>2
  <2>4. QED
    BY <1>5, <2>1, <2>3 DEF R
<1>10. ASSUME Referred(s), NEW j \in s.jumps, to[j.at] # 0, Reaches(s, to, j)
       PROVE  \E y \in next.jumps : y.id = j.id
  <2> DEFINE y == [j EXCEPT !.at = to[@]]
  <2>1. y \in JumpsTo(s, to)
    BY <1>10 DEF JumpsTo
  <2>2. j = [id |-> j.id, kind |-> j.kind, at |-> j.at,
             segno |-> j.segno, coda |-> j.coda, tocoda |-> j.tocoda]
    BY DEF AreEntries
  <2>3. y.id = j.id /\ y.segno = j.segno /\ y.coda = j.coda /\ y.tocoda = j.tocoda
    BY <2>2
  <2> HIDE DEF y
  <2>4. /\ j.segno = 0 \/ j.segno \in IdsOf(OfKind(s, "segno"))
        /\ j.coda = 0 \/ j.coda \in IdsOf(OfKind(s, "coda"))
    BY <1>10 DEF Referred
  <2>5. /\ \A p \in s.points : p.id = j.segno => to[p.at] # 0
        /\ \A p \in s.points : p.id = j.coda => to[p.at] # 0
        /\ j.tocoda = 0
    BY <1>10 DEF Reaches
  <2>6. j.segno \in {0} \union IdsOf({p \in P : p.kind = "segno"})
    BY <2>4, <2>5, Reached DEF P
  <2>7. j.coda \in {0} \union IdsOf({p \in P : p.kind = "coda"})
    BY <2>4, <2>5, Reached DEF P
  <2>8. y \in J
    BY <1>3, <2>1, <2>3, <2>5, <2>6, <2>7
  <2>9. QED
    BY <1>5, <2>3, <2>8
<1>11. Tracks(s, next, to)
  BY <1>6, <1>7, <1>8 DEF Tracks
<1>12. Referred(s) => TracksAll(s, next, to)
  BY <1>9, <1>10 DEF TracksAll
<1>13. QED
  BY <1>11, <1>12

-----------------------------------------------------------------------------
(* Measures put in, replaced and dropped *)

LEMMA InsertedAt ==
  ASSUME NEW s, NEW m, NEW n, NEW h, Laid(s, m, n, h), NEW new, Offered(new),
         NEW after \in Nat, after <= m, NEW next, next = Inserted(s, new, after)
  PROVE  /\ IsSplice(s.lines["p"], after, MeasuresFor(new, "p"), after, next.lines["p"])
         /\ IsVoice(MeasuresFor(new, "p")) /\ Len(MeasuresFor(new, "p")) = Len(new["p"])
         /\ SameMarks(s, next) /\ HasFields(next) /\ next.spans = s.spans
         /\ DOMAIN next.lines = DOMAIN s.lines
<1> DEFINE q == s.lines["p"]
           r == MeasuresFor(new, "p")
           lines == [l \in DOMAIN s.lines |-> Splice(s.lines[l], after, MeasuresFor(new, l), after)]
<1>1. IsVoice(q) /\ Len(q) = m /\ m \in Nat /\ HasFields(s) /\ "p" \in DOMAIN s.lines
  BY DEF Laid, Matched, IsBundle
<1>2. next = [s EXCEPT !.lines = lines]
  BY DEF Inserted, EachVoice, Voices, Splice
<1>3. lines["p"] = Splice(q, after, r, after) /\ DOMAIN lines = DOMAIN s.lines
  BY <1>1
<1>4. IsVoice(r) /\ Len(r) = Len(new["p"])
  BY Given
<1> HIDE DEF q, r, lines
<1>5. next.lines = lines /\ SameEntries(s, next) /\ HasFields(next)
  BY <1>1, <1>2, OtherLines
<1>6. IsSplice(q, after, r, after, lines["p"])
  BY <1>1, <1>3, <1>4, Splicing
<1>7. QED
  BY <1>3, <1>4, <1>5, <1>6 DEF SameEntries, SameMarks, q, r

LEMMA ReplacedAt ==
  ASSUME NEW s, NEW m, NEW n, NEW h, Laid(s, m, n, h), NEW new, Offered(new),
         NEW a \in 1 .. m, NEW b \in a .. m, NEW next, next = Replaced(s, a, b, new)
  PROVE  /\ \E r : /\ IsSplice(s.lines["p"], a - 1, r, b, next.lines["p"])
                   /\ Kept(MeasuresFor(new, "p"), r) /\ Len(r) = Len(new["p"])
         /\ SameMarks(s, next) /\ HasFields(next) /\ next.spans = s.spans
         /\ DOMAIN next.lines = DOMAIN s.lines
<1> DEFINE q == s.lines["p"]
           given == MeasuresFor(new, "p")
           tag == b = Count(s) /\ EndsPartial(s)
           r == TagLast(given, tag)
           lines == [l \in DOMAIN s.lines |->
                       Splice(s.lines[l], a - 1, TagLast(MeasuresFor(new, l), tag), b)]
<1>1. IsVoice(q) /\ Len(q) = m /\ m \in Nat /\ HasFields(s) /\ "p" \in DOMAIN s.lines
  BY DEF Laid, Matched, IsBundle
<1>2. next = [s EXCEPT !.lines = lines]
  BY DEF Replaced, EachVoice, Voices, Splice
<1>3. lines["p"] = Splice(q, a - 1, r, b) /\ DOMAIN lines = DOMAIN s.lines
  BY <1>1
<1>4. IsVoice(given) /\ Len(given) = Len(new["p"])
  BY Given
<1> HIDE DEF given, tag
<1>5. Kept(given, r)
  BY <1>4, KeptTagged
<1> HIDE DEF q, r, lines
<1>6. IsVoice(r) /\ Len(r) = Len(new["p"])
  <2>1. IsVoice(r) /\ DOMAIN r = DOMAIN given
    BY <1>5 DEF Kept
  <2>2. /\ Len(r) \in Nat /\ DOMAIN r = 1 .. Len(r)
        /\ Len(given) \in Nat /\ DOMAIN given = 1 .. Len(given)
    BY <1>4, <2>1, VoiceFacts
  <2>3. Len(r) = Len(given)
    <3> DEFINE x == Len(r)
               y == Len(given)
    <3> HIDE DEF x, y
    <3>1. x \in Nat /\ y \in Nat /\ 1 .. x = 1 .. y
      BY <2>1, <2>2 DEF x, y
    <3>2. (x # 0 => x \in 1 .. x) /\ (y # 0 => y \in 1 .. y)
      BY <3>1
    <3>3. (x # 0 => x \in 1 .. y) /\ (y # 0 => y \in 1 .. x)
      BY <3>1, <3>2
    <3>4. x = y
      BY <3>1, <3>3
    <3>5. QED
      BY <3>4 DEF x, y
  <2>4. QED
    BY <1>4, <2>1, <2>3
<1>7. a - 1 \in Nat /\ b \in Nat /\ a - 1 <= b /\ b <= Len(q)
  BY <1>1
<1>8. next.lines = lines /\ SameEntries(s, next) /\ HasFields(next)
  BY <1>1, <1>2, OtherLines
<1>9. IsSplice(q, a - 1, r, b, lines["p"])
  BY <1>1, <1>3, <1>6, <1>7, Splicing
<1>10. QED
  BY <1>3, <1>5, <1>6, <1>8, <1>9 DEF SameEntries, SameMarks, q, given

\* Where everything of s is in next.
Tracked(s, next, to) ==
  /\ Homes(s.lines["p"], next.lines["p"], to) /\ Tracks(s, next, to) /\ TracksAll(s, next, to)

LEMMA TrackedOn ==
  ASSUME NEW s, NEW t, NEW u, NEW to, Tracked(s, t, to), SameMarks(t, u),
         SameBars(t.lines["p"], u.lines["p"])
  PROVE  Tracked(s, u, to)
<1>1. SameMarks(s, s)
  BY DEF SameMarks
<1>2. Tracks(s, u, to) /\ TracksAll(s, u, to)
  BY <1>1, TracksSame DEF Tracked
<1>3. QED
  BY <1>2, HomesSame DEF Tracked

LEMMA InsertSits ==
  ASSUME NEW q, IsVoice(q), NEW r, IsVoice(r), NEW m, m = Len(q), NEW after \in Nat, after <= m,
         NEW w, IsSplice(q, after, r, after, w), NEW k, k = Len(r)
  PROVE  \A i \in DOMAIN q : Sits(q, w, InsertIdx(m, after, k), i)
<1> DEFINE to == InsertIdx(m, after, k)
<1>1. m \in Nat /\ k \in Nat /\ DOMAIN q = 1 .. m
  BY VoiceFacts
<1>2. \A i \in 1 .. m : to[i] = IF i <= after THEN i ELSE i + k
  BY DEF InsertIdx
<1> HIDE DEF to
<1>3. ASSUME NEW i \in DOMAIN q
      PROVE  Sits(q, w, to, i)
  <2>1. CASE i <= after
    <3>1. to[i] = i
      BY <1>1, <1>2, <2>1
    <3>2. QED
      BY <2>1, <3>1, SitsBefore
  <2>2. CASE ~(i <= after)
    <3>1. i > after /\ to[i] = i + k - (after - after)
      BY <1>1, <1>2, <2>2
    <3>2. QED
      BY <3>1, SitsBehind
  <2>3. QED
    BY <2>1, <2>2
<1>4. QED
  BY <1>3 DEF to

\* The measures from a to b of a voice are replaced.
LEMMA ReplaceSits ==
  ASSUME NEW q, IsVoice(q), NEW r, IsVoice(r), NEW m, m = Len(q), NEW a \in 1 .. m, NEW b \in a .. m,
         NEW w, IsSplice(q, a - 1, r, b, w), NEW k, k = Len(r), NEW i \in DOMAIN q, i \notin a .. b
  PROVE  Sits(q, w, ReplaceIdx(m, a, b, k), i)
<1> DEFINE to == ReplaceIdx(m, a, b, k)
           c == a - 1
<1>1. m \in Nat /\ k \in Nat /\ i \in 1 .. m
  BY VoiceFacts
<1>2. to[i] = IF i < a THEN i ELSE IF i > b THEN i + k - (b - a + 1)
              ELSE IF k = 0 THEN 0 ELSE a + k - 1
  BY <1>1 DEF ReplaceIdx
<1>3. c \in Nat /\ b \in Nat /\ c <= b /\ b <= Len(q) /\ IsSplice(q, c, r, b, w)
  BY <1>1
<1> HIDE DEF to
<1>4. CASE i < a
  <2>1. i <= c /\ to[i] = i
    BY <1>1, <1>2, <1>4
  <2> HIDE DEF c
  <2>2. QED
    BY <1>3, <2>1, SitsBefore DEF to
<1>5. CASE ~(i < a)
  <2>1. i > b /\ to[i] = i + k - (b - c)
    BY <1>1, <1>2, <1>5
  <2> HIDE DEF c
  <2>2. QED
    BY <1>3, <2>1, SitsBehind DEF to
<1>6. QED
  BY <1>4, <1>5

LEMMA NewUids ==
  ASSUME NEW q, NEW g, Older(q, g), NEW new, NEW how, NewBars(new, g, how),
         NEW r, r = MeasuresFor(new, "p"), NEW i \in DOMAIN q
  PROVE  \A k \in DOMAIN r : r[k].uid # q[i].uid
<1>1. \A k \in DOMAIN r : NewBar(r[k], g, how)
  BY GivenNew
<1>2. QED
  BY <1>1 DEF NewBar, Older

LEMMA InsertedTracked ==
  ASSUME NEW s, NEW m, NEW h, Whole(s, m, h), NEW new, Offered(new), NEW k, k = Len(new["p"]),
         NEW after \in 0 .. m, NEW mid, mid = Inserted(s, new, after),
         NEW to, to = InsertIdx(m, after, k), NEW next, next = Remapped(mid, to)
  PROVE  Tracked(s, next, to) /\ HasFields(next) /\ next.lines = mid.lines
<1> DEFINE q == s.lines["p"]
           w == mid.lines["p"]
<1>1. /\ Laid(s, m, m, h) /\ Referred(s) /\ AreEntries(s) /\ m \in Nat /\ after \in Nat /\ after <= m
      /\ IsVoice(q) /\ Len(q) = m
  BY CountLaid DEF Whole, Laid, Standing, Matched, IsBundle
<1>2. PICK r : IsSplice(q, after, r, after, w) /\ IsVoice(r) /\ Len(r) = k
  BY <1>1, InsertedAt
<1>3. SameMarks(s, mid) /\ HasFields(mid)
  BY <1>1, InsertedAt
<1> HIDE DEF q, w
<1>4. \A i \in DOMAIN q : Sits(q, w, to, i)
  BY <1>1, <1>2, InsertSits
<1>5. AreEntries(mid) /\ Referred(mid)
  BY <1>1, <1>3 DEF SameMarks, AreEntries, Referred, OfKind
<1>6. Tracks(mid, next, to) /\ TracksAll(mid, next, to)
  BY <1>3, <1>5, RemappedTracks
<1>7. SameMarks(next, next)
  BY DEF SameMarks
<1>8. Tracks(s, next, to) /\ TracksAll(s, next, to)
  BY <1>3, <1>6, <1>7, TracksSame
<1>9. HasFields(next) /\ next.lines = mid.lines
  BY <1>3, RemappedFields
<1>10. QED
  BY <1>4, <1>8, <1>9 DEF Tracked, Homes, q, w

LEMMA ReplacedTracked ==
  ASSUME NEW s, NEW m, NEW h, Whole(s, m, h), NEW g, Distinct(s.lines["p"]), Older(s.lines["p"], g),
         NEW new, NEW how, NewBars(new, g, how), NEW k, k = Len(new["p"]),
         NEW a \in 1 .. m, NEW b \in a .. m, NEW mid, mid = Replaced(s, a, b, new),
         NEW cut, HasFields(cut), SameMarks(mid, cut), cut.lines = mid.lines,
         NEW to, to = ReplaceIdx(m, a, b, k), NEW next, next = Remapped(cut, to)
  PROVE  Tracked(s, next, to) /\ HasFields(next) /\ next.lines = mid.lines
<1> DEFINE q == s.lines["p"]
           w == mid.lines["p"]
           given == MeasuresFor(new, "p")
<1>1. /\ Laid(s, m, m, h) /\ Referred(s) /\ AreEntries(s) /\ m \in Nat /\ Offered(new)
      /\ IsVoice(q) /\ Len(q) = m
  BY CountLaid DEF Whole, Laid, Standing, Matched, IsBundle, NewBars
<1>2. PICK r : IsSplice(q, a - 1, r, b, w) /\ Kept(given, r) /\ Len(r) = k
  BY <1>1, ReplacedAt
<1>3. SameMarks(s, mid) /\ HasFields(mid)
  BY <1>1, ReplacedAt
<1>a. IsVoice(r)
  BY <1>2 DEF Kept
<1>4. \A i \in DOMAIN q : \A j \in DOMAIN r : r[j].uid # q[i].uid
  <2>1. \A i \in DOMAIN q : \A j \in DOMAIN given : given[j].uid # q[i].uid
    BY NewUids
  <2> HIDE DEF given
  <2>2. QED
    BY <1>2, <2>1 DEF Kept
<1> HIDE DEF q, w
<1>5. ASSUME NEW i \in DOMAIN q
      PROVE  Sits(q, w, to, i) \/ Gone(q, w, i)
  <2>1. CASE i \notin a .. b
    BY <1>1, <1>2, <1>a, <2>1, ReplaceSits
  <2>2. CASE i \in a .. b
    <3> DEFINE c == a - 1
    <3>1. c \in Nat /\ b \in Nat /\ c <= b /\ b <= Len(q) /\ c < i /\ i <= b
      BY <1>1, <2>2
    <3>2. IsSplice(q, c, r, b, w) /\ Distinct(q) /\ \A j \in DOMAIN r : r[j].uid # q[i].uid
      BY <1>2, <1>4 DEF q
    <3> HIDE DEF c
    <3>3. QED
      BY <1>1, <1>a, <3>1, <3>2, GoneSpliced
  <2>3. QED
    BY <2>1, <2>2
<1>7. SameMarks(s, cut)
  BY <1>3 DEF SameMarks
<1>8. AreEntries(cut) /\ Referred(cut)
  BY <1>1, <1>7 DEF SameMarks, AreEntries, Referred, OfKind
<1>9. Tracks(cut, next, to) /\ TracksAll(cut, next, to)
  BY <1>8, RemappedTracks
<1>10. SameMarks(next, next)
  BY DEF SameMarks
<1>11. Tracks(s, next, to) /\ TracksAll(s, next, to)
  BY <1>7, <1>9, <1>10, TracksSame
<1>12. HasFields(next) /\ next.lines = mid.lines
  BY RemappedFields
<1>13. QED
  BY <1>5, <1>11, <1>12 DEF Tracked, Homes, q, w

LEMMA FlaggedTracked ==
  ASSUME NEW s, NEW t, NEW m, NEW n, NEW h, Laid(t, m, n, h), NEW to, Tracked(s, t, to),
         NEW had, NEW next, next = FlagOnlyLast(t, had)
  PROVE  Tracked(s, next, to)
<1>1. "p" \in DOMAIN t.lines /\ HasFields(t)
  BY DEF Laid, Matched, IsBundle
<1>2. Kept(t.lines["p"], next.lines["p"])
  BY <1>1, KeptFlagged
<1>3. SameMarks(t, next)
  BY <1>1, OtherLines DEF FlagOnlyLast, EachVoice, SameEntries, SameMarks
<1>4. SameBars(t.lines["p"], next.lines["p"])
  BY <1>2 DEF Kept, SameBars
<1>5. QED
  BY <1>3, <1>4, TrackedOn

LEMMA SpansCut ==
  ASSUME NEW s, HasFields(s), NEW x
  PROVE  /\ HasFields([s EXCEPT !.spans = x]) /\ SameMarks(s, [s EXCEPT !.spans = x])
         /\ [s EXCEPT !.spans = x].lines = s.lines
BY DEF HasFields, SameMarks

LEMMA SpansTracked ==
  ASSUME NEW s, NEW t, HasFields(t), NEW to, Tracked(s, t, to), NEW x,
         NEW next, next = [t EXCEPT !.spans = x]
  PROVE  Tracked(s, next, to)
<1>1. SameMarks(t, next) /\ SameBars(t.lines["p"], next.lines["p"])
  BY DEF HasFields, SameMarks, SameBars
<1>2. QED
  BY <1>1, TrackedOn

LEMMA InsertTracked ==
  ASSUME NEW s, NEW m, NEW h, Whole(s, m, h), NEW new, Offered(new), NEW spans,
         NEW after \in 0 .. m, NEW next, next = InsertMeasuresAfter(s, new, spans, after)
  PROVE  \E to : Tracked(s, next, to)
<1> DEFINE k == Len(new["p"])
           mid == Inserted(s, new, after)
           to == InsertIdx(m, after, k)
           moved == Remapped(mid, to)
           x == moved.spans \union spans
<1>1. Count(s) = m
  BY CountLaid DEF Whole
<1>2. next = [moved EXCEPT !.spans = x]
  BY <1>1 DEF InsertMeasuresAfter
<1> HIDE DEF k
<1>3. Tracked(s, moved, to) /\ HasFields(moved)
  BY InsertedTracked DEF k
<1> HIDE DEF mid, to, moved, x
<1>4. QED
  BY <1>2, <1>3, SpansTracked

LEMMA RegionTracked ==
  ASSUME NEW s, NEW m, NEW h, Whole(s, m, h), NEW g, Distinct(s.lines["p"]), Older(s.lines["p"], g),
         NEW new, NEW how, NewBars(new, g, how), NEW spans, NEW a \in 1 .. m, NEW b \in a .. m,
         NEW next, next = RegionReplace(s, a, b, new, spans)
  PROVE  \E to : Tracked(s, next, to)
<1> DEFINE k == Len(new["p"])
           mid == Replaced(s, a, b, new)
           out == SpansOutside(s, a, b)
           cut == [mid EXCEPT !.spans = out]
           to == ReplaceIdx(m, a, b, k)
           moved == Remapped(cut, to)
           x == moved.spans \union spans
<1>1. Count(s) = m
  BY CountLaid DEF Whole
<1>2. next = [moved EXCEPT !.spans = x]
  BY <1>1 DEF RegionReplace
<1>3. Laid(s, m, m, h) /\ Offered(new) /\ k = Len(new["p"]) /\ mid = Replaced(s, a, b, new)
      /\ to = ReplaceIdx(m, a, b, k) /\ moved = Remapped(cut, to)
  BY DEF Whole, NewBars
<1>4. HasFields(mid)
  BY <1>3, ReplacedAt
<1> HIDE DEF k, mid, out
<1>5. HasFields(cut) /\ SameMarks(mid, cut) /\ cut.lines = mid.lines
  BY <1>4, SpansCut
<1> HIDE DEF cut, to, moved, x
<1>6. Tracked(s, moved, to) /\ HasFields(moved)
  BY <1>3, <1>5, ReplacedTracked
<1>7. QED
  BY <1>2, <1>6, SpansTracked DEF x

LEMMA DeleteTracked ==
  ASSUME NEW s, NEW m, NEW h, Whole(s, m, h), NEW g, Distinct(s.lines["p"]), Older(s.lines["p"], g),
         NEW a \in 1 .. m, NEW b \in a .. m, NEW next, next = DeleteRange(s, a, b)
  PROVE  \E to : Tracked(s, next, to)
<1> DEFINE k == Len(Nothing["p"])
           mid == Replaced(s, a, b, Nothing)
           out == SpansOutside(s, a, b)
           cut == [mid EXCEPT !.spans = out]
           to == ReplaceIdx(m, a, b, k)
           moved == Remapped(cut, to)
           n == (a - 1) + 0 + (m - b)
<1>1. Count(s) = m /\ k = 0 /\ Offered(Nothing) /\ Laid(s, m, m, h) /\ m \in Nat
  BY CountLaid, NothingOffered DEF Whole
<1>2. next = FlagOnlyLast(moved, EndsPartial(s))
  BY <1>1 DEF DeleteRange
<1>3. NewBars(Nothing, g, "any")
  BY NothingNew
<1>4. /\ k = Len(Nothing["p"]) /\ mid = Replaced(s, a, b, Nothing)
      /\ to = ReplaceIdx(m, a, b, k) /\ moved = Remapped(cut, to)
  OBVIOUS
<1>5. Laid(mid, n, m, h)
  BY <1>1, NothingOffered, ReplacedLaid
<1>6. mid.spans = s.spans /\ HasFields(mid)
  BY <1>1, ReplacedAt
<1>7. out \in SUBSET mid.spans
  BY <1>6, SpansOutsideAre
<1>8. Maps(to, m, n)
  BY <1>1, ReplaceMaps
<1> HIDE DEF n, mid, out, k
<1>9. Laid(cut, n, m, h)
  BY <1>5, <1>7, LaidFewer
<1>10. HasFields(cut) /\ SameMarks(mid, cut) /\ cut.lines = mid.lines
  BY <1>6, SpansCut
<1> HIDE DEF cut, to, moved
<1>11. Laid(moved, n, n, h)
  BY <1>4, <1>8, <1>9, RemappedLaid
<1>12. Tracked(s, moved, to)
  BY <1>3, <1>4, <1>10, ReplacedTracked
<1>13. QED
  BY <1>2, <1>11, <1>12, FlaggedTracked

LEMMA DuplicateTracked ==
  ASSUME NEW s, NEW m, NEW h, Whole(s, m, h), NEW a \in 1 .. m, NEW b \in a .. m,
         NEW after \in 0 .. m, NEW g, NEW next, next = DuplicateRange(s, a, b, after, g)
  PROVE  \E to : Tracked(s, next, to)
<1> DEFINE had == Captured(s, a, b)
           new == Cloned(had, g)
           k == b - a + 1
           mid == Inserted(s, new, after)
           to == InsertIdx(m, after, k)
           moved == Remapped(mid, to)
<1>1. /\ m \in Nat /\ after \in Nat /\ after <= m /\ Count(s) = m /\ k \in Nat
      /\ Laid(s, m, m, h)
  BY CountLaid DEF Whole
<1>2. next = FlagOnlyLast(moved, EndsPartial(s))
  BY <1>1 DEF DuplicateRange
<1>3. Offered(had) /\ IsBundle(had) /\ Len(had["p"]) = k
  BY <1>1, CapturedIs
<1> HIDE DEF had
<1>4. Offered(new) /\ Len(new["p"]) = k
  BY <1>3, ClonedOffered
<1> HIDE DEF new, k
<1>5. Tracked(s, moved, to)
  BY <1>4, InsertedTracked
<1>6. Laid(mid, m + k, m, h)
  BY <1>1, <1>4, InsertedLaid
<1>7. Maps(to, m, m + k)
  BY <1>1, InsertMaps
<1> HIDE DEF mid, to
<1>8. Laid(moved, m + k, m + k, h)
  BY <1>6, <1>7, RemappedLaid
<1> HIDE DEF moved
<1>9. QED
  BY <1>2, <1>5, <1>8, FlaggedTracked

\* Measures added behind the last one.
LEMMA AddedTracked ==
  ASSUME NEW s, NEW m, NEW h, Whole(s, m, h), NEW new, Offered(new),
         NEW next, next = Inserted(s, new, Count(s))
  PROVE  \E to : Tracked(s, next, to)
<1> DEFINE q == s.lines["p"]
           w == next.lines["p"]
           to == [i \in 1 .. m |-> i]
<1>1. /\ Laid(s, m, m, h) /\ Placed(s, m) /\ m \in Nat /\ m <= m /\ Count(s) = m
      /\ IsVoice(q) /\ Len(q) = m /\ DOMAIN q = 1 .. m
  BY CountLaid, VoiceFacts DEF Whole, Laid, Standing, Matched, IsBundle
<1>2. PICK r : IsSplice(q, m, r, m, w) /\ IsVoice(r)
  BY <1>1, InsertedAt
<1>3. SameMarks(s, next)
  BY <1>1, InsertedAt
<1>4. \A i \in 1 .. m : to[i] = i
  OBVIOUS
<1> HIDE DEF q, w, to
<1>5. ASSUME NEW i \in DOMAIN q
      PROVE  Sits(q, w, to, i)
  <2>1. i <= m /\ to[i] = i
    BY <1>1, <1>4
  <2>2. QED
    BY <1>1, <1>2, <2>1, SitsBefore
<1>6. Tracks(s, next, to) /\ TracksAll(s, next, to)
  BY <1>1, <1>3, <1>4, TracksSelf
<1>7. QED
  BY <1>5, <1>6 DEF Tracked, Homes, q, w

LEMMA AppendTracked ==
  ASSUME NEW s, NEW m, NEW h, Whole(s, m, h), NEW new, Offered(new),
         NEW next, next = AppendMeasures(s, new)
  PROVE  \E to : Tracked(s, next, to)
<1> DEFINE mid == Inserted(s, new, Count(s))
           lines == [l \in Voices(s) |-> [mid.lines[l] EXCEPT ![Count(s)].part = FALSE]]
           w == mid.lines["p"]
<1>1. Laid(s, m, m, h) /\ m \in Nat /\ m <= m /\ Count(s) = m /\ "p" \in Voices(s)
  <2>1. Laid(s, m, m, h)
    BY DEF Whole
  <2>2. m \in Nat /\ Count(s) = m
    BY <2>1, CountLaid
  <2>3. QED
    BY <2>1, <2>2 DEF Laid, Matched, IsBundle, Voices
<1>2. PICK to : Tracked(s, mid, to)
  BY AddedTracked
<1>3. HasFields(mid) /\ DOMAIN mid.lines = DOMAIN s.lines
  BY <1>1, InsertedAt
<1>4. Laid(mid, m + Len(new["p"]), m, h)
  BY <1>1, InsertedLaid
<1>5. next = [mid EXCEPT !.lines = lines]
  BY DEF AppendMeasures, EachVoice
<1>6. lines["p"] = [w EXCEPT ![Count(s)].part = FALSE]
  BY <1>1
<1>7. IsVoice(w)
  BY <1>1, <1>3, <1>4 DEF Laid, Matched, IsBundle, Voices
<1> HIDE DEF mid, lines, w
<1>8. Kept(w, lines["p"])
  BY <1>6, <1>7, KeptOne
<1>9. next.lines = lines /\ SameEntries(mid, next)
  BY <1>3, <1>5, OtherLines
<1>10. SameMarks(mid, next) /\ SameBars(mid.lines["p"], next.lines["p"])
  BY <1>8, <1>9 DEF SameEntries, SameMarks, Kept, SameBars, w
<1>11. QED
  BY <1>2, <1>10, TrackedOn

\* Nothing moves where the measures and the entries are the same.
LEMMA StillTracked ==
  ASSUME NEW s, NEW m, NEW h, Whole(s, m, h), NEW next, SameMarks(s, next),
         SameBars(s.lines["p"], next.lines["p"])
  PROVE  \E to : Tracked(s, next, to)
<1> DEFINE to == [i \in 1 .. m |-> i]
           q == s.lines["p"]
<1>1. Placed(s, m) /\ DOMAIN q = 1 .. m
  BY VoiceFacts DEF Whole, Laid, Standing, Matched, IsBundle
<1>2. \A i \in 1 .. m : to[i] = i
  OBVIOUS
<1> HIDE DEF to
<1>3. Tracks(s, next, to) /\ TracksAll(s, next, to)
  BY <1>1, <1>2, TracksSelf
<1>4. Homes(q, next.lines["p"], to)
  BY <1>1, <1>2 DEF Homes, Sits, SameBars
<1>5. QED
  BY <1>3, <1>4 DEF Tracked

-----------------------------------------------------------------------------
(* Measures moved *)

\* Where the measures are after a move: those of a..b by d further, the others
\* where the two remaps bring them.
Across(m, a, b, d, to, back) == [i \in 1 .. m |-> IF i \in a .. b THEN i + d ELSE back[to[i]]]

LEMMA StrippedMarks ==
  ASSUME NEW s, HasFields(s), NEW a, NEW b, NEW t, t = Stripped(s, a, b)
  PROVE  /\ \A p \in s.points : p.at \notin a .. b => p \in t.points
         /\ \A j \in t.jumps : j \in s.jumps /\ j.at \notin a .. b
         /\ \A r \in t.ranges : r \in s.ranges /\ r.from \notin a .. b /\ r.to \notin a .. b
<1> DEFINE R == {r \in s.ranges : {r.from, r.to} \cap (a .. b) = {}}
           P == {p \in s.points : p.at \notin a .. b}
           J == {j \in s.jumps : j.at \notin a .. b}
<1>1. t = [s EXCEPT !.points = P, !.jumps = J, !.ranges = R]
  BY DEF Stripped
<1>2. /\ \A p \in s.points : p.at \notin a .. b => p \in P
      /\ \A j \in J : j \in s.jumps /\ j.at \notin a .. b
      /\ \A r \in R : r \in s.ranges /\ r.from \notin a .. b /\ r.to \notin a .. b
  OBVIOUS
<1> HIDE DEF P, J, R
<1>3. t.points = P /\ t.jumps = J /\ t.ranges = R
  BY <1>1 DEF HasFields
<1>4. QED
  BY <1>2, <1>3

LEMMA PointShifts ==
  ASSUME NEW s, AreEntries(s), NEW a, NEW b, NEW d, NEW p \in s.points, p.at \in a .. b
  PROVE  \E y \in PointsShifted(s, a, b, d) : y.id = p.id /\ y.at = p.at + d
<1> DEFINE y == [p EXCEPT !.at = @ + d]
<1>1. y \in PointsShifted(s, a, b, d)
  BY DEF PointsShifted
<1>2. p = [id |-> p.id, kind |-> p.kind, at |-> p.at, line |-> p.line]
  BY DEF AreEntries
<1>3. y.id = p.id /\ y.at = p.at + d
  BY <1>2
<1>4. QED
  BY <1>1, <1>3

LEMMA MoveTracks ==
  ASSUME NEW s, NEW m, HasFields(s), AreEntries(s), Placed(s, m), NEW a, NEW b, NEW d,
         NEW t, t = Stripped(s, a, b), NEW to, NEW back, NEW left, NEW moved,
         \A i \in 1 .. m : i \notin a .. b => to[i] # 0,
         Tracks(t, left, to), Tracks(left, moved, back), HasFields(moved),
         NEW next, next = Reattached(moved, InRange(s, a, b), d)
  PROVE  Tracks(s, next, Across(m, a, b, d, to, back))
<1> DEFINE P == PointsShifted(s, a, b, d)
           J == JumpsShifted(s, a, b, d)
           R == RangesShifted(s, a, b, d)
           up == Across(m, a, b, d, to, back)
<1>1. next = [moved EXCEPT !.points = @ \union P, !.jumps = @ \union J, !.ranges = @ \union R]
  BY DEF Reattached, InRange, PointsShifted, JumpsShifted, RangesShifted
<1>2. \A i \in 1 .. m : up[i] = IF i \in a .. b THEN i + d ELSE back[to[i]]
  BY DEF Across
<1>3. /\ \A p \in s.points : p.at \notin a .. b => p \in t.points
      /\ \A j \in t.jumps : j \in s.jumps /\ j.at \notin a .. b
      /\ \A r \in t.ranges : r \in s.ranges /\ r.from \notin a .. b /\ r.to \notin a .. b
  BY StrippedMarks
<1>4. \A p \in s.points : p.at \in a .. b => \E y \in P : y.id = p.id /\ y.at = p.at + d
  BY PointShifts
<1>5. \A y \in J : \E j \in s.jumps : JumpFrom(a, b, d, y, j)
  BY Shifted
<1>6. \A y \in R : \E r \in s.ranges : RangeFrom(a, b, d, y, r)
  BY Shifted
<1> HIDE DEF P, J, R, up
<1>7. /\ next.points = moved.points \cup P /\ next.jumps = moved.jumps \cup J
      /\ next.ranges = moved.ranges \cup R
  BY <1>1 DEF HasFields
<1>8. /\ \A p \in s.points \union s.jumps : p.at \in 1 .. m
      /\ \A r \in s.ranges : r.from \in 1 .. m /\ r.to \in 1 .. m
  <2>1. \A p \in s.points \union s.jumps : p.at \in 1 .. m
    BY DEF Placed
  <2>2. ASSUME NEW r \in s.ranges
        PROVE  r.from \in 1 .. m /\ r.to \in 1 .. m
    <3>1. r.from \in 1 .. m /\ r.to \in r.from .. m
      BY DEF Placed
    <3>2. QED
      BY <3>1
  <2>3. QED
    BY <2>1, <2>2
<1>9. ASSUME NEW p \in s.points, up[p.at] # 0
      PROVE  \E y \in next.points : y.id = p.id /\ y.at = up[p.at]
  <2>1. CASE p.at \in a .. b
    <3>1. up[p.at] = p.at + d
      BY <1>2, <1>8, <2>1
    <3>2. PICK y \in P : y.id = p.id /\ y.at = p.at + d
      BY <1>4, <2>1
    <3>3. QED
      BY <1>7, <3>1, <3>2
  <2>2. CASE p.at \notin a .. b
    <3>1. up[p.at] = back[to[p.at]] /\ to[p.at] # 0 /\ p \in t.points
      BY <1>2, <1>3, <1>8, <2>2
    <3>2. PICK x \in left.points : x.id = p.id /\ x.at = to[p.at]
      BY <3>1 DEF Tracks
    <3>3. back[x.at] # 0
      BY <1>9, <3>1, <3>2
    <3>4. PICK y \in moved.points : y.id = x.id /\ y.at = back[x.at]
      BY <3>3 DEF Tracks
    <3>5. QED
      BY <1>7, <3>1, <3>2, <3>4
  <2>3. QED
    BY <2>1, <2>2
<1>10. ASSUME NEW y \in next.ranges
       PROVE  \E r \in s.ranges : y.id = r.id /\ y.from = up[r.from] /\ y.to = up[r.to]
  <2>1. CASE y \in R
    <3>1. PICK r \in s.ranges : RangeFrom(a, b, d, y, r)
      BY <1>6, <2>1
    <3>2. QED
      BY <1>2, <1>8, <3>1 DEF RangeFrom
  <2>2. CASE y \in moved.ranges
    <3>1. PICK x \in left.ranges : y.id = x.id /\ y.from = back[x.from] /\ y.to = back[x.to]
      BY <2>2 DEF Tracks
    <3>2. PICK r \in t.ranges : x.id = r.id /\ x.from = to[r.from] /\ x.to = to[r.to]
      BY DEF Tracks
    <3>3. r \in s.ranges /\ up[r.from] = back[to[r.from]] /\ up[r.to] = back[to[r.to]]
      BY <1>2, <1>3, <1>8
    <3>4. QED
      BY <3>1, <3>2, <3>3
  <2>3. QED
    BY <1>7, <2>1, <2>2
<1>11. ASSUME NEW y \in next.jumps
       PROVE  \E j \in s.jumps : y.id = j.id /\ y.at = up[j.at]
  <2>1. CASE y \in J
    <3>1. PICK j \in s.jumps : JumpFrom(a, b, d, y, j)
      BY <1>5, <2>1
    <3>2. QED
      BY <1>2, <1>8, <3>1 DEF JumpFrom
  <2>2. CASE y \in moved.jumps
    <3>1. PICK x \in left.jumps : y.id = x.id /\ y.at = back[x.at]
      BY <2>2 DEF Tracks
    <3>2. PICK j \in t.jumps : x.id = j.id /\ x.at = to[j.at]
      BY DEF Tracks
    <3>3. j \in s.jumps /\ up[j.at] = back[to[j.at]]
      BY <1>2, <1>3, <1>8
    <3>4. QED
      BY <3>1, <3>2, <3>3
  <2>3. QED
    BY <1>7, <2>1, <2>2
<1>12. Tracks(s, next, up)
  BY <1>9, <1>10, <1>11 DEF Tracks
<1>13. QED
  BY <1>12 DEF up

\* q without its measures from a to b is w; with them again, behind the measure
\* dest, it is x.
LEMMA MoveSits ==
  ASSUME NEW q, IsVoice(q), NEW m, m = Len(q), NEW a \in 1 .. m, NEW b \in a .. m,
         NEW r, IsVoice(r), Len(r) = 0, NEW w, IsVoice(w), IsSplice(q, a - 1, r, b, w),
         NEW new, IsVoice(new), IsPart(q, a, b, new), NEW c, c = Len(w), NEW k, k = Len(new),
         NEW dest \in Nat, dest <= c, NEW x, IsSplice(w, dest, new, dest, x),
         NEW d, d = dest + 1 - a, NEW to, to = ReplaceIdx(m, a, b, 0),
         NEW back, back = InsertIdx(c, dest, k)
  PROVE  Homes(q, x, Across(m, a, b, d, to, back))
<1> DEFINE up == Across(m, a, b, d, to, back)
<1>1. m \in Nat /\ DOMAIN q = 1 .. m
  BY VoiceFacts
<1>2. \A i \in 1 .. m : up[i] = IF i \in a .. b THEN i + d ELSE back[to[i]]
  BY DEF Across
<1>3. ASSUME NEW i \in DOMAIN q, i \notin a .. b
      PROVE  Sits(q, w, to, i)
  BY <1>3, ReplaceSits
<1>4. \A j \in DOMAIN w : Sits(w, x, back, j)
  BY InsertSits
<1> HIDE DEF up
<1>5. ASSUME NEW i \in DOMAIN q
      PROVE  Sits(q, x, up, i)
  <2>1. CASE i \in a .. b
    <3> DEFINE j == i - a + 1
    <3>1. j \in 1 .. b - a + 1 /\ a + j - 1 = i /\ dest + j = i + d /\ i \in Int
      BY <1>1, <2>1
    <3>2. DOMAIN new = 1 .. Len(new) /\ Len(new) = b - a + 1
      BY VoiceFacts DEF IsPart
    <3>3. new[j] = q[i]
      BY <3>1, <3>2 DEF IsPart
    <3> HIDE DEF j
    <3>a. j \in DOMAIN new /\ dest <= dest /\ dest <= Len(w)
      BY <3>1, <3>2
    <3>4. dest + j \in DOMAIN x /\ x[dest + j] = new[j]
      BY <3>a, SitsSpliced
    <3>5. up[i] = dest + j
      BY <1>1, <1>2, <2>1, <3>1
    <3>6. QED
      BY <3>3, <3>4, <3>5 DEF Sits
  <2>2. CASE i \notin a .. b
    <3>1. Sits(q, w, to, i) /\ up[i] = back[to[i]]
      BY <1>1, <1>2, <1>3, <2>2
    <3>2. Sits(w, x, back, to[i])
      BY <1>4, <3>1 DEF Sits
    <3>3. QED
      BY <3>1, <3>2 DEF Sits
  <2>3. QED
    BY <2>1, <2>2
<1>6. QED
  BY <1>5 DEF Homes, up

LEMMA CutIndex ==
  ASSUME NEW m \in Nat, NEW a \in 1 .. m, NEW b \in a .. m, NEW to, to = ReplaceIdx(m, a, b, 0)
  PROVE  \A i \in 1 .. m : i \notin a .. b => to[i] # 0
<1>1. \A i \in 1 .. m : to[i] = IF i < a THEN i ELSE IF i > b THEN i + 0 - (b - a + 1)
                                ELSE IF 0 = 0 THEN 0 ELSE a + 0 - 1
  BY DEF ReplaceIdx
<1>2. ASSUME NEW i \in 1 .. m, i \notin a .. b
      PROVE  to[i] # 0
  <2>1. CASE i < a
    BY <1>1, <2>1
  <2>2. CASE i > b
    <3>1. to[i] = i + 0 - (b - a + 1)
      BY <1>1, <2>2
    <3>2. QED
      BY <2>2, <3>1
  <2>3. QED
    BY <1>2, <2>1, <2>2
<1>3. QED
  BY <1>2

LEMMA ReattachedFlagged ==
  ASSUME NEW s, HasFields(s), "p" \in DOMAIN s.lines, IsVoice(s.lines["p"]), NEW had,
         NEW next, next = FlagOnlyLast(s, had)
  PROVE  SameMarks(s, next) /\ SameBars(s.lines["p"], next.lines["p"])
<1> DEFINE q == s.lines["p"]
           w == [i \in DOMAIN q |-> [q[i] EXCEPT !.part = i = Len(q) /\ had]]
           lines == [l \in DOMAIN s.lines |-> [i \in DOMAIN s.lines[l] |->
                       [s.lines[l][i] EXCEPT !.part = i = Len(s.lines[l]) /\ had]]]
<1>1. next = [s EXCEPT !.lines = lines]
  BY DEF FlagOnlyLast, EachVoice, Voices
<1>2. lines["p"] = w
  OBVIOUS
<1> HIDE DEF lines
<1>3. SameMarks(s, next) /\ next.lines = lines
  BY <1>1, OtherLines DEF SameEntries, SameMarks
<1>4. ASSUME NEW i \in DOMAIN q
      PROVE  w[i].uid = q[i].uid
  <2> DEFINE x == q[i]
             y == i = Len(q) /\ had
  <2>1. w[i] = [x EXCEPT !.part = y]
    OBVIOUS
  <2>2. x = [uid |-> x.uid, part |-> x.part, events |-> x.events]
    BY DEF IsVoice
  <2> HIDE DEF x, y, w
  <2>3. w[i].uid = x.uid
    BY <2>1, <2>2
  <2>4. QED
    BY <2>3 DEF x
<1>5. SameBars(q, w)
  BY <1>4 DEF SameBars
<1>6. QED
  BY <1>2, <1>3, <1>5

LEMMA MoveFollowed ==
  ASSUME NEW s, NEW m, NEW h, Whole(s, m, h), NEW a \in 1 .. m, NEW b \in a .. m,
         NEW after \in 0 .. m, after \notin (a - 1) .. b,
         NEW next, next = MoveRange(s, a, b, after)
  PROVE  \E to : Homes(s.lines["p"], next.lines["p"], to) /\ Tracks(s, next, to)
<1> DEFINE k == b - a + 1
           c == (a - 1) + 0 + (m - b)
           dest == IF after > b THEN after - k ELSE after
           d == dest + 1 - a
           t == Stripped(s, a, b)
           u == Replaced(t, a, b, Nothing)
           to == ReplaceIdx(m, a, b, 0)
           left == Remapped(u, to)
           new == Captured(s, a, b)
           v == Inserted(left, new, dest)
           back == InsertIdx(c, dest, k)
           moved == Remapped(v, back)
           put == Reattached(moved, InRange(s, a, b), d)
           q == s.lines["p"]
           up == Across(m, a, b, d, to, back)
<1>1. /\ Laid(s, m, m, h) /\ Count(s) = m /\ m \in Nat /\ "p" \in DOMAIN s.lines
      /\ IsVoice(q) /\ Len(q) = m /\ HasFields(s) /\ AreEntries(s) /\ Placed(s, m)
  BY CountLaid DEF Whole, Laid, Standing, Matched, IsBundle
<1>2. k \in Nat /\ c \in Nat /\ dest \in Nat /\ dest <= c
  BY <1>1
<1>3. Laid(t, m, m, h) /\ t.lines = s.lines
  BY <1>1, StrippedLaid
<1>4. Maps(to, m, c) /\ \A i \in 1 .. m : i \notin a .. b => to[i] # 0
  BY <1>1, ReplaceMaps, CutIndex
<1>5. Laid(u, c, m, h)
  <2> HIDE DEF t
  <2>1. QED
    BY <1>3, NothingOffered, ReplacedLaid
<1>6. PICK r : IsSplice(q, a - 1, r, b, u.lines["p"]) /\ IsVoice(r) /\ Len(r) = 0
  <2> HIDE DEF t
  <2>1. PICK r : /\ IsSplice(t.lines["p"], a - 1, r, b, u.lines["p"])
                 /\ Kept(MeasuresFor(Nothing, "p"), r) /\ Len(r) = Len(Nothing["p"])
    BY <1>3, NothingOffered, ReplacedAt
  <2>2. Len(Nothing["p"]) = 0
    BY NothingOffered
  <2>3. QED
    BY <1>3, <2>1, <2>2 DEF Kept
<1>7. SameMarks(t, u)
  <2> HIDE DEF t
  <2>1. QED
    BY <1>3, NothingOffered, ReplacedAt
<1>a. t = Stripped(s, a, b)
  OBVIOUS
<1> HIDE DEF t, u
<1>8. /\ Laid(left, c, c, h) /\ left.lines = u.lines /\ Count(left) = c
      /\ IsVoice(left.lines["p"]) /\ Len(left.lines["p"]) = c
  <2>1. Laid(left, c, c, h) /\ left.lines = u.lines
    BY <1>4, <1>5, RemappedLaid, RemappedFields DEF Laid
  <2> HIDE DEF left
  <2>2. QED
    BY <2>1, CountLaid DEF Laid, Matched, IsBundle
<1>9. Tracks(t, left, to)
  <2>1. Tracks(u, left, to)
    BY <1>5, RemappedTracks DEF Laid, Standing
  <2>2. SameMarks(left, left)
    BY DEF SameMarks
  <2>3. QED
    BY <1>7, <2>1, <2>2, TracksSame
<1>10. put = Reattached(moved, InRange(s, a, b), d) /\ next = FlagOnlyLast(put, EndsPartial(s))
  BY <1>1, <1>8 DEF MoveRange, t, u
<1>b. to = ReplaceIdx(m, a, b, 0)
  OBVIOUS
<1> HIDE DEF left, to
<1>e. new = Captured(s, a, b)
  OBVIOUS
<1> HIDE DEF new
<1>11. Offered(new) /\ Len(new["p"]) = k /\ DOMAIN new = DOMAIN s.lines
       /\ \A l \in DOMAIN s.lines : IsPart(s.lines[l], a, b, new[l])
  <2>1. Laid(s, m, m, h)
    BY <1>1
  <2>2. /\ Offered(new) /\ Len(new["p"]) = b - a + 1 /\ DOMAIN new = DOMAIN s.lines
        /\ \A l \in DOMAIN s.lines : IsPart(s.lines[l], a, b, new[l])
    BY <1>e, <2>1, CapturedIs
  <2>3. QED
    BY <2>2
<1>12. MeasuresFor(new, "p") = new["p"]
  BY <1>1, <1>11 DEF MeasuresFor, IsPart
<1>c. d = dest + 1 - a
  OBVIOUS
<1> HIDE DEF dest, d
<1>13. /\ IsSplice(left.lines["p"], dest, new["p"], dest, v.lines["p"])
       /\ IsVoice(new["p"]) /\ SameMarks(left, v)
  <2>1. /\ IsSplice(left.lines["p"], dest, MeasuresFor(new, "p"), dest, v.lines["p"])
        /\ IsVoice(MeasuresFor(new, "p")) /\ SameMarks(left, v)
    BY <1>2, <1>8, <1>11, InsertedAt
  <2>2. QED
    BY <1>12, <2>1
<1>d. back = InsertIdx(c, dest, k)
  OBVIOUS
<1> HIDE DEF k, c
<1>14. Laid(v, c + k, c, h)
  BY <1>2, <1>8, <1>11, InsertedLaid
<1>15. Maps(back, c, c + k)
  BY <1>2, InsertMaps
<1> HIDE DEF v, back
<1>16. Laid(moved, c + k, c + k, h) /\ moved.lines = v.lines
  BY <1>14, <1>15, RemappedLaid, RemappedFields DEF Laid
<1>17. Tracks(left, moved, back)
  <2>1. Tracks(v, moved, back)
    BY <1>14, RemappedTracks DEF Laid, Standing
  <2>2. SameMarks(moved, moved)
    BY DEF SameMarks
  <2>3. QED
    BY <1>13, <2>1, <2>2, TracksSame
<1> HIDE DEF moved
<1>18. HasFields(moved) /\ "p" \in DOMAIN moved.lines /\ IsVoice(moved.lines["p"])
  BY <1>16 DEF Laid, Matched, IsBundle
<1> HIDE DEF put
<1>19. Tracks(s, put, up)
  BY <1>1, <1>4, <1>9, <1>10, <1>17, <1>18, <1>a, MoveTracks
<1>20. Homes(q, v.lines["p"], up)
  <2> HIDE DEF q
  <2>1. /\ IsSplice(q, a - 1, r, b, left.lines["p"]) /\ IsPart(q, a, b, new["p"])
        /\ Len(left.lines["p"]) = c /\ Len(new["p"]) = k
    BY <1>1, <1>6, <1>8, <1>11 DEF q
  <2>2. QED
    BY <1>1, <1>2, <1>6, <1>8, <1>13, <1>b, <1>c, <1>d, <2>1, MoveSits
<1> HIDE DEF up
<1>21. HasFields(put) /\ put.lines = moved.lines
  <2> DEFINE e == InRange(s, a, b)
             P == moved.points \union {[p EXCEPT !.at = @ + d] : p \in e.points}
             J == moved.jumps \union {[j EXCEPT !.at = @ + d] : j \in e.jumps}
             R == moved.ranges \union {[x EXCEPT !.from = @ + d, !.to = @ + d] : x \in e.ranges}
  <2>1. put = [moved EXCEPT !.points = P, !.jumps = J, !.ranges = R]
    BY <1>10 DEF Reattached
  <2> HIDE DEF P, J, R
  <2>2. QED
    BY <1>18, <2>1 DEF HasFields
<1>22. SameMarks(put, next) /\ SameBars(put.lines["p"], next.lines["p"])
  BY <1>10, <1>18, <1>21, ReattachedFlagged
<1>23. Homes(q, next.lines["p"], up)
  BY <1>16, <1>20, <1>21, <1>22, HomesSame
<1>24. Tracks(s, next, up)
  <2>1. SameMarks(s, s)
    BY DEF SameMarks
  <2>2. QED
    BY <1>19, <1>22, <2>1, TracksSame
<1>25. QED
  BY <1>23, <1>24

LEMMA BackfilledTracked ==
  ASSUME NEW s, NEW t, NEW m, NEW h, Whole(t, m, h), NEW to, Tracked(s, t, to),
         NEW next, next = Backfilled(t)
  PROVE  Tracked(s, next, to)
<1> DEFINE q == t.lines["p"]
           lines == [l \in DOMAIN t.lines |-> [k \in DOMAIN t.lines[l] |->
                       [t.lines[l][k] EXCEPT !.events = WithIds(l, k, @)]]]
           w == [k \in DOMAIN q |-> [q[k] EXCEPT !.events = WithIds("p", k, @)]]
<1>1. HasFields(t) /\ "p" \in DOMAIN t.lines /\ IsVoice(q)
  BY DEF Whole, Laid, Matched, IsBundle
<1>2. next = [t EXCEPT !.lines = lines]
  BY DEF Backfilled, Voices
<1>3. lines["p"] = w
  BY <1>1
<1> HIDE DEF lines
<1>4. SameMarks(t, next) /\ next.lines = lines
  BY <1>1, <1>2, OtherLines DEF SameEntries, SameMarks
<1>5. ASSUME NEW k \in DOMAIN q
      PROVE  w[k].uid = q[k].uid
  <2> DEFINE x == q[k]
             y == WithIds("p", k, x.events)
  <2>1. w[k] = [x EXCEPT !.events = y]
    OBVIOUS
  <2>2. x = [uid |-> x.uid, part |-> x.part, events |-> x.events]
    BY <1>1 DEF IsVoice
  <2> HIDE DEF x, y, w
  <2>3. w[k].uid = x.uid
    BY <2>1, <2>2
  <2>4. QED
    BY <2>3 DEF x
<1>6. SameBars(q, w)
  BY <1>5 DEF SameBars
<1>7. QED
  BY <1>3, <1>4, <1>6, TrackedOn

-----------------------------------------------------------------------------
(* The steps *)

\* A step that is no edit of entries leaves everything of the score somewhere.
StepTracks ==
  \/ last' = "entry"
  \/ \E to : Tracked(score, score', to)
  \/ last' = "move" /\ \E to : /\ Homes(score.lines["p"], score'.lines["p"], to)
                               /\ Tracks(score, score', to)

LEMMA BalancedTracks ==
  ASSUME ScoreInv, NEW l \in Voices(score), NEW results, Balanced(l, results),
         \A w \in results : \E new : w = Writes(score.lines[l], new)
  PROVE  StepTracks
<1>1. PICK w \in results : Becomes([score EXCEPT !.lines[l] = w], "balanced")
  BY DEF Balanced
<1>2. Laid(score, Count(score), Count(score), edits) /\ Whole(score, Count(score), edits)
  BY Standings
<1>3. HasFields(score) /\ IsVoice(score.lines[l]) /\ "p" \in DOMAIN score.lines
  BY <1>2 DEF Laid, Matched, IsBundle, Voices
<1>4. DOMAIN w = DOMAIN score.lines[l] /\ \A m \in DOMAIN w : w[m].uid = score.lines[l][m].uid
  <2>1. Rewritten(score.lines[l], w)
    BY <1>3, WritesRewrites
  <2>2. QED
    BY <1>3, <2>1, Rewriting
<1> DEFINE lines == [score.lines EXCEPT ![l] = w]
<1>5. score' = [score EXCEPT !.lines = lines]
  BY <1>1 DEF Becomes
<1>6. lines["p"] = IF l = "p" THEN w ELSE score.lines["p"]
  BY <1>3
<1> HIDE DEF lines
<1>7. SameMarks(score, score') /\ score'.lines = lines
  BY <1>3, <1>5, OtherLines DEF SameEntries, SameMarks
<1>8. SameBars(score.lines["p"], lines["p"])
  BY <1>4, <1>6 DEF SameBars
<1>9. QED
  BY <1>2, <1>7, <1>8, StillTracked DEF StepTracks

LEMMA EventsTrack ==
  ASSUME ScoreInv, MoveEvent \/ ChangeDuration \/ RemoveEvent
  PROVE  StepTracks
<1>1. CASE MoveEvent
  <2>1. PICK l \in Voices(score) : \E x \in Spots(score.lines[l]),
                d \in Bars(score), pos \in 0..Capacity :
                  Balanced(l, MoveBalanced(score.lines[l], x[1], x[2], d, pos))
    BY <1>1 DEF MoveEvent
  <2>2. PICK x, d, pos : Balanced(l, MoveBalanced(score.lines[l], x[1], x[2], d, pos))
    BY <2>1
  <2>3. \A w \in MoveBalanced(score.lines[l], x[1], x[2], d, pos) :
          \E new : w = Writes(score.lines[l], new)
    BY MoveWrites
  <2>4. QED
    BY <2>2, <2>3, BalancedTracks
<1>2. CASE ChangeDuration
  <2>1. PICK l \in Voices(score) : \E x \in Spots(score.lines[l]), u \in Durations :
                  Balanced(l, ChangeDurationBalanced(score.lines[l], x[1], x[2], u))
    BY <1>2 DEF ChangeDuration
  <2>2. PICK x, u : Balanced(l, ChangeDurationBalanced(score.lines[l], x[1], x[2], u))
    BY <2>1
  <2>3. \A w \in ChangeDurationBalanced(score.lines[l], x[1], x[2], u) :
          \E new : w = Writes(score.lines[l], new)
    BY ChangeWrites
  <2>4. QED
    BY <2>2, <2>3, BalancedTracks
<1>3. CASE RemoveEvent
  <2>1. PICK l \in Voices(score) : \E x \in Spots(score.lines[l]) :
                  Balanced(l, RemoveBalanced(score.lines[l], x[1], x[2]))
    BY <1>3 DEF RemoveEvent
  <2>2. PICK x : Balanced(l, RemoveBalanced(score.lines[l], x[1], x[2]))
    BY <2>1
  <2>3. \A w \in RemoveBalanced(score.lines[l], x[1], x[2]) :
          \E new : w = Writes(score.lines[l], new)
    BY RemoveWrites
  <2>4. QED
    BY <2>2, <2>3, BalancedTracks
<1>4. QED
  BY <1>1, <1>2, <1>3

LEMMA BecomesTracks ==
  ASSUME NEW next, NEW kind, Becomes(next, kind), \E to : Tracked(score, next, to)
  PROVE  StepTracks
BY DEF Becomes, StepTracks

LEMMA MeasuresTrack ==
  ASSUME ScoreInv, TimeInv, AddMeasure \/ Duplicate \/ Delete \/ Move
  PROVE  StepTracks
<1> DEFINE m == Count(score)
           o == score.lines["p"]
<1>1. /\ m \in Nat /\ edits \in Nat /\ Whole(score, m, edits)
      /\ \A r \in Stretches : r[1] \in 1 .. m /\ r[2] \in r[1] .. m
  BY Standings
<1>2. More
  BY DEF AddMeasure, Duplicate, Delete, Move, Becomes
<1>3. Distinct(o) /\ Older(o, Gen)
  BY <1>2, ScoreTurnable DEF Turnable
<1>4. CASE AddMeasure
  <2> DEFINE new == [l \in {"p"} |-> <<RestBar(<<Gen, 1>>)>>]
             next == Inserted(score, new, m)
  <2>1. Becomes(next, "bars")
    BY <1>4 DEF AddMeasure
  <2>2. Offered(new)
    BY RestOffered
  <2> HIDE DEF new
  <2>3. \E to : Tracked(score, next, to)
    BY <1>1, <2>2, AddedTracked
  <2> HIDE DEF next
  <2>4. QED
    BY <2>1, <2>3, BecomesTracks
<1> HIDE DEF m
<1>5. CASE Duplicate
  <2>1. PICK r \in Stretches, after \in 0 .. m :
          Becomes(DuplicateRange(score, r[1], r[2], after, Gen), "bars")
    BY <1>5 DEF Duplicate, m
  <2> DEFINE next == DuplicateRange(score, r[1], r[2], after, Gen)
  <2>2. \E to : Tracked(score, next, to)
    BY <1>1, DuplicateTracked
  <2> HIDE DEF next
  <2>3. QED
    BY <2>1, <2>2, BecomesTracks DEF next
<1>6. CASE Delete
  <2>1. PICK r \in Stretches : Becomes(DeleteRange(score, r[1], r[2]), "bars")
    BY <1>6 DEF Delete
  <2> DEFINE next == DeleteRange(score, r[1], r[2])
  <2>2. \E to : Tracked(score, next, to)
    BY <1>1, <1>3, DeleteTracked
  <2> HIDE DEF next
  <2>3. QED
    BY <2>1, <2>2, BecomesTracks DEF next
<1>7. CASE Move
  <2>1. PICK r \in Stretches, after \in 0 .. m :
          after \notin (r[1] - 1)..r[2] /\ Becomes(MoveRange(score, r[1], r[2], after), "move")
    BY <1>7 DEF Move, m
  <2> DEFINE next == MoveRange(score, r[1], r[2], after)
  <2>2. \E to : Homes(o, next.lines["p"], to) /\ Tracks(score, next, to)
    BY <1>1, <2>1, MoveFollowed
  <2>3. score' = next /\ last' = "move"
    BY <2>1 DEF Becomes
  <2> HIDE DEF next
  <2>4. QED
    BY <2>2, <2>3 DEF StepTracks
<1>8. QED
  BY <1>4, <1>5, <1>6, <1>7

LEMMA PastesTrack ==
  ASSUME ScoreInv, TimeInv, PasteAfter \/ PasteOver
  PROVE  StepTracks
<1> DEFINE m == Count(score)
           o == score.lines["p"]
           new == Cloned(clip.new, Gen)
           spans == SpansCarried(clip.new, clip.spans, Gen)
<1>1. /\ m \in Nat /\ Whole(score, m, edits)
      /\ \A r \in Stretches : r[1] \in 1 .. m /\ r[2] \in r[1] .. m
  BY Standings
<1>2. More
  BY DEF PasteAfter, PasteOver, Becomes
<1>3. Distinct(o) /\ Older(o, Gen)
  BY <1>2, ScoreTurnable DEF Turnable
<1>4. NewBars(new, Gen, Brings)
  BY HadFits, ClonedNew DEF ScoreInv, ClipStands
<1> HIDE DEF m, new, spans
<1>5. CASE PasteAfter
  <2>1. PICK after \in Bars(score) :
          Becomes(InsertMeasuresAfter(score, new, spans, after), "paste")
    BY <1>5 DEF PasteAfter, new, spans
  <2>2. after \in 0 .. m /\ Offered(new)
    BY <1>1, <1>4, <2>1 DEF Bars, m, NewBars
  <2> DEFINE next == InsertMeasuresAfter(score, new, spans, after)
  <2>3. \E to : Tracked(score, next, to)
    BY <1>1, <2>2, InsertTracked
  <2> HIDE DEF next
  <2>4. QED
    BY <2>1, <2>3, BecomesTracks DEF next
<1>6. CASE PasteOver
  <2>1. PICK r \in Stretches : Becomes(RegionReplace(score, r[1], r[2], new, spans), "paste")
    BY <1>6 DEF PasteOver, new, spans
  <2> DEFINE next == RegionReplace(score, r[1], r[2], new, spans)
  <2>2. \E to : Tracked(score, next, to)
    BY <1>1, <1>3, <1>4, RegionTracked
  <2> HIDE DEF next
  <2>3. QED
    BY <2>1, <2>2, BecomesTracks DEF next
<1>7. QED
  BY <1>5, <1>6

LEMMA AnsweredTracks ==
  ASSUME NEW next, Answered(next), NEW n, NEW h, Whole(next, n, h), \E to : Tracked(score, next, to)
  PROVE  StepTracks
<1>1. PICK shown \in BOOLEAN : Becomes(IF shown THEN Backfilled(next) ELSE next, "model")
  BY DEF Answered
<1>2. PICK to : Tracked(score, next, to)
  OBVIOUS
<1> DEFINE filled == Backfilled(next)
<1>3. Tracked(score, filled, to)
  BY <1>2, BackfilledTracked
<1>4. score' = next \/ score' = filled
  BY <1>1 DEF Becomes
<1> HIDE DEF filled
<1>5. QED
  BY <1>2, <1>3, <1>4 DEF StepTracks

LEMMA AnswersTrack ==
  ASSUME ScoreInv, TimeInv, ExtendComposition \/ InsertMeasures \/ ReplaceRegion
  PROVE  StepTracks
<1> DEFINE m == Count(score)
           o == score.lines["p"]
<1>1. /\ m \in Nat /\ edits \in Nat /\ Laid(score, m, m, edits) /\ Whole(score, m, edits)
      /\ \A r \in Stretches : r[1] \in 1 .. m /\ r[2] \in r[1] .. m
  BY Standings
<1>2. More /\ edits < MaxEdits
  BY DEF ExtendComposition, InsertMeasures, ReplaceRegion, Answered, More
<1>3. Distinct(o) /\ Older(o, Gen)
  BY <1>2, ScoreTurnable DEF Turnable
<1> HIDE DEF m
<1>4. CASE ExtendComposition
  <2>1. PICK content \in Contents : Answered(AppendMeasures(score, Answer(content)))
    BY <1>4 DEF ExtendComposition
  <2> DEFINE new == Answer(content)
             next == AppendMeasures(score, new)
  <2>2. Offered(new)
    BY AnswerOffered
  <2> HIDE DEF new
  <2>3. PICK n : Whole(next, n, edits)
    BY <1>1, <2>2, AppendedWhole
  <2>4. \E to : Tracked(score, next, to)
    BY <1>1, <2>2, AppendTracked
  <2> HIDE DEF next
  <2>5. QED
    BY <2>1, <2>3, <2>4, AnsweredTracks DEF next, new
<1>5. CASE InsertMeasures
  <2>1. PICK content \in Contents, after \in 0 .. m :
          Answered(InsertMeasuresAfter(score, Answer(content), {}, after))
    BY <1>5 DEF InsertMeasures, m
  <2> DEFINE new == Answer(content)
             next == InsertMeasuresAfter(score, new, {}, after)
  <2>2. Offered(new)
    BY AnswerOffered
  <2> HIDE DEF new
  <2>3. PICK n : Whole(next, n, edits + 1)
    BY <1>1, <1>2, <2>2, NoneMinted, InsertLaid
  <2>4. \E to : Tracked(score, next, to)
    BY <1>1, <2>2, InsertTracked
  <2> HIDE DEF next
  <2>5. QED
    BY <2>1, <2>3, <2>4, AnsweredTracks DEF next, new
<1>6. CASE ReplaceRegion
  <2>1. PICK content \in Contents, r \in Stretches :
          Answered(RegionReplace(score, r[1], r[2], Answer(content), {}))
    BY <1>6 DEF ReplaceRegion
  <2> DEFINE new == Answer(content)
             next == RegionReplace(score, r[1], r[2], new, {})
  <2>2. NewBars(new, Gen, "any") /\ Offered(new)
    BY AnswerNew DEF NewBars
  <2> HIDE DEF new
  <2>3. PICK n : Whole(next, n, edits + 1)
    BY <1>1, <1>2, <2>2, NoneMinted, RegionLaid
  <2>4. \E to : Tracked(score, next, to)
    BY <1>1, <1>3, <2>2, RegionTracked
  <2> HIDE DEF next
  <2>5. QED
    BY <2>1, <2>3, <2>4, AnsweredTracks DEF next, new
<1>7. QED
  BY <1>4, <1>5, <1>6

LEMMA VoicesTrack ==
  ASSUME ScoreInv, AddVoice \/ RemoveVoice \/ AddStaff \/ RemoveStaff
  PROVE  StepTracks
<1>1. PICK l \in {"v", "s"} : AddLine(l) \/ RemoveLine(l)
  BY DEF AddVoice, RemoveVoice, AddStaff, RemoveStaff
<1>2. l # "p"
  BY <1>1
<1>3. Whole(score, Count(score), edits) /\ HasFields(score) /\ "p" \in DOMAIN score.lines
  BY Standings DEF Laid, Matched, IsBundle
<1>4. ASSUME NEW lines, Becomes([score EXCEPT !.lines = lines], "voice"),
             lines["p"] = score.lines["p"]
      PROVE  StepTracks
  <2>1. score' = [score EXCEPT !.lines = lines]
    BY <1>4 DEF Becomes
  <2>2. SameMarks(score, score') /\ score'.lines = lines
    BY <1>3, <2>1, OtherLines DEF SameEntries, SameMarks
  <2>3. SameBars(score.lines["p"], score'.lines["p"])
    BY <1>4, <2>2 DEF SameBars
  <2>4. QED
    BY <1>3, <2>2, <2>3, StillTracked DEF StepTracks
<1>5. CASE AddLine(l)
  <2> DEFINE lines == [k \in Voices(score) \union {l} |->
                         IF k = l THEN RestLine ELSE score.lines[k]]
  <2>1. Becomes([score EXCEPT !.lines = lines], "voice")
    BY <1>5 DEF AddLine
  <2>2. lines["p"] = score.lines["p"]
    BY <1>2, <1>3 DEF Voices
  <2> HIDE DEF lines
  <2>3. QED
    BY <1>4, <2>1, <2>2
<1>6. CASE RemoveLine(l)
  <2> DEFINE lines == [k \in Voices(score) \ {l} |-> score.lines[k]]
  <2>1. Becomes([score EXCEPT !.lines = lines], "voice")
    BY <1>6 DEF RemoveLine
  <2>2. lines["p"] = score.lines["p"]
    BY <1>2, <1>3 DEF Voices
  <2> HIDE DEF lines
  <2>3. QED
    BY <1>4, <2>1, <2>2
<1>7. QED
  BY <1>1, <1>5, <1>6

LEMMA CopyTracks ==
  ASSUME ScoreInv, Copy
  PROVE  StepTracks
<1>1. score' = score /\ Whole(score, Count(score), edits)
  BY Standings DEF Copy
<1>2. SameMarks(score, score') /\ SameBars(score.lines["p"], score'.lines["p"])
  BY <1>1 DEF SameMarks, SameBars
<1>3. QED
  BY <1>1, <1>2, StillTracked DEF StepTracks

LEMMA EntriesNamed ==
  ASSUME \/ AddTechnique \/ RemoveTechnique
         \/ AddMarker \/ RemoveMarker \/ UpdateMarker
         \/ AddAnnotation \/ RemoveAnnotation \/ UpdateAnnotation
         \/ AddVolta \/ RemoveVolta \/ UpdateVolta
         \/ AddJump \/ RemoveJump \/ UpdateJump
         \/ AddSpan \/ RemoveSpan \/ UpdateSpan
  PROVE  last' = "entry"
<1>1. ASSUME NEW field
      PROVE  /\ \A e : Put(field, e) => last' = "entry"
             /\ \A kinds : Drop(field, kinds) => last' = "entry"
             /\ \A x, y : Change(field, x, y) => last' = "entry"
  BY DEF Put, Drop, Change, Becomes
<1>2. CASE AddTechnique \/ RemoveTechnique \/ AddMarker \/ RemoveMarker \/ UpdateMarker
  BY <1>1, <1>2 DEF AddTechnique, RemoveTechnique, AddMarker, RemoveMarker, UpdateMarker
<1>3. CASE AddAnnotation \/ RemoveAnnotation \/ UpdateAnnotation
  BY <1>1, <1>3 DEF AddAnnotation, RemoveAnnotation, UpdateAnnotation, AddRange, UpdateRange
<1>4. CASE AddVolta \/ RemoveVolta \/ UpdateVolta
  BY <1>1, <1>4 DEF AddVolta, RemoveVolta, UpdateVolta, AddRange, UpdateRange
<1>5. CASE AddJump \/ UpdateJump
  BY <1>1, <1>5 DEF AddJump, UpdateJump
<1>6. CASE RemoveJump \/ RemoveSpan
  BY <1>6 DEF RemoveJump, RemoveSpan, Becomes
<1>7. CASE AddSpan \/ UpdateSpan
  BY <1>1, <1>7 DEF AddSpan, UpdateSpan
<1>8. QED
  BY <1>2, <1>3, <1>4, <1>5, <1>6, <1>7

LEMMA NextTracks ==
  ASSUME ScoreInv, TimeInv, Next
  PROVE  StepTracks
<1>1. CASE MoveEvent \/ ChangeDuration \/ RemoveEvent
  BY <1>1, EventsTrack
<1>2. CASE AddMeasure \/ Duplicate \/ Delete \/ Move
  BY <1>2, MeasuresTrack
<1>3. CASE Copy
  BY <1>3, CopyTracks
<1>4. CASE PasteAfter \/ PasteOver
  BY <1>4, PastesTrack
<1>5. CASE ExtendComposition \/ InsertMeasures \/ ReplaceRegion
  BY <1>5, AnswersTrack
<1>6. CASE AddVoice \/ RemoveVoice \/ AddStaff \/ RemoveStaff
  BY <1>6, VoicesTrack
<1>7. CASE \/ AddTechnique \/ RemoveTechnique
           \/ AddMarker \/ RemoveMarker \/ UpdateMarker
           \/ AddAnnotation \/ RemoveAnnotation \/ UpdateAnnotation
           \/ AddVolta \/ RemoveVolta \/ UpdateVolta
           \/ AddJump \/ RemoveJump \/ UpdateJump
           \/ AddSpan \/ RemoveSpan \/ UpdateSpan
  BY <1>7, EntriesNamed DEF StepTracks
<1>8. QED
  BY <1>1, <1>2, <1>3, <1>4, <1>5, <1>6, <1>7 DEF Next

-----------------------------------------------------------------------------
(* Entries follow their measures *)

LEMMA Where ==
  ASSUME ScoreInv, ScoreInv', NEW to, Homes(score.lines["p"], score'.lines["p"], to),
         NEW m \in Bars(score), Stays(m)
  PROVE  to[m] # 0 /\ to[m] \in Bars(score') /\ UidOf(score', to[m]) = UidOf(score, m)
<1> DEFINE q == score.lines["p"]
           w == score'.lines["p"]
<1>1. Bars(score) = DOMAIN q
  BY BarsAre
<1>2. Bars(score') = DOMAIN w
  <2>1. Whole(score', Count(score'), edits')
    BY DEF ScoreInv
  <2>2. "p" \in DOMAIN score'.lines /\ IsVoice(w)
    BY <2>1, VoicesAre
  <2>3. QED
    BY <2>2, VoiceFacts DEF Bars, Count
<1>3. \E k \in DOMAIN w : w[k].uid = q[m].uid
  BY <1>2 DEF Stays, Uids, UidOf
<1>4. Sits(q, w, to, m)
  BY <1>1, <1>3 DEF Homes, Gone
<1>5. to[m] \in Bars(score') /\ UidOf(score', to[m]) = UidOf(score, m)
  BY <1>2, <1>4 DEF Sits, UidOf
<1>6. \A k \in Bars(score') : k # 0
  BY DEF Bars
<1>7. QED
  BY <1>5, <1>6

\* What stands at the measures that stay is there after the step.
Following ==
  /\ \A p \in score.points : Stays(p.at) =>
       \E q \in score'.points : q.id = p.id /\ SameBar(p.at, q.at)
  /\ \A r \in score.ranges : Stays(r.from) /\ Stays(r.to) /\ last' # "move" =>
       \E q \in score'.ranges : q.id = r.id /\ SameBar(r.from, q.from) /\ SameBar(r.to, q.to)
  /\ \A r \in score.ranges, q \in score'.ranges : q.id = r.id =>
       /\ Stays(r.from) => SameBar(r.from, q.from)
       /\ Stays(r.to) => SameBar(r.to, q.to)
  /\ \A j \in score.jumps, k \in score'.jumps : k.id = j.id /\ Stays(j.at) => SameBar(j.at, k.at)
  /\ \A j \in score.jumps :
       /\ Stays(j.at) /\ j.tocoda = 0 /\ last' # "move"
       /\ \A p \in score.points : p.id \in {j.segno, j.coda} => Stays(p.at)
       => \E k \in score'.jumps : k.id = j.id

LEMMA EntriesFollow ==
  ASSUME ScoreInv, ScoreInv', NEW to, Homes(score.lines["p"], score'.lines["p"], to),
         Tracks(score, score', to), last' = "move" \/ TracksAll(score, score', to)
  PROVE  Following
<1>1. \A m \in Bars(score) : Stays(m) =>
        to[m] # 0 /\ to[m] \in Bars(score') /\ SameBar(m, to[m])
  BY Where DEF SameBar
<1>2. Placed(score, Count(score)) /\ Bars(score) = 1 .. Count(score)
  BY Standings DEF Laid, Standing, Bars
<1>3. \A p \in score.points \union score.jumps : p.at \in Bars(score)
  BY <1>2 DEF Placed
<1>4. \A r \in score.ranges : r.from \in Bars(score) /\ r.to \in Bars(score)
  <2>1. ASSUME NEW r \in score.ranges
        PROVE  r.from \in 1 .. Count(score) /\ r.to \in 1 .. Count(score)
    <3>1. r.from \in 1 .. Count(score) /\ r.to \in r.from .. Count(score)
      BY <1>2 DEF Placed
    <3>2. QED
      BY <3>1, Standings
  <2>2. QED
    BY <1>2, <2>1
<1>5. Unique(score.ranges) /\ Unique(score.jumps)
  BY <1>2 DEF Placed
<1>6. ASSUME NEW p \in score.points, Stays(p.at)
      PROVE  \E q \in score'.points : q.id = p.id /\ SameBar(p.at, q.at)
  <2>1. to[p.at] # 0 /\ SameBar(p.at, to[p.at])
    BY <1>1, <1>3, <1>6
  <2>2. PICK q \in score'.points : q.id = p.id /\ q.at = to[p.at]
    BY <2>1 DEF Tracks
  <2>3. QED
    BY <2>1, <2>2
<1>7. ASSUME NEW r \in score.ranges, Stays(r.from), Stays(r.to), last' # "move"
      PROVE  \E q \in score'.ranges : q.id = r.id /\ SameBar(r.from, q.from) /\ SameBar(r.to, q.to)
  <2>1. /\ to[r.from] # 0 /\ SameBar(r.from, to[r.from])
        /\ to[r.to] # 0 /\ SameBar(r.to, to[r.to])
    BY <1>1, <1>4, <1>7
  <2>2. PICK q \in score'.ranges : q.id = r.id /\ q.from = to[r.from] /\ q.to = to[r.to]
    BY <1>7, <2>1 DEF TracksAll
  <2>3. QED
    BY <2>1, <2>2
<1>8. ASSUME NEW r \in score.ranges, NEW q \in score'.ranges, q.id = r.id
      PROVE  /\ Stays(r.from) => SameBar(r.from, q.from)
             /\ Stays(r.to) => SameBar(r.to, q.to)
  <2>1. PICK x \in score.ranges : q.id = x.id /\ q.from = to[x.from] /\ q.to = to[x.to]
    BY DEF Tracks
  <2>2. x = r
    BY <1>5, <1>8, <2>1 DEF Unique
  <2>3. QED
    BY <1>1, <1>4, <2>1, <2>2
<1>9. ASSUME NEW j \in score.jumps, NEW k \in score'.jumps, k.id = j.id, Stays(j.at)
      PROVE  SameBar(j.at, k.at)
  <2>1. PICK x \in score.jumps : k.id = x.id /\ k.at = to[x.at]
    BY DEF Tracks
  <2>2. x = j
    BY <1>5, <1>9, <2>1 DEF Unique
  <2>3. QED
    BY <1>1, <1>3, <1>9, <2>1, <2>2
<1>10. ASSUME NEW j \in score.jumps, Stays(j.at), j.tocoda = 0, last' # "move",
              \A p \in score.points : p.id \in {j.segno, j.coda} => Stays(p.at)
       PROVE  \E k \in score'.jumps : k.id = j.id
  <2>1. to[j.at] # 0
    BY <1>1, <1>3, <1>10
  <2>2. Reaches(score, to, j)
    BY <1>1, <1>3, <1>10 DEF Reaches
  <2>3. QED
    BY <1>10, <2>1, <2>2 DEF TracksAll
<1>11. QED
  BY <1>6, <1>7, <1>8, <1>9, <1>10 DEF Following

\* Whatever measures went, came or moved, what stood at a measure that stays is
\* at that measure still; a volta or a note with both its ends there is cut only
\* by a move, and a jump whose measure and whose segno and coda stay is there
\* (remapScoreReferences and its sweep, dragMeasureRange).
THEOREM ScoreEntriesFollowTheirBars == Spec => EntriesFollowTheirBars
<1>1. ScoreInv /\ TimeInv /\ ScoreInv' /\ [Next]_vars =>
        [last' # "entry" =>
           /\ \A p \in score.points : Stays(p.at) =>
                \E q \in score'.points : q.id = p.id /\ SameBar(p.at, q.at)
           /\ \A r \in score.ranges : Stays(r.from) /\ Stays(r.to) /\ last' # "move" =>
                \E q \in score'.ranges :
                  q.id = r.id /\ SameBar(r.from, q.from) /\ SameBar(r.to, q.to)
           /\ \A r \in score.ranges, q \in score'.ranges : q.id = r.id =>
                /\ Stays(r.from) => SameBar(r.from, q.from)
                /\ Stays(r.to) => SameBar(r.to, q.to)
           /\ \A j \in score.jumps, k \in score'.jumps :
                k.id = j.id /\ Stays(j.at) => SameBar(j.at, k.at)
           /\ \A j \in score.jumps :
                /\ Stays(j.at) /\ j.tocoda = 0 /\ last' # "move"
                /\ \A p \in score.points : p.id \in {j.segno, j.coda} => Stays(p.at)
                => \E k \in score'.jumps : k.id = j.id]_vars
  <2>1. ASSUME ScoreInv, TimeInv, ScoreInv', Next, last' # "entry"
        PROVE  Following
    <3>1. StepTracks
      BY <2>1, NextTracks
    <3>2. PICK to : /\ Homes(score.lines["p"], score'.lines["p"], to) /\ Tracks(score, score', to)
                    /\ last' = "move" \/ TracksAll(score, score', to)
      BY <2>1, <3>1 DEF StepTracks, Tracked
    <3>3. QED
      BY <2>1, <3>2, EntriesFollow
  <2>2. QED
    BY <2>1 DEF Following
<1>2. QED
  BY <1>1, ScoreTime, PTL DEF Spec, EntriesFollowTheirBars

-----------------------------------------------------------------------------
(* Where an event is *)

\* A score that can be looked through, with every id in the voice it is of.
Readable(s) ==
  /\ \A l \in DOMAIN s.lines : IsVoice(s.lines[l]) /\ Scored(s.lines[l])
  /\ OfTheirVoices(s.lines)

LEMMA PlacesAre ==
  ASSUME NEW s, NEW id
  PROVE  /\ \A p \in Places(s, id) :
              /\ p = <<p[1], p[2], p[3]>>
              /\ p[1] \in DOMAIN s.lines /\ p[2] \in DOMAIN s.lines[p[1]]
              /\ p[3] \in DOMAIN s.lines[p[1]][p[2]].events
              /\ s.lines[p[1]][p[2]].events[p[3]].id = id
         /\ \A l \in DOMAIN s.lines : \A m \in DOMAIN s.lines[l] :
              \A i \in DOMAIN s.lines[l][m].events :
                s.lines[l][m].events[i].id = id => <<l, m, i>> \in Places(s, id)
<1> DEFINE in(l, m) == {i \in DOMAIN s.lines[l][m].events : s.lines[l][m].events[i].id = id}
           of(l) == UNION {{<<l, m, i>> : i \in in(l, m)} : m \in DOMAIN s.lines[l]}
<1>1. Places(s, id) = UNION {of(l) : l \in DOMAIN s.lines}
  BY DEF Places, Voices
<1>2. ASSUME NEW p \in Places(s, id)
      PROVE  /\ p = <<p[1], p[2], p[3]>>
             /\ p[1] \in DOMAIN s.lines /\ p[2] \in DOMAIN s.lines[p[1]]
             /\ p[3] \in DOMAIN s.lines[p[1]][p[2]].events
             /\ s.lines[p[1]][p[2]].events[p[3]].id = id
  <2>1. PICK l \in DOMAIN s.lines : p \in of(l)
    BY <1>1
  <2>2. PICK m \in DOMAIN s.lines[l] : p \in {<<l, m, i>> : i \in in(l, m)}
    BY <2>1
  <2>3. PICK i \in in(l, m) : p = <<l, m, i>>
    BY <2>2
  <2>4. i \in DOMAIN s.lines[l][m].events /\ s.lines[l][m].events[i].id = id
    BY <2>3
  <2>5. p[1] = l /\ p[2] = m /\ p[3] = i
    BY <2>3
  <2>6. QED
    BY <2>3, <2>4, <2>5
<1>3. ASSUME NEW l \in DOMAIN s.lines, NEW m \in DOMAIN s.lines[l],
             NEW i \in DOMAIN s.lines[l][m].events, s.lines[l][m].events[i].id = id
      PROVE  <<l, m, i>> \in Places(s, id)
  <2>1. i \in in(l, m)
    BY <1>3
  <2> HIDE DEF in
  <2>2. <<l, m, i>> \in of(l)
    BY <2>1
  <2> HIDE DEF of
  <2>3. QED
    BY <1>1, <2>2
<1>4. QED
  BY <1>2, <1>3

\* Places of one voice have a first one and a last one.
Ordered(T, l, n, h) ==
  /\ T # {} /\ n \in Nat /\ \A m \in 1 .. n : h[m] \in Nat
  /\ \A x \in T : x[1] = l /\ x[2] \in 1 .. n /\ x[3] \in 1 .. h[x[2]]

LEMMA OneAfter ==
  ASSUME NEW T, NEW l, NEW n, NEW h, Ordered(T, l, n, h)
  PROVE  \E x \in T : \A y \in T : Precedes(x, y)
<1> DEFINE S == {x[2] : x \in T}
<1>1. S # {} /\ S \subseteq Nat
  BY DEF Ordered
<1>2. PICK m \in S : \A k \in S : m <= k
  BY <1>1, Smallest
<1> DEFINE U == {x[3] : x \in {z \in T : z[2] = m}}
<1>3. U # {} /\ U \subseteq Nat
  <2>1. \A x \in T : x[2] = m => x[3] \in Nat
    BY DEF Ordered
  <2>2. QED
    BY <1>2, <2>1
<1>4. PICK i \in U : \A k \in U : i <= k
  BY <1>3, Smallest
<1>5. PICK x \in T : x[2] = m /\ x[3] = i
  BY <1>4
<1>6. ASSUME NEW y \in T
      PROVE  Precedes(x, y)
  <2>1. x[2] \in Nat /\ y[2] \in Nat /\ x[2] <= y[2] /\ x[1] = y[1]
    BY <1>1, <1>2, <1>5 DEF Ordered
  <2>2. y[2] = x[2] => x[3] <= y[3]
    BY <1>4, <1>5
  <2>3. NotAfter(x, y)
    BY <2>1, <2>2 DEF NotAfter
  <2>4. QED
    BY <2>1, <2>3 DEF Precedes
<1>7. QED
  BY <1>6

LEMMA OneBefore ==
  ASSUME NEW T, NEW l, NEW n, NEW h, Ordered(T, l, n, h)
  PROVE  \E x \in T : \A y \in T : Precedes(y, x)
<1> DEFINE S == {n - x[2] : x \in T}
<1>1. S # {} /\ S \subseteq Nat
  <2>1. \A x \in T : n - x[2] \in Nat
    BY DEF Ordered
  <2>2. QED
    BY <2>1 DEF Ordered
<1>2. PICK d \in S : \A k \in S : d <= k
  BY <1>1, Smallest
<1>3. PICK z \in T : d = n - z[2]
  BY <1>2
<1> DEFINE m == z[2]
           U == {h[m] - x[3] : x \in {y \in T : y[2] = m}}
<1>4. U # {} /\ U \subseteq Nat
  <2>1. \A x \in T : x[2] = m => h[m] - x[3] \in Nat
    BY DEF Ordered
  <2>2. z \in {y \in T : y[2] = m}
    OBVIOUS
  <2> HIDE DEF m
  <2>3. QED
    BY <2>1, <2>2
<1>5. PICK e \in U : \A k \in U : e <= k
  BY <1>4, Smallest
<1>6. PICK x \in T : x[2] = m /\ e = h[m] - x[3]
  BY <1>5
<1>7. ASSUME NEW y \in T
      PROVE  Precedes(y, x)
  <2>1. x[2] \in Nat /\ y[2] \in Nat /\ x[1] = y[1] /\ n \in Nat
    BY DEF Ordered
  <2>2. n - x[2] <= n - y[2]
    BY <1>2, <1>3, <1>6
  <2>3. y[2] <= x[2]
    BY <2>1, <2>2
  <2>4. ASSUME y[2] = x[2]
        PROVE  y[3] <= x[3]
    <3>1. h[m] - x[3] <= h[m] - y[3]
      BY <1>5, <1>6, <2>4
    <3>2. h[m] \in Nat /\ x[3] \in Nat /\ y[3] \in Nat
      BY <1>6, <2>4 DEF Ordered
    <3>3. QED
      BY <3>1, <3>2
  <2>5. NotAfter(y, x)
    BY <2>1, <2>3, <2>4 DEF NotAfter
  <2>6. QED
    BY <2>1, <2>5 DEF Precedes
<1>8. QED
  BY <1>7

\* An id is found in its own voice only, so the place looked up is one of them.
LEMMA Found ==
  ASSUME NEW s, Readable(s), NEW id, id # NoId, Places(s, id) # {}
  PROVE  /\ FirstPlace(s, id) \in Places(s, id) /\ LastPlace(s, id) \in Places(s, id)
         /\ \A p \in Places(s, id) : p[1] = id[2]
<1> DEFINE T == Places(s, id)
           l == id[2]
           q == s.lines[l]
           n == Len(q)
           h == [m \in 1 .. n |-> Len(q[m].events)]
<1>1. ASSUME NEW p \in T
      PROVE  p[1] = l
  <2>1. /\ p[1] \in DOMAIN s.lines /\ p[2] \in DOMAIN s.lines[p[1]]
        /\ p[3] \in DOMAIN s.lines[p[1]][p[2]].events
        /\ s.lines[p[1]][p[2]].events[p[3]].id = id
    BY PlacesAre
  <2>2. QED
    BY <2>1 DEF Readable, OfTheirVoices
<1>2. l \in DOMAIN s.lines
  BY <1>1, PlacesAre
<1>3. n \in Nat /\ DOMAIN q = 1 .. n
  BY <1>2, VoiceFacts DEF Readable
<1>4. \A m \in 1 .. n : Len(q[m].events) \in Nat /\ DOMAIN q[m].events = 1 .. Len(q[m].events)
  BY <1>2, <1>3, MusicIs DEF Readable, Scored
<1>5. ASSUME NEW p \in T
      PROVE  p[2] \in 1 .. n /\ p[3] \in 1 .. h[p[2]]
  <2>1. p[2] \in 1 .. n /\ p[3] \in DOMAIN q[p[2]].events
    BY <1>1, <1>3, PlacesAre
  <2>2. QED
    BY <1>4, <2>1
<1>6. Ordered(T, l, n, h)
  BY <1>1, <1>3, <1>4, <1>5 DEF Ordered
<1> HIDE DEF T, l, n, h
<1>7. \E x \in T : \A y \in T : Precedes(x, y)
  BY <1>6, OneAfter
<1>8. \E x \in T : \A y \in T : Precedes(y, x)
  BY <1>6, OneBefore
<1>9. FirstPlace(s, id) \in Places(s, id)
  BY <1>7 DEF FirstPlace, T
<1>10. LastPlace(s, id) \in Places(s, id)
  BY <1>8 DEF LastPlace, T
<1>11. QED
  BY <1>1, <1>9, <1>10 DEF T, l

\* A span over events of its voice stands when both are there.
SpanOver(x) == x.a # NoId /\ x.a[2] = x.line /\ x.b # NoId /\ x.b[2] = x.line

LEMMA AnchoredIs ==
  ASSUME NEW s, Readable(s), NEW x, SpanOver(x)
  PROVE  Anchored(s, x) <=> Places(s, x.a) # {} /\ Places(s, x.b) # {}
<1>1. Places(s, x.a) # {} => FirstPlace(s, x.a)[1] = x.line
  BY Found DEF SpanOver
<1>2. Places(s, x.b) # {} => FirstPlace(s, x.b)[1] = x.line
  BY Found DEF SpanOver
<1>3. QED
  BY <1>1, <1>2 DEF Anchored

-----------------------------------------------------------------------------
(* Measures put between others, in every voice *)

\* lines are the voices of s with the measures of new in the place of those
\* behind a up to b.
Inlaid(s, a, new, b, lines) ==
  /\ DOMAIN lines = DOMAIN s.lines
  /\ \A l \in DOMAIN s.lines : \E r : /\ IsSplice(s.lines[l], a, r, b, lines[l])
                                      /\ Kept(MeasuresFor(new, l), r)

LEMMA InsertedInlaid ==
  ASSUME NEW s, NEW m, NEW n, NEW h, Laid(s, m, n, h), NEW new, Offered(new),
         NEW after \in Nat, after <= m, NEW next, next = Inserted(s, new, after)
  PROVE  Inlaid(s, after, new, after, next.lines)
<1> DEFINE lines == s.lines
           r == [l \in DOMAIN lines |-> MeasuresFor(new, l)]
           made == Splicings(lines, after, r, after)
<1>1. /\ Matched(lines) /\ m = Len(lines["p"]) /\ HasFields(s)
      /\ \A l \in DOMAIN lines : IsVoice(lines[l]) /\ Len(lines[l]) = m
  BY DEF Laid, Matched, IsBundle
<1>2. next = [s EXCEPT !.lines = made]
  BY DEF Inserted, EachVoice, Voices, Splicings, Splice
<1>3. \A l \in DOMAIN lines : IsVoice(r[l]) /\ r[l] = MeasuresFor(new, l)
  BY Given
<1> HIDE DEF r
<1>4. next.lines = made
  BY <1>1, <1>2, OtherLines
<1>5. ASSUME NEW l \in DOMAIN lines
      PROVE  IsSplice(lines[l], after, r[l], after, made[l]) /\ Kept(MeasuresFor(new, l), r[l])
  <2> DEFINE q == lines[l]
             p == r[l]
             w == made[l]
  <2>1. w = Splice(q, after, p, after) /\ IsVoice(q) /\ IsVoice(p) /\ after <= Len(q)
    BY <1>1, <1>3 DEF Splicings
  <2> HIDE DEF q, p, w
  <2>2. IsSplice(q, after, p, after, w)
    BY <2>1, Splicing
  <2>3. Kept(p, p)
    BY <2>1, KeptSelf
  <2>4. QED
    BY <1>3, <2>2, <2>3 DEF q, p, w
<1>6. DOMAIN made = DOMAIN lines
  BY DEF Splicings
<1> HIDE DEF made
<1>7. QED
  BY <1>4, <1>5, <1>6 DEF Inlaid

LEMMA ReplacedInlaid ==
  ASSUME NEW s, NEW m, NEW n, NEW h, Laid(s, m, n, h), NEW new, Offered(new),
         NEW a \in 1 .. m, NEW b \in a .. m, NEW next, next = Replaced(s, a, b, new)
  PROVE  Inlaid(s, a - 1, new, b, next.lines)
<1> DEFINE lines == s.lines
           tag == b = Count(s) /\ EndsPartial(s)
           given(l) == MeasuresFor(new, l)
           r == [l \in DOMAIN lines |-> TagLast(given(l), tag)]
           c == a - 1
           made == Splicings(lines, c, r, b)
<1>1. /\ Matched(lines) /\ m = Len(lines["p"]) /\ m \in Nat /\ HasFields(s)
      /\ \A l \in DOMAIN lines : IsVoice(lines[l]) /\ Len(lines[l]) = m
  BY DEF Laid, Matched, IsBundle
<1>2. next = [s EXCEPT !.lines = made]
  BY DEF Replaced, EachVoice, Voices, Splicings, Splice
<1>3. \A l \in DOMAIN lines : Kept(given(l), r[l])
  BY Given, KeptTagged
<1>4. next.lines = made
  BY <1>1, <1>2, OtherLines
<1>5. c \in Nat /\ b \in Nat /\ c <= b /\ b <= m
  BY <1>1
<1> HIDE DEF r, c
<1>6. ASSUME NEW l \in DOMAIN lines
      PROVE  IsSplice(lines[l], c, r[l], b, made[l])
  <2> DEFINE q == lines[l]
             p == r[l]
             w == made[l]
  <2>1. w = Splice(q, c, p, b) /\ IsVoice(q) /\ IsVoice(p) /\ b <= Len(q)
    BY <1>1, <1>3, <1>5 DEF Splicings, Kept
  <2> HIDE DEF q, p, w
  <2>2. IsSplice(q, c, p, b, w)
    BY <1>5, <2>1, Splicing
  <2>3. QED
    BY <2>2 DEF q, p, w
<1>7. DOMAIN made = DOMAIN lines
  BY DEF Splicings
<1> HIDE DEF made
<1>8. QED
  BY <1>3, <1>4, <1>6, <1>7 DEF Inlaid, c

\* Voices whose measures have the notes they had.
KeptLines(lines, next) ==
  DOMAIN next = DOMAIN lines /\ \A l \in DOMAIN lines : Kept(lines[l], next[l])

LEMMA KeptLinesTwice ==
  ASSUME NEW x, NEW y, NEW z, KeptLines(x, y), KeptLines(y, z)
  PROVE  KeptLines(x, z)
BY DEF KeptLines, Kept

\* What an edit of whole measures makes of s, and the spans it leaves.
Formed(s, a, new, b, next, spans) ==
  /\ next.spans = spans
  /\ \E lines : Inlaid(s, a, new, b, lines) /\ KeptLines(lines, next.lines)

LEMMA FormedOn ==
  ASSUME NEW s, NEW a, NEW new, NEW b, NEW t, NEW spans, Formed(s, a, new, b, t, spans),
         NEW u, KeptLines(t.lines, u.lines)
  PROVE  Formed(s, a, new, b, u, u.spans)
BY KeptLinesTwice DEF Formed

LEMMA KeptLinesSelf ==
  ASSUME NEW lines, \A l \in DOMAIN lines : IsVoice(lines[l])
  PROVE  KeptLines(lines, lines)
BY KeptSelf DEF KeptLines

-----------------------------------------------------------------------------
(* Event ids of their voices *)

\* The ids of the measures of q are of the voice l.
Owned(q, l) ==
  \A m \in DOMAIN q : \A i \in DOMAIN q[m].events :
    q[m].events[i].id = NoId \/ q[m].events[i].id[2] = l

LEMMA OwnedAre ==
  ASSUME NEW lines
  PROVE  OfTheirVoices(lines) <=> \A l \in DOMAIN lines : Owned(lines[l], l)
BY DEF OfTheirVoices, Owned

LEMMA OwnedKept ==
  ASSUME NEW q, NEW w, Kept(q, w), NEW l, Owned(q, l)
  PROVE  Owned(w, l)
BY DEF Kept, Owned

LEMMA OwnedSpliced ==
  ASSUME NEW q, NEW r, IsVoice(q), IsVoice(r), NEW a \in Nat, NEW b \in Nat, a <= b, b <= Len(q),
         NEW w, IsSplice(q, a, r, b, w), NEW l, Owned(q, l), Owned(r, l)
  PROVE  Owned(w, l)
<1>1. /\ Len(q) \in Nat /\ Len(r) \in Nat /\ DOMAIN q = 1 .. Len(q) /\ DOMAIN r = 1 .. Len(r)
  BY VoiceFacts
<1>2. ASSUME NEW i \in DOMAIN w
      PROVE  (\E j \in DOMAIN q : w[i] = q[j]) \/ (\E j \in DOMAIN r : w[i] = r[j])
  <2>1. /\ i \in 1 .. Len(w) /\ Len(w) = a + Len(r) + (Len(q) - b)
        /\ w[i] = IF i <= a THEN q[i]
                  ELSE IF i <= a + Len(r) THEN r[i - a] ELSE q[i - a - Len(r) + b]
    BY DEF IsSplice
  <2>2. CASE i <= a
    <3>1. i \in DOMAIN q
      BY <1>1, <2>1, <2>2
    <3>2. QED
      BY <2>1, <2>2, <3>1
  <2>3. CASE ~(i <= a) /\ i <= a + Len(r)
    <3>1. i - a \in DOMAIN r
      BY <1>1, <2>1, <2>3
    <3>2. QED
      BY <2>1, <2>3, <3>1
  <2>4. CASE ~(i <= a) /\ ~(i <= a + Len(r))
    <3>1. i - a - Len(r) + b \in DOMAIN q
      BY <1>1, <2>1, <2>4
    <3>2. QED
      BY <2>1, <2>4, <3>1
  <2>5. QED
    BY <2>2, <2>3, <2>4
<1>3. QED
  BY <1>2 DEF Owned

LEMMA RestsUnnamed ==
  ASSUME NEW u, NEW b, b = RestBar(u)
  PROVE  \A i \in DOMAIN b.events : b.events[i].id = NoId
<1> DEFINE x == Rests(Capacity)
<1>1. Spells(x, Capacity)
  BY RestsSpell, MeasuresAssumption
<1>2. b = [uid |-> u, part |-> FALSE, events |-> x]
  BY DEF RestBar
<1> HIDE DEF x
<1>3. b.events = x
  BY <1>2
<1>4. QED
  BY <1>1, <1>3 DEF Spells

LEMMA OwnedGiven ==
  ASSUME NEW new, Offered(new), OfTheirVoices(new), NEW l
  PROVE  Owned(MeasuresFor(new, l), l)
<1>1. CASE l \in DOMAIN new /\ Len(new[l]) = Len(new["p"])
  BY <1>1, OwnedAre DEF MeasuresFor
<1>2. CASE ~(l \in DOMAIN new /\ Len(new[l]) = Len(new["p"]))
  <2> DEFINE r == MeasuresFor(new, l)
  <2>1. r = [k \in DOMAIN new["p"] |-> RestBar(new["p"][k].uid)]
    BY <1>2 DEF MeasuresFor
  <2>2. ASSUME NEW k \in DOMAIN r, NEW i \in DOMAIN r[k].events
        PROVE  r[k].events[i].id = NoId
    <3>1. r[k] = RestBar(new["p"][k].uid)
      BY <2>1
    <3>2. QED
      BY <3>1, RestsUnnamed
  <2>3. QED
    BY <2>2 DEF Owned
<1>3. QED
  BY <1>1, <1>2

-----------------------------------------------------------------------------
(* What an edit of whole measures makes *)

LEMMA FormedIn ==
  ASSUME NEW s, NEW m, NEW n, NEW h, Laid(s, m, n, h), NEW a, NEW new, NEW b, NEW next, NEW spans,
         Formed(s, a, new, b, next, spans), NEW l \in DOMAIN s.lines
  PROVE  /\ DOMAIN next.lines = DOMAIN s.lines
         /\ IsVoice(s.lines[l]) /\ Len(s.lines[l]) = m
         /\ \E r, w : /\ IsSplice(s.lines[l], a, r, b, w) /\ IsVoice(r)
                      /\ Kept(MeasuresFor(new, l), r) /\ Kept(w, next.lines[l])
<1>1. PICK lines : Inlaid(s, a, new, b, lines) /\ KeptLines(lines, next.lines)
  BY DEF Formed
<1>2. PICK r : IsSplice(s.lines[l], a, r, b, lines[l]) /\ Kept(MeasuresFor(new, l), r)
  BY <1>1 DEF Inlaid
<1>3. DOMAIN lines = DOMAIN s.lines /\ DOMAIN next.lines = DOMAIN lines /\ Kept(lines[l], next.lines[l])
  BY <1>1 DEF Inlaid, KeptLines
<1>4. IsVoice(s.lines[l]) /\ Len(s.lines[l]) = m
  BY DEF Laid, Matched, IsBundle
<1>5. IsVoice(r)
  BY <1>2 DEF Kept
<1>6. QED
  BY <1>2, <1>3, <1>4, <1>5

LEMMA FormedOwned ==
  ASSUME NEW s, NEW m, NEW n, NEW h, Laid(s, m, n, h), OfTheirVoices(s.lines),
         NEW new, Offered(new), OfTheirVoices(new),
         NEW a \in Nat, NEW b \in Nat, a <= b, b <= m, NEW next, NEW spans,
         Formed(s, a, new, b, next, spans)
  PROVE  OfTheirVoices(next.lines)
<1>1. ASSUME NEW l \in DOMAIN next.lines
      PROVE  Owned(next.lines[l], l)
  <2>1. l \in DOMAIN s.lines
    BY <1>1 DEF Formed, KeptLines, Inlaid
  <2> DEFINE q == s.lines[l]
  <2>2. PICK r, w : /\ IsSplice(q, a, r, b, w) /\ IsVoice(r)
                    /\ Kept(MeasuresFor(new, l), r) /\ Kept(w, next.lines[l])
    BY <2>1, FormedIn
  <2>3. IsVoice(q) /\ b <= Len(q)
    BY <2>1, FormedIn
  <2>4. Owned(q, l)
    BY <2>1, OwnedAre
  <2>5. Owned(r, l)
    BY <2>2, OwnedGiven, OwnedKept
  <2> HIDE DEF q
  <2>6. Owned(w, l)
    BY <2>2, <2>3, <2>4, <2>5, OwnedSpliced
  <2>7. QED
    BY <2>2, <2>6, OwnedKept
<1>2. QED
  BY <1>1, OwnedAre

\* A measure of s that is not replaced stays, and the new ones are there.
LEMMA FormedStays ==
  ASSUME NEW s, NEW m, NEW n, NEW h, Laid(s, m, n, h), NEW new, Offered(new),
         NEW a \in Nat, NEW b \in Nat, a <= b, b <= m, NEW next, NEW spans,
         Formed(s, a, new, b, next, spans)
  PROVE  /\ \A i \in DOMAIN s.lines["p"] :
              i <= a \/ i > b => ~Gone(s.lines["p"], next.lines["p"], i)
         /\ \A j \in DOMAIN new["p"] : \E k \in DOMAIN next.lines["p"] :
              next.lines["p"][k].uid = new["p"][j].uid
<1> DEFINE q == s.lines["p"]
           v == next.lines["p"]
           given == MeasuresFor(new, "p")
<1>1. "p" \in DOMAIN s.lines
  BY DEF Laid, Matched, IsBundle
<1>2. PICK r, w : IsSplice(q, a, r, b, w) /\ IsVoice(r) /\ Kept(given, r) /\ Kept(w, v)
  BY <1>1, FormedIn
<1>3. IsVoice(q) /\ Len(q) = m /\ b <= Len(q)
  BY <1>1, FormedIn
<1>4. given = new["p"]
  BY DEF MeasuresFor, Offered, IsBundle
<1>5. \A i \in DOMAIN w : i \in DOMAIN v /\ v[i].uid = w[i].uid
  BY <1>2 DEF Kept
<1>6. \A j \in DOMAIN new["p"] : j \in DOMAIN r /\ r[j].uid = new["p"][j].uid
  BY <1>2, <1>4 DEF Kept
<1> HIDE DEF q, v, given
<1>7. ASSUME NEW j \in DOMAIN new["p"]
      PROVE  \E k \in DOMAIN v : v[k].uid = new["p"][j].uid
  <2>1. a + j \in DOMAIN w /\ w[a + j] = r[j]
    BY <1>2, <1>3, <1>6, SitsSpliced
  <2>2. QED
    BY <1>5, <1>6, <2>1
<1>8. ASSUME NEW i \in DOMAIN q, i <= a \/ i > b
      PROVE  ~Gone(q, v, i)
  <2> DEFINE to == [j \in DOMAIN q |-> IF j <= a THEN j ELSE j + Len(r) - (b - a)]
  <2>1. DOMAIN q = 1 .. Len(q) /\ i \in Nat /\ to[i] = IF i <= a THEN i ELSE i + Len(r) - (b - a)
    BY <1>3, VoiceFacts
  <2> HIDE DEF to
  <2>2. CASE i <= a
    <3>1. Sits(q, w, to, i)
      BY <1>2, <1>3, <2>1, <2>2, SitsBefore
    <3>2. QED
      BY <1>5, <3>1 DEF Sits, Gone
  <2>3. CASE i > b
    <3>1. to[i] = i + Len(r) - (b - a)
      BY <2>1, <2>3
    <3>2. Sits(q, w, to, i)
      BY <1>2, <1>3, <2>3, <3>1, SitsBehind
    <3>3. QED
      BY <1>5, <3>2 DEF Sits, Gone
  <2>4. QED
    BY <1>8, <2>2, <2>3
<1>9. QED
  BY <1>7, <1>8 DEF q, v

\* The replaced ones go.
LEMMA FormedGone ==
  ASSUME NEW s, NEW m, NEW n, NEW h, Laid(s, m, n, h), NEW new, Offered(new),
         NEW a \in Nat, NEW b \in Nat, a <= b, b <= m, NEW next, NEW spans,
         Formed(s, a, new, b, next, spans), Distinct(s.lines["p"]),
         NEW i \in DOMAIN s.lines["p"], a < i, i <= b,
         \A j \in DOMAIN new["p"] : new["p"][j].uid # s.lines["p"][i].uid
  PROVE  Gone(s.lines["p"], next.lines["p"], i)
<1> DEFINE q == s.lines["p"]
           v == next.lines["p"]
           given == MeasuresFor(new, "p")
<1>1. "p" \in DOMAIN s.lines
  BY DEF Laid, Matched, IsBundle
<1>2. PICK r, w : IsSplice(q, a, r, b, w) /\ IsVoice(r) /\ Kept(given, r) /\ Kept(w, v)
  BY <1>1, FormedIn
<1>3. IsVoice(q) /\ Len(q) = m /\ b <= Len(q)
  BY <1>1, FormedIn
<1>4. given = new["p"]
  BY DEF MeasuresFor, Offered, IsBundle
<1>5. DOMAIN v = DOMAIN w /\ \A k \in DOMAIN w : v[k].uid = w[k].uid
  BY <1>2 DEF Kept
<1>6. \A j \in DOMAIN r : r[j].uid # q[i].uid
  BY <1>2, <1>4 DEF Kept
<1>7. Distinct(q) /\ i \in DOMAIN q
  OBVIOUS
<1> HIDE DEF q, v, given
<1>8. Gone(q, w, i)
  BY <1>2, <1>3, <1>6, <1>7, GoneSpliced
<1>9. Gone(q, v, i)
  BY <1>5, <1>8 DEF Gone
<1>10. QED
  BY <1>9 DEF q, v

\* The new measures of a voice are in it, with their notes.
LEMMA FormedNew ==
  ASSUME NEW s, NEW m, NEW n, NEW h, Laid(s, m, n, h), NEW new, Offered(new),
         NEW a \in Nat, NEW b \in Nat, a <= b, b <= m, NEW next, NEW spans,
         Formed(s, a, new, b, next, spans), NEW l \in DOMAIN s.lines, l \in DOMAIN new,
         Len(new[l]) = Len(new["p"]), NEW j \in DOMAIN new[l]
  PROVE  \E k \in DOMAIN next.lines[l] : next.lines[l][k].events = new[l][j].events
<1> DEFINE q == s.lines[l]
           v == next.lines[l]
           given == MeasuresFor(new, l)
<1>1. PICK r, w : IsSplice(q, a, r, b, w) /\ IsVoice(r) /\ Kept(given, r) /\ Kept(w, v)
  BY FormedIn
<1>2. IsVoice(q) /\ Len(q) = m /\ b <= Len(q)
  BY FormedIn
<1>3. given = new[l]
  BY DEF MeasuresFor
<1>4. j \in DOMAIN r /\ r[j].events = new[l][j].events
  BY <1>1, <1>3 DEF Kept
<1>5. \A k \in DOMAIN w : k \in DOMAIN v /\ v[k].events = w[k].events
  BY <1>1 DEF Kept
<1> HIDE DEF q, v, given
<1>6. a + j \in DOMAIN w /\ w[a + j] = r[j]
  BY <1>1, <1>2, <1>4, SitsSpliced
<1>7. QED
  BY <1>4, <1>5, <1>6 DEF v

LEMMA LaidKept ==
  ASSUME NEW s, NEW m, NEW n, NEW h, Laid(s, m, n, h)
  PROVE  KeptLines(s.lines, s.lines) /\ HasFields(s) /\ Count(s) = m /\ m \in Nat
<1>1. \A l \in DOMAIN s.lines : IsVoice(s.lines[l])
  BY DEF Laid, Matched, IsBundle
<1>2. HasFields(s)
  BY DEF Laid
<1>3. QED
  BY <1>1, <1>2, KeptLinesSelf, CountLaid

LEMMA FlaggedLines ==
  ASSUME NEW s, NEW m, NEW n, NEW h, Laid(s, m, n, h), NEW had, NEW next, next = FlagOnlyLast(s, had)
  PROVE  KeptLines(s.lines, next.lines) /\ next.spans = s.spans
<1>1. KeptLines(s.lines, next.lines)
  BY KeptFlagged DEF KeptLines
<1>2. HasFields(s)
  BY DEF Laid
<1>3. next.spans = s.spans
  BY <1>2, OtherLines DEF FlagOnlyLast, EachVoice, SameEntries
<1>4. QED
  BY <1>1, <1>3

\* The measures of new behind the measure after, and the entries remapped.
LEMMA InsertedFormed ==
  ASSUME NEW s, NEW m, NEW h, Laid(s, m, m, h), NEW new, Offered(new), NEW k, k = Len(new["p"]),
         NEW after \in 0 .. m, NEW mid, mid = Inserted(s, new, after)
  PROVE  /\ Formed(s, after, new, after, mid, s.spans) /\ Laid(mid, m + k, m, h)
         /\ \A next : next = Remapped(mid, InsertIdx(m, after, k)) =>
              /\ Formed(s, after, new, after, next, s.spans) /\ Laid(next, m + k, m + k, h)
              /\ KeptLines(next.lines, next.lines)
<1>1. m \in Nat /\ after \in Nat /\ after <= m
  BY LaidKept
<1>2. Laid(mid, m + k, m, h) /\ k \in Nat
  BY <1>1, InsertedLaid
<1>3. mid.spans = s.spans
  BY <1>1, InsertedAt
<1>4. Inlaid(s, after, new, after, mid.lines)
  BY <1>1, InsertedInlaid
<1>5. KeptLines(mid.lines, mid.lines) /\ HasFields(mid)
  BY <1>2, LaidKept
<1>6. Formed(s, after, new, after, mid, s.spans)
  BY <1>3, <1>4, <1>5 DEF Formed
<1>7. ASSUME NEW next, next = Remapped(mid, InsertIdx(m, after, k))
      PROVE  /\ Formed(s, after, new, after, next, s.spans) /\ Laid(next, m + k, m + k, h)
             /\ KeptLines(next.lines, next.lines)
  <2>1. next.lines = mid.lines /\ next.spans = mid.spans
    BY <1>5, <1>7, RemappedFields
  <2>2. Maps(InsertIdx(m, after, k), m, m + k)
    BY <1>1, <1>2, InsertMaps
  <2>3. Laid(next, m + k, m + k, h)
    BY <1>2, <1>7, <2>2, RemappedLaid
  <2>4. QED
    BY <1>3, <1>4, <1>5, <2>1, <2>3 DEF Formed
<1>8. QED
  BY <1>2, <1>6, <1>7

\* Those of new in the place of the measures from a to b.
LEMMA ReplacedFormed ==
  ASSUME NEW s, NEW m, NEW h, Laid(s, m, m, h), NEW new, Offered(new), NEW k, k = Len(new["p"]),
         NEW a \in 1 .. m, NEW b \in a .. m, NEW mid, mid = Replaced(s, a, b, new),
         NEW spans \in SUBSET s.spans, NEW cut, cut = [mid EXCEPT !.spans = spans],
         NEW next, next = Remapped(cut, ReplaceIdx(m, a, b, k))
  PROVE  /\ Formed(s, a - 1, new, b, next, spans)
         /\ Laid(next, (a - 1) + k + (m - b), (a - 1) + k + (m - b), h)
         /\ KeptLines(next.lines, next.lines)
<1> DEFINE n == (a - 1) + k + (m - b)
           to == ReplaceIdx(m, a, b, k)
<1>1. Laid(mid, n, m, h) /\ k \in Nat
  BY ReplacedLaid
<1>2. mid.spans = s.spans
  BY ReplacedAt
<1>3. Inlaid(s, a - 1, new, b, mid.lines)
  BY ReplacedInlaid
<1>4. KeptLines(mid.lines, mid.lines) /\ HasFields(mid)
  BY <1>1, LaidKept
<1>5. Maps(to, m, n)
  BY <1>1, LaidKept, ReplaceMaps
<1> HIDE DEF n, to
<1>6. Laid(cut, n, m, h)
  BY <1>1, <1>2, LaidFewer
<1>7. cut.spans = spans /\ cut.lines = mid.lines /\ HasFields(cut)
  BY <1>4, SpansPut DEF HasFields
<1>8. next = Remapped(cut, to)
  BY DEF to
<1>a. HasFields(cut)
  BY <1>7
<1>b. next.lines = cut.lines /\ next.spans = cut.spans
  BY ONLY <1>8, <1>a, RemappedFields
<1>9. next.lines = mid.lines /\ next.spans = spans
  BY <1>7, <1>b
<1>10. Laid(next, n, n, h)
  BY <1>5, <1>6, <1>8, RemappedLaid
<1>11. KeptLines(mid.lines, next.lines) /\ KeptLines(next.lines, next.lines)
  BY <1>4, <1>9
<1>12. Formed(s, a - 1, new, b, next, spans)
  BY <1>3, <1>9, <1>11 DEF Formed
<1>13. QED
  BY <1>10, <1>11, <1>12 DEF n

LEMMA FormedMore ==
  ASSUME NEW s, NEW a, NEW new, NEW b, NEW t, NEW spans, Formed(s, a, new, b, t, spans),
         HasFields(t), NEW more, NEW next, next = [t EXCEPT !.spans = @ \union more]
  PROVE  Formed(s, a, new, b, next, spans \union more)
<1> DEFINE x == t.spans \union more
<1>1. next = [t EXCEPT !.spans = x]
  OBVIOUS
<1> HIDE DEF x
<1>2. next.spans = x /\ next.lines = t.lines
  BY <1>1 DEF HasFields
<1>3. QED
  BY <1>2 DEF Formed, x

LEMMA AppendFormed ==
  ASSUME NEW s, NEW m, NEW h, Laid(s, m, m, h), NEW new, Offered(new),
         NEW next, next = AppendMeasures(s, new)
  PROVE  Formed(s, m, new, m, next, s.spans)
<1> DEFINE mid == Inserted(s, new, Count(s))
           lines == [l \in Voices(s) |-> [mid.lines[l] EXCEPT ![Count(s)].part = FALSE]]
           k == Len(new["p"])
<1>1. Count(s) = m /\ m \in Nat /\ m \in 0 .. m
  BY LaidKept
<1>2. mid = Inserted(s, new, m) /\ k = Len(new["p"])
  BY <1>1
<1>3. next = [mid EXCEPT !.lines = lines]
  BY DEF AppendMeasures, EachVoice
<1>4. DOMAIN mid.lines = Voices(s)
  BY <1>1, InsertedAt DEF Voices
<1> HIDE DEF mid, k
<1>5. Formed(s, m, new, m, mid, s.spans) /\ Laid(mid, m + k, m, h)
  BY <1>1, <1>2, InsertedFormed
<1>6. KeptLines(mid.lines, lines)
  <2>1. ASSUME NEW l \in DOMAIN mid.lines
        PROVE  Kept(mid.lines[l], lines[l])
    <3>1. IsVoice(mid.lines[l])
      BY <1>5 DEF Laid, Matched, IsBundle
    <3>2. lines[l] = [mid.lines[l] EXCEPT ![Count(s)].part = FALSE]
      BY <1>4
    <3>3. QED
      BY <3>1, <3>2, KeptOne
  <2>2. QED
    BY <1>4, <2>1 DEF KeptLines
<1> HIDE DEF lines
<1>7. HasFields(mid)
  BY <1>5 DEF Laid
<1>8. next.lines = lines /\ next.spans = mid.spans
  BY <1>3, <1>7, OtherLines DEF SameEntries
<1>9. mid.spans = s.spans
  BY <1>5 DEF Formed
<1>10. KeptLines(mid.lines, next.lines)
  BY <1>6, <1>8
<1>11. QED
  BY <1>5, <1>8, <1>9, <1>10, FormedOn

LEMMA InsertFormed ==
  ASSUME NEW s, NEW m, NEW h, Laid(s, m, m, h), NEW new, Offered(new), NEW spans,
         NEW after \in 0 .. m, NEW next, next = InsertMeasuresAfter(s, new, spans, after)
  PROVE  Formed(s, after, new, after, next, s.spans \union spans)
<1> DEFINE k == Len(new["p"])
           mid == Inserted(s, new, after)
           moved == Remapped(mid, InsertIdx(m, after, k))
<1>1. Count(s) = m
  BY LaidKept
<1>2. next = [moved EXCEPT !.spans = @ \union spans]
  BY <1>1 DEF InsertMeasuresAfter
<1>3. k = Len(new["p"]) /\ mid = Inserted(s, new, after) /\ moved = Remapped(mid, InsertIdx(m, after, k))
  OBVIOUS
<1> HIDE DEF k, mid, moved
<1>4. Formed(s, after, new, after, moved, s.spans) /\ Laid(moved, m + k, m + k, h)
  BY <1>3, InsertedFormed
<1>5. HasFields(moved)
  BY <1>4 DEF Laid
<1>6. QED
  BY <1>2, <1>4, <1>5, FormedMore

LEMMA RegionFormed ==
  ASSUME NEW s, NEW m, NEW h, Laid(s, m, m, h), NEW new, Offered(new), NEW spans,
         NEW a \in 1 .. m, NEW b \in a .. m, NEW next, next = RegionReplace(s, a, b, new, spans)
  PROVE  Formed(s, a - 1, new, b, next, SpansOutside(s, a, b) \union spans)
<1> DEFINE k == Len(new["p"])
           mid == Replaced(s, a, b, new)
           out == SpansOutside(s, a, b)
           cut == [mid EXCEPT !.spans = out]
           moved == Remapped(cut, ReplaceIdx(m, a, b, k))
<1>1. Count(s) = m
  BY LaidKept
<1>2. next = [moved EXCEPT !.spans = @ \union spans]
  BY <1>1 DEF RegionReplace
<1>3. /\ k = Len(new["p"]) /\ mid = Replaced(s, a, b, new) /\ cut = [mid EXCEPT !.spans = out]
      /\ moved = Remapped(cut, ReplaceIdx(m, a, b, k))
  OBVIOUS
<1>4. out \in SUBSET s.spans
  BY SpansOutsideAre
<1> HIDE DEF k, mid, cut, moved, out
<1>5. Formed(s, a - 1, new, b, moved, out) /\ Laid(moved, (a - 1) + k + (m - b), (a - 1) + k + (m - b), h)
  BY <1>3, <1>4, ReplacedFormed
<1>6. HasFields(moved)
  BY <1>5 DEF Laid
<1>7. Formed(s, a - 1, new, b, next, out \union spans)
  BY <1>2, <1>5, <1>6, FormedMore
<1>8. QED
  BY <1>7 DEF out

LEMMA DeleteFormed ==
  ASSUME NEW s, NEW m, NEW h, Laid(s, m, m, h), NEW a \in 1 .. m, NEW b \in a .. m,
         NEW next, next = DeleteRange(s, a, b)
  PROVE  Formed(s, a - 1, Nothing, b, next, SpansOutside(s, a, b))
<1> DEFINE k == Len(Nothing["p"])
           mid == Replaced(s, a, b, Nothing)
           out == SpansOutside(s, a, b)
           cut == [mid EXCEPT !.spans = out]
           moved == Remapped(cut, ReplaceIdx(m, a, b, k))
<1>1. Count(s) = m /\ Offered(Nothing) /\ k = 0
  BY LaidKept, NothingOffered
<1>2. next = FlagOnlyLast(moved, EndsPartial(s))
  BY <1>1 DEF DeleteRange
<1>3. /\ k = Len(Nothing["p"]) /\ mid = Replaced(s, a, b, Nothing) /\ cut = [mid EXCEPT !.spans = out]
      /\ moved = Remapped(cut, ReplaceIdx(m, a, b, k))
  OBVIOUS
<1>4. out \in SUBSET s.spans
  BY SpansOutsideAre
<1> HIDE DEF k, mid, cut, moved, out
<1>5. Formed(s, a - 1, Nothing, b, moved, out) /\ Laid(moved, (a - 1) + k + (m - b), (a - 1) + k + (m - b), h)
  BY <1>1, <1>3, <1>4, ReplacedFormed
<1>6. KeptLines(moved.lines, next.lines) /\ next.spans = moved.spans
  BY <1>2, <1>5, FlaggedLines
<1>7. moved.spans = out
  BY <1>5 DEF Formed
<1>8. Formed(s, a - 1, Nothing, b, next, next.spans)
  BY <1>5, <1>6, FormedOn
<1>9. QED
  BY <1>6, <1>7, <1>8 DEF out

LEMMA DuplicateFormed ==
  ASSUME NEW s, NEW m, NEW h, Laid(s, m, m, h), NEW a \in 1 .. m, NEW b \in a .. m,
         NEW after \in 0 .. m, NEW g, NEW next, next = DuplicateRange(s, a, b, after, g)
  PROVE  Formed(s, after, Cloned(Captured(s, a, b), g), after, next, s.spans)
<1> DEFINE had == Captured(s, a, b)
           new == Cloned(had, g)
           k == b - a + 1
           mid == Inserted(s, new, after)
           moved == Remapped(mid, InsertIdx(m, after, k))
<1>1. Count(s) = m
  BY LaidKept
<1>2. next = FlagOnlyLast(moved, EndsPartial(s))
  BY <1>1 DEF DuplicateRange
<1>3. IsBundle(had) /\ Len(had["p"]) = k
  BY CapturedIs
<1> HIDE DEF had
<1>4. Offered(new) /\ Len(new["p"]) = k
  BY <1>3, ClonedOffered
<1>5. mid = Inserted(s, new, after) /\ moved = Remapped(mid, InsertIdx(m, after, k))
  OBVIOUS
<1> HIDE DEF new, k, mid, moved
<1>6. Formed(s, after, new, after, moved, s.spans) /\ Laid(moved, m + k, m + k, h)
  BY <1>4, <1>5, InsertedFormed
<1>7. KeptLines(moved.lines, next.lines) /\ next.spans = moved.spans
  BY <1>2, <1>6, FlaggedLines
<1>8. moved.spans = s.spans
  BY <1>6 DEF Formed
<1>9. Formed(s, after, new, after, next, next.spans)
  BY <1>6, <1>7, FormedOn
<1>10. QED
  BY <1>7, <1>8, <1>9 DEF new, had

\* Measures moved: taken out, then put in again.
MovedBy(s, h, a, b, next, left, c, dest) ==
  /\ Laid(left, c, c, h) /\ dest \in Nat /\ dest <= c /\ c \in Nat
  /\ Formed(s, a - 1, Nothing, b, left, s.spans)
  /\ Formed(left, dest, Captured(s, a, b), dest, next, s.spans)

LEMMA SpansSelf ==
  ASSUME NEW s, HasFields(s), NEW x, x = s.spans
  PROVE  [s EXCEPT !.spans = x] = s
BY DEF HasFields

LEMMA FormedSame ==
  ASSUME NEW s, NEW t, t.lines = s.lines, NEW a, NEW new, NEW b, NEW next, NEW spans,
         Formed(t, a, new, b, next, spans)
  PROVE  Formed(s, a, new, b, next, spans)
BY DEF Formed, Inlaid

LEMMA MoveFormed ==
  ASSUME NEW s, NEW m, NEW h, Whole(s, m, h), NEW a \in 1 .. m, NEW b \in a .. m,
         NEW after \in 0 .. m, after \notin (a - 1) .. b,
         NEW next, next = MoveRange(s, a, b, after)
  PROVE  \E left, c, dest : MovedBy(s, h, a, b, next, left, c, dest)
<1> DEFINE k == b - a + 1
           c == (a - 1) + 0 + (m - b)
           dest == IF after > b THEN after - k ELSE after
           d == dest + 1 - a
           t == Stripped(s, a, b)
           u == Replaced(t, a, b, Nothing)
           left == Remapped(u, ReplaceIdx(m, a, b, 0))
           new == Captured(s, a, b)
           v == Inserted(left, new, dest)
           moved == Remapped(v, InsertIdx(c, dest, k))
           put == Reattached(moved, InRange(s, a, b), d)
<1>1. Laid(s, m, m, h) /\ Count(s) = m /\ m \in Nat
  BY LaidKept DEF Whole
<1>2. k \in Nat /\ c \in Nat /\ dest \in 0 .. c
  BY <1>1
<1>3. Laid(t, m, m, h) /\ t.lines = s.lines /\ t.spans = s.spans
  BY <1>1, StrippedLaid
<1>4. left = Remapped(u, ReplaceIdx(m, a, b, 0)) /\ u = Replaced(t, a, b, Nothing)
  OBVIOUS
<1>a. put = Reattached(moved, InRange(s, a, b), d) /\ moved = Remapped(v, InsertIdx(c, dest, k))
      /\ v = Inserted(left, new, dest) /\ new = Captured(s, a, b)
  OBVIOUS
<1>b. c = (a - 1) + 0 + (m - b) /\ k = b - a + 1
  OBVIOUS
<1>c. Count(left) = c => next = FlagOnlyLast(put, EndsPartial(s))
  BY <1>1 DEF MoveRange
<1> HIDE DEF t, u, left, put, moved, v, new, k, c, dest, d
<1>5. /\ Formed(t, a - 1, Nothing, b, left, t.spans) /\ Laid(left, c, c, h)
  <2> DEFINE z == Len(Nothing["p"])
             cut == [u EXCEPT !.spans = t.spans]
             to == ReplaceIdx(m, a, b, z)
  <2>1. z = 0 /\ Offered(Nothing)
    BY NothingOffered
  <2>2. u.spans = t.spans /\ HasFields(u)
    BY <1>3, <1>4, <2>1, ReplacedAt
  <2>3. cut = u
    BY <2>2, SpansSelf
  <2>4. z = Len(Nothing["p"]) /\ cut = [u EXCEPT !.spans = t.spans] /\ t.spans \in SUBSET t.spans
    OBVIOUS
  <2>5. left = Remapped(cut, ReplaceIdx(m, a, b, z))
    BY <1>4, <2>1, <2>3
  <2> HIDE DEF z, cut
  <2>6. /\ Formed(t, a - 1, Nothing, b, left, t.spans)
        /\ Laid(left, (a - 1) + z + (m - b), (a - 1) + z + (m - b), h)
    BY ONLY <1>3, <1>4, <2>1, <2>4, <2>5, ReplacedFormed, a \in 1 .. m, b \in a .. m
  <2>7. QED
    BY <1>b, <2>1, <2>6
<1>6. Formed(s, a - 1, Nothing, b, left, s.spans) /\ left.spans = s.spans
  BY <1>3, <1>5, FormedSame DEF Formed
<1>7. Offered(new) /\ Len(new["p"]) = k
  BY <1>1, <1>a, <1>b, CapturedIs
<1>8. Formed(left, dest, new, dest, moved, left.spans) /\ Laid(moved, c + k, c + k, h)
  BY <1>2, <1>5, <1>7, <1>a, InsertedFormed
<1>9. Count(left) = c
  BY <1>5, LaidKept
<1>10. HasFields(moved) /\ \A l \in DOMAIN moved.lines : IsVoice(moved.lines[l])
  BY <1>8 DEF Laid, Matched, IsBundle
<1>11. HasFields(put) /\ put.lines = moved.lines /\ put.spans = moved.spans
  <2> DEFINE e == InRange(s, a, b)
             P == moved.points \union {[p EXCEPT !.at = @ + d] : p \in e.points}
             J == moved.jumps \union {[j EXCEPT !.at = @ + d] : j \in e.jumps}
             R == moved.ranges \union {[x EXCEPT !.from = @ + d, !.to = @ + d] : x \in e.ranges}
  <2>1. put = [moved EXCEPT !.points = P, !.jumps = J, !.ranges = R]
    BY <1>a DEF Reattached
  <2> HIDE DEF P, J, R
  <2>2. QED
    BY <1>10, <2>1 DEF HasFields
<1>12. next = FlagOnlyLast(put, EndsPartial(s))
  BY <1>9, <1>c
<1>13. KeptLines(moved.lines, next.lines) /\ next.spans = moved.spans
  <2> DEFINE w == FlagOnlyLast(moved, EndsPartial(s))
  <2>1. KeptLines(moved.lines, w.lines)
    BY <1>8, FlaggedLines
  <2>2. /\ next.lines = [l \in DOMAIN put.lines |-> [i \in DOMAIN put.lines[l] |->
                [put.lines[l][i] EXCEPT !.part = i = Len(put.lines[l]) /\ EndsPartial(s)]]]
        /\ w.lines = [l \in DOMAIN moved.lines |-> [i \in DOMAIN moved.lines[l] |->
                [moved.lines[l][i] EXCEPT !.part = i = Len(moved.lines[l]) /\ EndsPartial(s)]]]
        /\ next.spans = put.spans
    BY <1>10, <1>11, <1>12, OtherLines DEF FlagOnlyLast, EachVoice, Voices, SameEntries
  <2>3. next.lines = w.lines /\ next.spans = moved.spans
    BY <1>11, <2>2
  <2> HIDE DEF w
  <2>4. QED
    BY <2>1, <2>3
<1>14. moved.spans = left.spans
  BY <1>8 DEF Formed
<1>15. Formed(left, dest, new, dest, next, next.spans) /\ next.spans = s.spans
  BY <1>6, <1>8, <1>13, <1>14, FormedOn
<1>16. MovedBy(s, h, a, b, next, left, c, dest)
  BY <1>2, <1>5, <1>6, <1>15, <1>a DEF MovedBy
<1>17. QED
  BY <1>16

-----------------------------------------------------------------------------
(* Spans that follow their events *)

\* An event of this id is in a measure that stays.
Outlives(s, next, id) ==
  \E p \in Places(s, id) : ~Gone(s.lines["p"], next.lines["p"], p[2])

\* None of its measures goes.
Unhurt(s, next, id) ==
  \A p \in Places(s, id) : ~Gone(s.lines["p"], next.lines["p"], p[2])

\* The spans of next are those of s whose events stay, and more.
Trims(s, next, more) ==
  /\ DOMAIN next.lines = DOMAIN s.lines
  /\ \A y \in next.spans :
       \/ y \in more
       \/ y \in s.spans /\ (Anchored(s, y) => Outlives(s, next, y.a) /\ Outlives(s, next, y.b))
  /\ \A x \in s.spans :
       Anchored(s, x) /\ Unhurt(s, next, x.a) /\ Unhurt(s, next, x.b) => x \in next.spans

LEMMA BarOf ==
  ASSUME NEW s, NEW m, NEW n, NEW h, Laid(s, m, n, h), NEW id, NEW p \in Places(s, id)
  PROVE  p[2] \in DOMAIN s.lines["p"] /\ p[2] \in 1 .. m
<1>1. p[1] \in DOMAIN s.lines /\ p[2] \in DOMAIN s.lines[p[1]] /\ "p" \in DOMAIN s.lines
  BY PlacesAre DEF Laid, Matched, IsBundle
<1>2. \A l \in DOMAIN s.lines : IsVoice(s.lines[l]) /\ Len(s.lines[l]) = m
  BY DEF Laid, Matched, IsBundle
<1>3. \A l \in DOMAIN s.lines : DOMAIN s.lines[l] = 1 .. m
  BY <1>2, VoiceFacts
<1>4. QED
  BY <1>1, <1>3

LEMMA AllTrims ==
  ASSUME NEW s, NEW m, NEW n, NEW h, Laid(s, m, n, h), NEW next, NEW more,
         DOMAIN next.lines = DOMAIN s.lines, next.spans = s.spans \union more,
         \A i \in DOMAIN s.lines["p"] : ~Gone(s.lines["p"], next.lines["p"], i)
  PROVE  Trims(s, next, more)
<1>1. \A id : Places(s, id) # {} => Outlives(s, next, id)
  BY BarOf DEF Outlives
<1>2. QED
  BY <1>1 DEF Trims, Anchored

LEMMA GrowthTrims ==
  ASSUME NEW s, NEW m, NEW n, NEW h, Laid(s, m, n, h), NEW new, Offered(new),
         NEW after \in Nat, after <= m, NEW next, NEW more,
         Formed(s, after, new, after, next, s.spans \union more)
  PROVE  Trims(s, next, more)
<1>1. "p" \in DOMAIN s.lines /\ DOMAIN s.lines["p"] \subseteq Nat
  BY VoiceFacts DEF Laid, Matched, IsBundle
<1>2. DOMAIN next.lines = DOMAIN s.lines
  BY <1>1, FormedIn
<1>3. \A i \in DOMAIN s.lines["p"] :
        i <= after \/ i > after => ~Gone(s.lines["p"], next.lines["p"], i)
  BY FormedStays
<1>4. \A i \in DOMAIN s.lines["p"] : ~Gone(s.lines["p"], next.lines["p"], i)
  BY <1>1, <1>3
<1>5. next.spans = s.spans \union more
  BY DEF Formed
<1>6. QED
  BY <1>2, <1>4, <1>5, AllTrims

LEMMA CutTrims ==
  ASSUME NEW s, NEW m, NEW n, NEW h, Laid(s, m, n, h), Readable(s), OverTheirVoices(s.spans),
         Distinct(s.lines["p"]), NEW new, Offered(new),
         \A i \in DOMAIN s.lines["p"] : \A j \in DOMAIN new["p"] :
           new["p"][j].uid # s.lines["p"][i].uid,
         NEW a \in 1 .. m, NEW b \in a .. m, NEW next, NEW more,
         Formed(s, a - 1, new, b, next, SpansOutside(s, a, b) \union more)
  PROVE  Trims(s, next, more)
<1> DEFINE q == s.lines["p"]
           c == a - 1
           out == SpansOutside(s, a, b)
<1>1. "p" \in DOMAIN s.lines /\ DOMAIN q \subseteq Nat /\ m \in Nat
  BY VoiceFacts DEF Laid, Matched, IsBundle
<1>2. DOMAIN next.lines = DOMAIN s.lines
  BY <1>1, FormedIn
<1>3. c \in Nat /\ b \in Nat /\ c <= b /\ b <= m /\ a = c + 1
  BY <1>1
<1>4. Formed(s, c, new, b, next, out \union more) /\ Distinct(q)
  OBVIOUS
<1>5. out = {x \in s.spans : /\ Places(s, x.a) # {} /\ Places(s, x.b) # {}
                             /\ LastPlace(s, x.a)[2] \notin a .. b
                             /\ LastPlace(s, x.b)[2] \notin a .. b}
  BY DEF SpansOutside
<1>6. next.spans = out \union more
  BY <1>4 DEF Formed
<1> HIDE DEF c, out
<1>7. \A i \in DOMAIN q : i <= c \/ i > b => ~Gone(q, next.lines["p"], i)
  BY <1>3, <1>4, FormedStays
<1>8. ASSUME NEW i \in DOMAIN q, i \in a .. b
      PROVE  Gone(q, next.lines["p"], i)
  <2>1. c < i /\ i <= b
    BY <1>1, <1>3, <1>8
  <2>2. \A j \in DOMAIN new["p"] : new["p"][j].uid # q[i].uid
    OBVIOUS
  <2>3. QED
    BY <1>3, <1>4, <2>1, <2>2, FormedGone
<1>9. \A i \in DOMAIN q : i \notin a .. b => ~Gone(q, next.lines["p"], i)
  BY <1>1, <1>3, <1>7
<1>10. ASSUME NEW x \in s.spans, Places(s, x.a) # {}, Places(s, x.b) # {}
       PROVE  /\ LastPlace(s, x.a) \in Places(s, x.a) /\ LastPlace(s, x.a)[2] \in DOMAIN q
              /\ LastPlace(s, x.b) \in Places(s, x.b) /\ LastPlace(s, x.b)[2] \in DOMAIN q
  <2>1. x.a # NoId /\ x.b # NoId
    BY DEF OverTheirVoices
  <2>2. LastPlace(s, x.a) \in Places(s, x.a) /\ LastPlace(s, x.b) \in Places(s, x.b)
    BY <1>10, <2>1, Found
  <2>3. QED
    BY <2>2, BarOf
<1>11. ASSUME NEW y \in out
       PROVE  y \in s.spans /\ Outlives(s, next, y.a) /\ Outlives(s, next, y.b)
  BY <1>5, <1>9, <1>10 DEF Outlives
<1>12. ASSUME NEW x \in s.spans, Anchored(s, x), Unhurt(s, next, x.a), Unhurt(s, next, x.b)
       PROVE  x \in out
  <2>1. Places(s, x.a) # {} /\ Places(s, x.b) # {}
    BY <1>12 DEF Anchored
  <2>2. LastPlace(s, x.a)[2] \notin a .. b /\ LastPlace(s, x.b)[2] \notin a .. b
    BY <1>8, <1>10, <1>12, <2>1 DEF Unhurt
  <2>3. QED
    BY <1>5, <2>1, <2>2
<1>13. QED
  BY <1>2, <1>6, <1>11, <1>12 DEF Trims

LEMMA TrimsOn ==
  ASSUME NEW s, NEW t, NEW more, Trims(s, t, more), NEW u, DOMAIN u.lines = DOMAIN t.lines,
         u.spans = t.spans, SameBars(t.lines["p"], u.lines["p"])
  PROVE  Trims(s, u, more)
<1>1. \A i : Gone(s.lines["p"], u.lines["p"], i) <=> Gone(s.lines["p"], t.lines["p"], i)
  BY DEF SameBars, Gone
<1>2. \A id : Outlives(s, u, id) <=> Outlives(s, t, id)
  BY <1>1 DEF Outlives
<1>3. \A id : Unhurt(s, u, id) <=> Unhurt(s, t, id)
  BY <1>1 DEF Unhurt
<1>4. QED
  BY <1>2, <1>3 DEF Trims

LEMMA MoveTrims ==
  ASSUME NEW s, NEW m, NEW h, Laid(s, m, m, h), NEW a \in 1 .. m, NEW b \in a .. m,
         NEW next, NEW left, NEW c, NEW dest, MovedBy(s, h, a, b, next, left, c, dest)
  PROVE  Trims(s, next, {})
<1> DEFINE q == s.lines["p"]
           w == left.lines["p"]
           x == next.lines["p"]
           new == Captured(s, a, b)
           e == a - 1
<1>1. "p" \in DOMAIN s.lines /\ IsVoice(q) /\ Len(q) = m /\ m \in Nat /\ DOMAIN q \subseteq Nat
  BY VoiceFacts DEF Laid, Matched, IsBundle
<1>2. Offered(Nothing) /\ e \in Nat /\ b \in Nat /\ e <= b /\ b <= m /\ a = e + 1
  BY <1>1, NothingOffered
<1>3. /\ Laid(left, c, c, h) /\ dest \in Nat /\ dest <= c
      /\ Formed(s, e, Nothing, b, left, s.spans)
      /\ Formed(left, dest, new, dest, next, s.spans)
  BY DEF MovedBy
<1>4. Offered(new) /\ IsPart(q, a, b, new["p"])
  BY <1>1, CapturedIs
<1> HIDE DEF new, e
<1>5. DOMAIN left.lines = DOMAIN s.lines
  BY <1>1, <1>3, FormedIn
<1>6. DOMAIN next.lines = DOMAIN s.lines
  BY <1>1, <1>3, <1>5, FormedIn
<1>7. \A i \in DOMAIN q : i <= e \/ i > b => ~Gone(q, w, i)
  BY <1>2, <1>3, FormedStays
<1>8. /\ \A i \in DOMAIN w : i <= dest \/ i > dest => ~Gone(w, x, i)
      /\ \A j \in DOMAIN new["p"] : \E k \in DOMAIN x : x[k].uid = new["p"][j].uid
  BY <1>3, <1>4, FormedStays
<1>a. DOMAIN w \subseteq Nat
  BY <1>3, <1>5, <1>1, VoiceFacts DEF Laid, Matched, IsBundle
<1>b. DOMAIN new["p"] = 1 .. b - a + 1
  BY <1>4, VoiceFacts DEF IsPart
<1> HIDE DEF q, w, x
<1>9. ASSUME NEW i \in DOMAIN q
      PROVE  ~Gone(q, x, i)
  <2>1. CASE i \in a .. b
    <3> DEFINE j == i - a + 1
    <3>1. j \in 1 .. b - a + 1 /\ a + j - 1 = i
      BY <1>1, <2>1
    <3>2. new["p"][j] = q[a + j - 1] /\ j \in DOMAIN new["p"]
      BY <1>4, <1>b, <3>1 DEF IsPart
    <3> HIDE DEF j
    <3>3. QED
      BY <1>8, <3>1, <3>2 DEF Gone
  <2>2. CASE i \notin a .. b
    <3>1. i <= e \/ i > b
      BY <1>1, <1>2, <2>2
    <3>2. PICK k \in DOMAIN w : w[k].uid = q[i].uid
      BY <1>7, <3>1 DEF Gone
    <3>3. ~Gone(w, x, k)
      BY <1>3, <1>8, <1>a
    <3>4. QED
      BY <3>2, <3>3 DEF Gone
  <2>3. QED
    BY <2>1, <2>2
<1>10. next.spans = s.spans \union {}
  BY <1>3 DEF Formed
<1>11. QED
  BY <1>6, <1>9, <1>10, AllTrims DEF q, x

-----------------------------------------------------------------------------
(* The ids of new measures *)

\* In a copy every event has an id of its own.
LEMMA ClonedIds ==
  ASSUME NEW new, IsBundle(new), Sung(new), NEW g, NEW c, c = Cloned(new, g)
  PROVE  /\ DOMAIN c = DOMAIN new
         /\ \A l \in DOMAIN new : DOMAIN c[l] = DOMAIN new[l] /\ Len(c[l]) = Len(new[l])
         /\ \A l \in DOMAIN new : \A k \in DOMAIN new[l] :
              /\ DOMAIN c[l][k].events = DOMAIN new[l][k].events
              /\ \A i \in DOMAIN new[l][k].events : c[l][k].events[i].id = <<g, l, k, i>>
<1>1. DOMAIN c = DOMAIN new /\ \A l \in DOMAIN new : DOMAIN c[l] = DOMAIN new[l]
  BY DEF Cloned
<1>2. ASSUME NEW l \in DOMAIN new
      PROVE  Len(c[l]) = Len(new[l])
  <2> DEFINE q == new[l]
             w == c[l]
  <2>1. Len(q) \in Nat /\ DOMAIN q = 1 .. Len(q)
    BY VoiceFacts DEF IsBundle
  <2>2. w = [k \in DOMAIN q |-> w[k]]
    BY DEF Cloned
  <2> HIDE DEF q, w
  <2>3. Len(w) = Len(q)
    BY <2>1, <2>2, FunctionIs
  <2>4. QED
    BY <2>3 DEF q, w
<1>3. ASSUME NEW l \in DOMAIN new, NEW k \in DOMAIN new[l]
      PROVE  /\ DOMAIN c[l][k].events = DOMAIN new[l][k].events
             /\ \A i \in DOMAIN new[l][k].events : c[l][k].events[i].id = <<g, l, k, i>>
  <2> DEFINE b == new[l][k]
             x == b.events
             y == Identified(g, l, k, x)
             d == c[l][k]
             u == <<g, k>>
  <2>1. b = [uid |-> b.uid, part |-> b.part, events |-> b.events]
    BY DEF IsBundle, IsVoice
  <2>2. d = [b EXCEPT !.uid = u, !.events = y]
    BY DEF Cloned
  <2>3. \A i \in DOMAIN x : IsEvent(x[i])
    BY DEF Sung, Scored, IsMusic
  <2>4. y = [i \in DOMAIN x |-> [x[i] EXCEPT !.id = <<g, l, k, i>>]]
    BY DEF Identified
  <2> HIDE DEF d, y, b, u
  <2>5. d.events = y
    BY <2>1, <2>2
  <2> HIDE DEF x
  <2>6. ASSUME NEW i \in DOMAIN x
        PROVE  y[i].id = <<g, l, k, i>>
    <3> DEFINE e == x[i]
               f == y[i]
               name == <<g, l, k, i>>
    <3>1. f = [e EXCEPT !.id = name]
      BY <2>4
    <3>2. e = [id |-> e.id, u |-> e.u, rest |-> e.rest, tup |-> e.tup]
      BY <2>3 DEF IsEvent
    <3> HIDE DEF e, f, name
    <3>3. f.id = name
      BY <3>1, <3>2
    <3>4. QED
      BY <3>3 DEF f, name
  <2>7. DOMAIN y = DOMAIN x
    BY <2>4
  <2>8. QED
    BY <2>5, <2>6, <2>7 DEF d, b, x
<1>4. QED
  BY <1>1, <1>2, <1>3

LEMMA ClonedOwned ==
  ASSUME NEW new, IsBundle(new), Sung(new), NEW g, NEW c, c = Cloned(new, g)
  PROVE  OfTheirVoices(c)
<1>1. ASSUME NEW l \in DOMAIN c, NEW k \in DOMAIN c[l], NEW i \in DOMAIN c[l][k].events
      PROVE  c[l][k].events[i].id[2] = l
  <2>1. l \in DOMAIN new /\ k \in DOMAIN new[l] /\ i \in DOMAIN new[l][k].events
    BY ClonedIds
  <2>2. c[l][k].events[i].id = <<g, l, k, i>>
    BY <2>1, ClonedIds
  <2>3. QED
    BY <2>2
<1>2. QED
  BY <1>1 DEF OfTheirVoices

LEMMA CapturedOwned ==
  ASSUME NEW s, NEW m, NEW n, NEW h, Laid(s, m, n, h), OfTheirVoices(s.lines),
         NEW a \in 1 .. m, NEW b \in a .. m, NEW new, new = Captured(s, a, b)
  PROVE  OfTheirVoices(new)
<1>1. /\ DOMAIN new = DOMAIN s.lines
      /\ \A l \in DOMAIN s.lines : IsPart(s.lines[l], a, b, new[l])
  BY CapturedIs
<1>2. ASSUME NEW l \in DOMAIN new
      PROVE  Owned(new[l], l)
  <2>1. IsVoice(s.lines[l]) /\ IsPart(s.lines[l], a, b, new[l]) /\ Owned(s.lines[l], l)
    BY <1>1, OwnedAre DEF Laid, Matched, IsBundle
  <2>2. \A i \in DOMAIN new[l] : \E j \in DOMAIN s.lines[l] : new[l][i] = s.lines[l][j]
    BY <2>1, PartOf
  <2>3. QED
    BY <2>1, <2>2 DEF Owned
<1>3. QED
  BY <1>2, OwnedAre

LEMMA AnswerOwned ==
  ASSUME NEW content \in Contents, NEW c, c = Answer(content)
  PROVE  OfTheirVoices(c)
<1>1. /\ DOMAIN c = DOMAIN content /\ OfTheirVoices(content)
      /\ \A l \in DOMAIN content : c[l] = [k \in DOMAIN content[l] |->
           [uid |-> <<Gen, k>>, part |-> content[l][k].part, events |-> content[l][k].events]]
  BY ScoreEditsAssumption DEF Answer
<1>2. ASSUME NEW l \in DOMAIN c
      PROVE  DOMAIN c[l] = DOMAIN content[l]
             /\ \A k \in DOMAIN c[l] : c[l][k].events = content[l][k].events
  BY <1>1
<1>3. QED
  BY <1>1, <1>2 DEF OfTheirVoices

LEMMA NothingOwned == OfTheirVoices(Nothing)
BY DEF OfTheirVoices, Nothing

LEMMA RestOwned ==
  ASSUME NEW u, NEW c, c = [l \in {"p"} |-> <<RestBar(u)>>]
  PROVE  OfTheirVoices(c)
<1> DEFINE b == RestBar(u)
<1>1. \A i \in DOMAIN b.events : b.events[i].id = NoId
  BY RestsUnnamed
<1> HIDE DEF b
<1>2. DOMAIN c = {"p"} /\ c["p"] = <<b>>
  BY DEF b
<1>3. DOMAIN c["p"] = {1} /\ c["p"][1] = b
  BY <1>2
<1>4. QED
  BY <1>1, <1>2, <1>3 DEF OfTheirVoices

\* What a proposal shows is the same score, with ids.
LEMMA BackfilledIs ==
  ASSUME NEW s, NEW m, NEW h, Whole(s, m, h), Sung(s.lines), OfTheirVoices(s.lines),
         NEW next, next = Backfilled(s)
  PROVE  /\ OfTheirVoices(next.lines) /\ DOMAIN next.lines = DOMAIN s.lines
         /\ next.spans = s.spans /\ SameBars(s.lines["p"], next.lines["p"])
<1> DEFINE voice(l) == [k \in DOMAIN s.lines[l] |->
                          [s.lines[l][k] EXCEPT !.events = WithIds(l, k, @)]]
           lines == [l \in DOMAIN s.lines |-> voice(l)]
<1>1. next.lines = lines /\ next.spans = s.spans
  BY VoicesAre, OtherLines DEF Backfilled, Voices, SameEntries
<1>2. ASSUME NEW l \in DOMAIN s.lines, NEW k \in DOMAIN s.lines[l]
      PROVE  /\ lines[l][k].uid = s.lines[l][k].uid
             /\ \A i \in DOMAIN lines[l][k].events :
                  lines[l][k].events[i].id = NoId \/ lines[l][k].events[i].id[2] = l
  <2> DEFINE b == s.lines[l][k]
             x == b.events
             y == WithIds(l, k, x)
             d == lines[l][k]
  <2>1. b = [uid |-> b.uid, part |-> b.part, events |-> b.events]
    <3>1. IsVoice(s.lines[l])
      BY VoicesAre
    <3>2. QED
      BY <3>1 DEF IsVoice
  <2>2. d = [b EXCEPT !.events = y]
    OBVIOUS
  <2>3. y = [i \in DOMAIN x |-> IF x[i].id # NoId THEN x[i]
                                ELSE [x[i] EXCEPT !.id = Derived(l, k, i, x[i])]]
    BY DEF WithIds
  <2>4. \A i \in DOMAIN x : IsEvent(x[i]) /\ (x[i].id = NoId \/ x[i].id[2] = l)
    BY DEF Sung, Scored, IsMusic, OfTheirVoices
  <2> HIDE DEF d, y, b, lines
  <2>5. d.uid = b.uid /\ d.events = y
    BY <2>1, <2>2
  <2> HIDE DEF x
  <2>6. ASSUME NEW i \in DOMAIN y
        PROVE  y[i].id = NoId \/ y[i].id[2] = l
    <3> DEFINE e == x[i]
               f == y[i]
               name == Derived(l, k, i, x[i])
    <3>1. i \in DOMAIN x
      BY <2>3
    <3>2. (f = e /\ (e.id = NoId \/ e.id[2] = l)) \/ f = [e EXCEPT !.id = name]
      BY <2>3, <2>4, <3>1
    <3>3. e = [id |-> e.id, u |-> e.u, rest |-> e.rest, tup |-> e.tup]
      BY <2>4, <3>1 DEF IsEvent
    <3>4. name[2] = l
      BY DEF Derived
    <3> HIDE DEF e, f, name
    <3>5. CASE f = [e EXCEPT !.id = name]
      <4>1. f.id = name
        BY <3>3, <3>5
      <4>2. QED
        BY <3>4, <4>1 DEF f
    <3>6. QED
      BY <3>2, <3>5 DEF f
  <2>7. QED
    BY <2>5, <2>6 DEF d, b
<1>3. DOMAIN lines = DOMAIN s.lines /\ \A l \in DOMAIN s.lines : DOMAIN lines[l] = DOMAIN s.lines[l]
  OBVIOUS
<1>4. "p" \in DOMAIN s.lines
  BY VoicesAre
<1> HIDE DEF lines
<1>5. OfTheirVoices(lines)
  BY <1>2, <1>3 DEF OfTheirVoices
<1>6. SameBars(s.lines["p"], lines["p"])
  BY <1>2, <1>3, <1>4 DEF SameBars
<1>7. QED
  BY <1>1, <1>3, <1>5, <1>6

\* A balanced edit makes no id.
LEMMA WithinOwned ==
  ASSUME NEW x, IsMusic(x), NEW y, Within(x, y), NEW l,
         \A i \in DOMAIN x : x[i].id = NoId \/ x[i].id[2] = l
  PROVE  \A i \in DOMAIN y : y[i].id = NoId \/ y[i].id[2] = l
<1> DEFINE I == {NoId} \union {x[i].id : i \in 1 .. Len(x)}
<1>1. NoId \in I /\ \A i \in 1 .. Len(x) : x[i].id \in I
  OBVIOUS
<1>2. DOMAIN x = 1 .. Len(x)
  BY MusicIs
<1>3. \A id \in I : id = NoId \/ id[2] = l
  BY <1>2
<1> HIDE DEF I
<1>4. x \in Seq(EventsOf(I))
  BY <1>1, MusicIn
<1>5. y \in Seq(EventsOf(I))
  BY <1>1, <1>4 DEF Within
<1>6. \A i \in DOMAIN y : y[i].id \in I
  BY <1>5, IdsIn
<1>7. QED
  BY <1>3, <1>6

-----------------------------------------------------------------------------
(* The spans of a paste *)

\* Measures copied from the same stretch of voices that are in order.
Copied(new) ==
  /\ IsBundle(new) /\ Sung(new) /\ OfTheirVoices(new)
  /\ \A l \in DOMAIN new : Len(new[l]) = Len(new["p"])

\* An event of the copy.
In(new, l, k, i) == l \in DOMAIN new /\ k \in DOMAIN new[l] /\ i \in DOMAIN new[l][k].events

LEMMA CapturesAre ==
  ASSUME NEW new, Copied(new), NEW id, id # NoId, NEW x \in Captures(new, id)
  PROVE  /\ x = <<x[1], x[2], x[3]>> /\ x[1] = id[2] /\ In(new, x[1], x[2], x[3])
         /\ x[2] \in 1 .. Len(new["p"]) /\ x[3] \in 1 .. 3 * Capacity
<1>1. /\ x \in {"p", "v", "s"} \X (1 .. Len(new["p"])) \X (1 .. (3 * Capacity))
      /\ x[1] \in DOMAIN new /\ x[3] \in DOMAIN new[x[1]][x[2]].events
      /\ new[x[1]][x[2]].events[x[3]].id = id
  BY DEF Captures
<1>2. x = <<x[1], x[2], x[3]>> /\ x[2] \in 1 .. Len(new["p"]) /\ x[3] \in 1 .. 3 * Capacity
  BY <1>1
<1>3. IsVoice(new[x[1]]) /\ Len(new[x[1]]) = Len(new["p"])
  BY <1>1 DEF Copied, IsBundle
<1>4. x[2] \in DOMAIN new[x[1]]
  BY <1>2, <1>3, VoiceFacts
<1>5. id[2] = x[1]
  BY <1>1, <1>4 DEF Copied, OfTheirVoices
<1>6. QED
  BY <1>1, <1>2, <1>4, <1>5 DEF In

LEMMA Quadruple ==
  ASSUME NEW g, NEW l, NEW k, NEW i
  PROVE  <<g>> \o <<l, k, i>> = <<g, l, k, i>>
<1> DEFINE y == <<l, k, i>>
           z == <<g>> \o y
           w == <<g, l, k, i>>
<1>1. y \in Seq({l, k, i}) /\ Len(y) = 3 /\ y[1] = l /\ y[2] = k /\ y[3] = i
  OBVIOUS
<1>2. IsSequence(y)
  BY <1>1, SequenceIs
<1> HIDE DEF y
<1>3. IsPrefixed(y, g, z)
  BY <1>2, Prefixing
<1> HIDE DEF z
<1>4. z[1] = g /\ Len(z) = 4 /\ IsSequence(z) /\ \A j \in 1 .. 3 : z[j + 1] = y[j]
  BY <1>1, <1>3 DEF IsPrefixed
<1>5. z[1 + 1] = l /\ z[2 + 1] = k /\ z[3 + 1] = i
  <2>1. 1 \in 1 .. 3 /\ 2 \in 1 .. 3 /\ 3 \in 1 .. 3
    OBVIOUS
  <2>2. QED
    BY <1>1, <1>4, <2>1
<1>6. DOMAIN z = 1 .. 4 /\ z \in Seq({z[j] : j \in DOMAIN z})
  BY <1>4 DEF IsSequence
<1>7. w \in Seq({g, l, k, i}) /\ Len(w) = 4 /\ DOMAIN w = 1 .. 4
      /\ w[1] = g /\ w[2] = l /\ w[3] = k /\ w[4] = i
  OBVIOUS
<1> HIDE DEF w
<1>8. \A j \in 1 .. 4 : z[j] = w[j]
  <2>1. z[2] = l /\ z[3] = k /\ z[4] = i
    BY <1>5
  <2>2. QED
    BY <1>4, <1>7, <2>1
<1>9. z = [j \in 1 .. 4 |-> z[j]] /\ w = [j \in 1 .. 4 |-> w[j]]
  BY <1>6, <1>7
<1>10. z = w
  BY <1>8, <1>9
<1>11. QED
  BY <1>10 DEF z, y, w

LEMMA FreshIs ==
  ASSUME NEW new, Copied(new), NEW id, id # NoId, Captures(new, id) # {}, NEW g
  PROVE  \E k, i : In(new, id[2], k, i) /\ Fresh(new, g, id) = <<g, id[2], k, i>>
<1> DEFINE T == Captures(new, id)
           n == Len(new["p"])
           h == [k \in 1 .. n |-> 3 * Capacity]
           l == id[2]
           at == CHOOSE x \in T : \A y \in T : Precedes(y, x)
<1>1. n \in Nat /\ \A k \in 1 .. n : h[k] \in Nat
  <2>1. IsVoice(new["p"])
    BY DEF Copied, IsBundle
  <2>2. n \in Nat
    BY <2>1, VoiceFacts
  <2>3. QED
    BY <2>2, MeasuresAssumption
<1>2. \A x \in T : x[1] = l /\ x[2] \in 1 .. n /\ x[3] \in 1 .. h[x[2]]
  BY CapturesAre
<1>3. Ordered(T, l, n, h)
  BY <1>1, <1>2 DEF Ordered
<1> HIDE DEF n, h
<1>4. \E x \in T : \A y \in T : Precedes(y, x)
  BY <1>3, OneBefore
<1>5. at \in T
  BY <1>4
<1>6. Fresh(new, g, id) = <<g>> \o at
  BY DEF Fresh
<1> HIDE DEF at
<1>7. at = <<at[1], at[2], at[3]>> /\ at[1] = l /\ In(new, l, at[2], at[3])
  BY <1>5, CapturesAre
<1>8. <<g>> \o at = <<g, l, at[2], at[3]>>
  <2> DEFINE k == at[2]
             i == at[3]
  <2>1. at = <<l, k, i>>
    BY <1>7
  <2> HIDE DEF l, k, i
  <2>2. <<g>> \o <<l, k, i>> = <<g, l, k, i>>
    BY Quadruple
  <2>3. QED
    BY <2>1, <2>2 DEF k, i
<1>9. QED
  BY <1>6, <1>7, <1>8

LEMMA CarriedAre ==
  ASSUME NEW new, NEW spans, AreSpans(spans), NEW g, NEW y \in SpansCarried(new, spans, g)
  PROVE  \E x \in spans :
           y.line = x.line /\ y.a = Fresh(new, g, x.a) /\ y.b = Fresh(new, g, x.b)
<1>1. PICK x \in spans :
        y = [x EXCEPT !.id = <<g>> \o @, !.a = Fresh(new, g, @), !.b = Fresh(new, g, @)]
  BY DEF SpansCarried
<1> DEFINE name == <<g>> \o x.id
           a == Fresh(new, g, x.a)
           b == Fresh(new, g, x.b)
<1>2. x = [id |-> x.id, line |-> x.line, a |-> x.a, b |-> x.b]
  BY DEF AreSpans
<1>3. y = [x EXCEPT !.id = name, !.a = a, !.b = b]
  BY <1>1
<1> HIDE DEF name, a, b
<1>4. y.line = x.line /\ y.a = a /\ y.b = b
  BY <1>2, <1>3
<1>5. QED
  BY <1>4 DEF a, b

\* A place in a copy is no missing id.
LEMMA FreshNamed ==
  ASSUME NEW g, NEW l, NEW k, NEW i
  PROVE  <<g, l, k, i>> # NoId /\ <<g, l, k, i>>[2] = l
<1>1. Len(<<g, l, k, i>>) = 4
  OBVIOUS
<1>2. Len(NoId) # 4
  BY ScoreEditsAssumption
<1>3. QED
  BY <1>1, <1>2

\* What the spans of a paste are over: events of the paste, in their voice.
Carries(new, g, more) ==
  \A y \in more : \A id \in {y.a, y.b} :
    \E k, i : In(new, y.line, k, i) /\ id = <<g, y.line, k, i>>

LEMMA ClipCarries ==
  ASSUME NEW c, IsClip(c), IsBundle(c.new), Sung(c.new), AreSpans(c.spans), NEW g,
         NEW more, more = SpansCarried(c.new, c.spans, g)
  PROVE  Carries(c.new, g, more) /\ OverTheirVoices(more)
<1>1. Copied(c.new) /\ OverTheirVoices(c.spans)
      /\ \A x \in c.spans : Captures(c.new, x.a) # {} /\ Captures(c.new, x.b) # {}
  BY DEF IsClip, Copied
<1>2. ASSUME NEW y \in more
      PROVE  /\ \E k, i : In(c.new, y.line, k, i) /\ y.a = <<g, y.line, k, i>>
             /\ \E k, i : In(c.new, y.line, k, i) /\ y.b = <<g, y.line, k, i>>
  <2>1. PICK x \in c.spans :
          y.line = x.line /\ y.a = Fresh(c.new, g, x.a) /\ y.b = Fresh(c.new, g, x.b)
    BY CarriedAre
  <2>2. x.a # NoId /\ x.a[2] = y.line /\ Captures(c.new, x.a) # {}
    BY <1>1, <2>1 DEF OverTheirVoices
  <2>3. x.b # NoId /\ x.b[2] = y.line /\ Captures(c.new, x.b) # {}
    BY <1>1, <2>1 DEF OverTheirVoices
  <2>4. \E k, i : In(c.new, y.line, k, i) /\ y.a = <<g, y.line, k, i>>
    BY <1>1, <2>1, <2>2, FreshIs
  <2>5. \E k, i : In(c.new, y.line, k, i) /\ y.b = <<g, y.line, k, i>>
    BY <1>1, <2>1, <2>3, FreshIs
  <2>6. QED
    BY <2>4, <2>5
<1>3. OverTheirVoices(more)
  BY <1>2, FreshNamed DEF OverTheirVoices
<1>4. QED
  BY <1>2, <1>3 DEF Carries

\* The ends of the spans in more are there, in the voices there are.
Heard(s, more) ==
  \A y \in more : y.line \in DOMAIN s.lines => Places(s, y.a) # {} /\ Places(s, y.b) # {}

LEMMA CarriedHeard ==
  ASSUME NEW s, NEW m, NEW n, NEW h, Laid(s, m, n, h), NEW new, Copied(new), NEW g,
         NEW c, c = Cloned(new, g), NEW more, Carries(new, g, more),
         NEW a \in Nat, NEW b \in Nat, a <= b, b <= m, NEW next, NEW spans,
         Formed(s, a, c, b, next, spans)
  PROVE  Heard(next, more)
<1>1. Offered(c)
  BY ClonedOffered DEF Copied
<1>2. IsBundle(new) /\ Sung(new) /\ \A l \in DOMAIN new : Len(new[l]) = Len(new["p"])
  BY DEF Copied
<1>3. ASSUME NEW l \in DOMAIN next.lines, NEW k, NEW i, In(new, l, k, i)
      PROVE  Places(next, <<g, l, k, i>>) # {}
  <2>1. "p" \in DOMAIN s.lines /\ "p" \in DOMAIN new
    BY <1>2 DEF Laid, Matched, IsBundle
  <2>2. l \in DOMAIN s.lines
    BY <2>1, FormedIn
  <2>3. /\ l \in DOMAIN c /\ k \in DOMAIN c[l] /\ i \in DOMAIN c[l][k].events
        /\ c[l][k].events[i].id = <<g, l, k, i>>
    BY <1>2, <1>3, ClonedIds DEF In
  <2>4. Len(c[l]) = Len(c["p"])
    BY <1>2, <1>3, <2>1, ClonedIds DEF In
  <2>5. PICK j \in DOMAIN next.lines[l] : next.lines[l][j].events = c[l][k].events
    BY <1>1, <2>2, <2>3, <2>4, FormedNew
  <2>6. i \in DOMAIN next.lines[l][j].events /\ next.lines[l][j].events[i].id = <<g, l, k, i>>
    BY <2>3, <2>5
  <2>7. QED
    BY <2>6, PlacesAre
<1>4. QED
  BY <1>3 DEF Carries, Heard

-----------------------------------------------------------------------------
(* The spans after an edit of measures *)

SpanInv ==
  OfTheirVoices(score.lines) /\ OverTheirVoices(score.spans) /\ IsClip(clip)

LEMMA ReadableIs ==
  ASSUME NEW s, NEW m, NEW h, Whole(s, m, h), Timed(s.lines), OfTheirVoices(s.lines)
  PROVE  Readable(s)
<1>1. \A l \in DOMAIN s.lines : IsVoice(s.lines[l])
  BY VoicesAre
<1>2. \A l \in DOMAIN s.lines : Scored(s.lines[l])
  BY TimedSung DEF Sung
<1>3. QED
  BY <1>1, <1>2 DEF Readable

\* A step whose spans are those whose events stay and, of this edit, some more.
StepTrims ==
  /\ More /\ clip' = clip /\ OfTheirVoices(score'.lines)
  /\ \E more : /\ Trims(score, score', more)
               /\ Minted(more, Gen) /\ OverTheirVoices(more) /\ Heard(score', more)

LEMMA BecomesTrims ==
  ASSUME NEW next, NEW kind, Becomes(next, kind), OfTheirVoices(next.lines),
         NEW more, Trims(score, next, more),
         Minted(more, Gen), OverTheirVoices(more), Heard(next, more)
  PROVE  StepTrims
<1>1. More /\ clip' = clip /\ score' = next
  BY DEF Becomes
<1>2. QED
  BY <1>1 DEF StepTrims

LEMMA NoneMore == \A s, g : Minted({}, g) /\ OverTheirVoices({}) /\ Heard(s, {})
BY NoneMinted DEF OverTheirVoices, Heard

LEMMA NoneTrims ==
  ASSUME NEW next, NEW kind, Becomes(next, kind), OfTheirVoices(next.lines), Trims(score, next, {})
  PROVE  StepTrims
BY NoneMore, BecomesTrims

\* The edits that bring no span.
LEMMA GrowthTrimsNone ==
  ASSUME NEW s, NEW m, NEW h, Laid(s, m, m, h), OfTheirVoices(s.lines),
         NEW new, Offered(new), OfTheirVoices(new), NEW after \in 0 .. m, NEW next,
         Formed(s, after, new, after, next, s.spans)
  PROVE  Trims(s, next, {}) /\ OfTheirVoices(next.lines)
<1>1. after \in Nat /\ after <= m /\ after <= after
  BY DEF Laid
<1> DEFINE spans == s.spans \union {}
<1>2. spans = s.spans
  OBVIOUS
<1> HIDE DEF spans
<1>3. Formed(s, after, new, after, next, spans)
  BY <1>2
<1>4. Trims(s, next, {})
  BY <1>1, <1>3, GrowthTrims DEF spans
<1>5. OfTheirVoices(next.lines)
  BY <1>1, FormedOwned
<1>6. QED
  BY <1>4, <1>5

LEMMA CutTrimsNone ==
  ASSUME NEW s, NEW m, NEW h, Laid(s, m, m, h), Readable(s), OverTheirVoices(s.spans),
         NEW g, Distinct(s.lines["p"]), Older(s.lines["p"], g),
         NEW new, NEW how, NewBars(new, g, how), OfTheirVoices(new),
         NEW a \in 1 .. m, NEW b \in a .. m, NEW next, NEW more, NEW spans,
         spans = SpansOutside(s, a, b) \union more,
         Formed(s, a - 1, new, b, next, spans)
  PROVE  Trims(s, next, more) /\ OfTheirVoices(next.lines)
<1> DEFINE c == a - 1
<1>1. m \in Nat /\ c \in Nat /\ b \in Nat /\ c <= b /\ b <= m
  BY DEF Laid
<1>2. Offered(new) /\ MeasuresFor(new, "p") = new["p"]
  BY DEF NewBars, MeasuresFor, Offered, IsBundle
<1>3. \A i \in DOMAIN s.lines["p"] : \A j \in DOMAIN new["p"] :
        new["p"][j].uid # s.lines["p"][i].uid
  BY <1>2, NewUids
<1>4. Trims(s, next, more)
  BY <1>2, <1>3, CutTrims
<1> HIDE DEF c
<1>5. Formed(s, c, new, b, next, spans)
  BY DEF c
<1>6. OfTheirVoices(s.lines)
  BY DEF Readable
<1>7. OfTheirVoices(next.lines)
  BY <1>1, <1>2, <1>5, <1>6, FormedOwned
<1>8. QED
  BY <1>4, <1>7

LEMMA MoveOwned ==
  ASSUME NEW s, NEW m, NEW h, Laid(s, m, m, h), OfTheirVoices(s.lines),
         NEW a \in 1 .. m, NEW b \in a .. m,
         NEW next, NEW left, NEW c, NEW dest, MovedBy(s, h, a, b, next, left, c, dest)
  PROVE  OfTheirVoices(next.lines)
<1> DEFINE new == Captured(s, a, b)
           e == a - 1
<1>1. m \in Nat /\ e \in Nat /\ b \in Nat /\ e <= b /\ b <= m
  BY DEF Laid
<1>2. /\ Laid(left, c, c, h) /\ dest \in Nat /\ dest <= c /\ dest <= dest
      /\ Formed(s, e, Nothing, b, left, s.spans)
      /\ Formed(left, dest, new, dest, next, s.spans)
  BY DEF MovedBy
<1>3. Offered(new) /\ OfTheirVoices(new)
  BY CapturedIs, CapturedOwned
<1>4. Offered(Nothing) /\ OfTheirVoices(Nothing)
  BY NothingOffered, NothingOwned
<1> HIDE DEF new, e
<1>5. OfTheirVoices(left.lines)
  BY <1>1, <1>2, <1>4, FormedOwned
<1>6. QED
  BY <1>2, <1>3, <1>5, FormedOwned

LEMMA MeasuresTrim ==
  ASSUME ScoreInv, TimeInv, SpanInv, AddMeasure \/ Duplicate \/ Delete \/ Move
  PROVE  StepTrims
<1> DEFINE m == Count(score)
           o == score.lines["p"]
           S == score.spans
<1>1. /\ m \in Nat /\ edits \in Nat /\ Whole(score, m, edits) /\ Laid(score, m, m, edits)
      /\ \A r \in Stretches : r[1] \in 1 .. m /\ r[2] \in r[1] .. m
  BY Standings
<1>2. More
  BY DEF AddMeasure, Duplicate, Delete, Move, Becomes
<1>3. Distinct(o) /\ Older(o, Gen)
  BY <1>2, ScoreTurnable DEF Turnable
<1>a. Readable(score)
  BY <1>1, ReadableIs DEF TimeInv, SpanInv
<1>b. OfTheirVoices(score.lines) /\ OverTheirVoices(S)
  BY DEF SpanInv
<1>c. m \in 0 .. m
  BY <1>1
<1>4. CASE AddMeasure
  <2> DEFINE new == [l \in {"p"} |-> <<RestBar(<<Gen, 1>>)>>]
             next == Inserted(score, new, m)
  <2>1. Becomes(next, "bars")
    BY <1>4 DEF AddMeasure
  <2>2. Offered(new) /\ OfTheirVoices(new)
    BY RestOffered, RestOwned
  <2> HIDE DEF new, m
  <2>3. Formed(score, m, new, m, next, S)
    BY <1>1, <1>c, <2>2, InsertedFormed
  <2> HIDE DEF next
  <2>4. Trims(score, next, {}) /\ OfTheirVoices(next.lines)
    BY <1>1, <1>b, <1>c, <2>2, <2>3, GrowthTrimsNone
  <2>5. QED
    BY <2>1, <2>4, NoneTrims
<1> HIDE DEF m
<1>5. CASE Duplicate
  <2>1. PICK r \in Stretches, after \in 0 .. m :
          Becomes(DuplicateRange(score, r[1], r[2], after, Gen), "bars")
    BY <1>5 DEF Duplicate, m
  <2> DEFINE next == DuplicateRange(score, r[1], r[2], after, Gen)
             old == Captured(score, r[1], r[2])
             new == Cloned(old, Gen)
  <2>2. Formed(score, after, new, after, next, S)
    BY <1>1, DuplicateFormed
  <2>3. IsBundle(old) /\ DOMAIN old = DOMAIN score.lines
        /\ \A l \in DOMAIN score.lines : IsPart(score.lines[l], r[1], r[2], old[l])
    BY <1>1, CapturedIs
  <2> HIDE DEF next, old
  <2>4. Sung(old)
    <3>1. ASSUME NEW l \in DOMAIN old, NEW i \in DOMAIN old[l]
          PROVE  IsMusic(old[l][i].events)
      <4>1. IsVoice(score.lines[l]) /\ Scored(score.lines[l])
            /\ IsPart(score.lines[l], r[1], r[2], old[l])
        BY <1>a, <2>3 DEF Readable
      <4>2. PICK j \in DOMAIN score.lines[l] : old[l][i] = score.lines[l][j]
        BY <4>1, PartOf
      <4>3. QED
        BY <4>1, <4>2 DEF Scored
    <3>2. QED
      BY <3>1 DEF Sung, Scored
  <2>5. Offered(new) /\ OfTheirVoices(new)
    BY <2>3, <2>4, ClonedOffered, ClonedOwned
  <2> HIDE DEF new
  <2>6. Trims(score, next, {}) /\ OfTheirVoices(next.lines)
    BY <1>1, <1>b, <2>2, <2>5, GrowthTrimsNone
  <2>7. QED
    BY <2>1, <2>6, NoneTrims DEF next
<1>6. CASE Delete
  <2>1. PICK r \in Stretches : Becomes(DeleteRange(score, r[1], r[2]), "bars")
    BY <1>6 DEF Delete
  <2> DEFINE a == r[1]
             b == r[2]
             next == DeleteRange(score, a, b)
             spans == SpansOutside(score, a, b) \union {}
  <2>2. a \in 1 .. m /\ b \in a .. m
    BY <1>1
  <2>3. spans = SpansOutside(score, a, b)
    OBVIOUS
  <2> HIDE DEF a, b
  <2>4. Formed(score, a - 1, Nothing, b, next, SpansOutside(score, a, b))
    BY <1>1, <2>2, DeleteFormed
  <2>5. Formed(score, a - 1, Nothing, b, next, spans)
    BY <2>3, <2>4
  <2> HIDE DEF next
  <2>6. NewBars(Nothing, Gen, "any") /\ OfTheirVoices(Nothing)
    BY NothingNew, NothingOwned
  <2>7. Trims(score, next, {}) /\ OfTheirVoices(next.lines)
    BY <1>1, <1>3, <1>a, <1>b, <2>2, <2>5, <2>6, CutTrimsNone
  <2>8. QED
    BY <2>1, <2>7, NoneTrims DEF next, a, b
<1>7. CASE Move
  <2>1. PICK r \in Stretches, after \in 0 .. m :
          after \notin (r[1] - 1)..r[2] /\ Becomes(MoveRange(score, r[1], r[2], after), "move")
    BY <1>7 DEF Move, m
  <2> DEFINE a == r[1]
             b == r[2]
             next == MoveRange(score, a, b, after)
  <2>2. a \in 1 .. m /\ b \in a .. m /\ after \notin (a - 1) .. b
    BY <1>1, <2>1
  <2> HIDE DEF a, b
  <2>3. PICK left, c, dest : MovedBy(score, edits, a, b, next, left, c, dest)
    BY <1>1, <2>2, MoveFormed
  <2> HIDE DEF next
  <2>4. Trims(score, next, {})
    BY <1>1, <2>2, <2>3, MoveTrims
  <2>5. OfTheirVoices(next.lines)
    BY <1>1, <1>b, <2>2, <2>3, MoveOwned
  <2>6. QED
    BY <2>1, <2>4, <2>5, NoneTrims DEF next, a, b
<1>8. QED
  BY <1>4, <1>5, <1>6, <1>7

LEMMA PastesTrim ==
  ASSUME ScoreInv, TimeInv, SpanInv, PasteAfter \/ PasteOver
  PROVE  StepTrims
<1> DEFINE m == Count(score)
           o == score.lines["p"]
           S == score.spans
           old == clip.new
           new == Cloned(old, Gen)
           more == SpansCarried(old, clip.spans, Gen)
<1>1. /\ m \in Nat /\ Laid(score, m, m, edits) /\ Whole(score, m, edits)
      /\ \A r \in Stretches : r[1] \in 1 .. m /\ r[2] \in r[1] .. m
  BY Standings
<1>2. More
  BY DEF PasteAfter, PasteOver, Becomes
<1>3. Distinct(o) /\ Older(o, Gen)
  BY <1>2, ScoreTurnable DEF Turnable
<1>4. NewBars(new, Gen, Brings)
  BY HadFits, ClonedNew DEF ScoreInv, ClipStands
<1>a. Readable(score)
  BY <1>1, ReadableIs DEF TimeInv, SpanInv
<1>b. OfTheirVoices(score.lines) /\ OverTheirVoices(S)
  BY DEF SpanInv
<1>5. Copied(old) /\ IsBundle(old) /\ Sung(old)
  BY TimedSung DEF SpanInv, IsClip, Copied, TimeInv, ScoreInv, ClipStands
<1>6. Carries(old, Gen, more) /\ OverTheirVoices(more)
  BY <1>5, ClipCarries DEF SpanInv, ScoreInv, ClipStands
<1>7. Minted(more, Gen)
  BY CarriedMinted DEF ScoreInv, ClipStands
<1>8. OfTheirVoices(new) /\ Offered(new)
  BY <1>4, <1>5, ClonedOwned DEF NewBars
<1>9. new = Cloned(old, Gen)
  OBVIOUS
<1> HIDE DEF m, new, more, old
<1>10. CASE PasteAfter
  <2>1. PICK after \in Bars(score) :
          Becomes(InsertMeasuresAfter(score, new, more, after), "paste")
    BY <1>10 DEF PasteAfter, new, more, old
  <2>2. after \in 0 .. m /\ after \in Nat /\ after <= m /\ after <= after
    BY <1>1, <2>1 DEF Bars, m
  <2> DEFINE next == InsertMeasuresAfter(score, new, more, after)
             spans == S \union more
  <2>3. Formed(score, after, new, after, next, spans)
    BY <1>1, <1>8, <2>2, InsertFormed
  <2> HIDE DEF next
  <2>4. Trims(score, next, more)
    BY <1>1, <1>8, <2>2, <2>3, GrowthTrims
  <2> HIDE DEF spans
  <2>5. OfTheirVoices(next.lines)
    BY <1>1, <1>8, <1>b, <2>2, <2>3, FormedOwned
  <2>6. Heard(next, more)
    BY <1>1, <1>5, <1>6, <1>9, <2>2, <2>3, CarriedHeard
  <2>7. QED
    BY <1>6, <1>7, <2>1, <2>4, <2>5, <2>6, BecomesTrims DEF next
<1>11. CASE PasteOver
  <2>1. PICK r \in Stretches : Becomes(RegionReplace(score, r[1], r[2], new, more), "paste")
    BY <1>11 DEF PasteOver, new, more, old
  <2> DEFINE a == r[1]
             b == r[2]
             c == a - 1
             next == RegionReplace(score, a, b, new, more)
             spans == SpansOutside(score, a, b) \union more
  <2>2. a \in 1 .. m /\ b \in a .. m
    BY <1>1
  <2>3. c \in Nat /\ b \in Nat /\ c <= b /\ b <= m
    BY <1>1, <2>2
  <2> HIDE DEF a, b
  <2>4. Formed(score, a - 1, new, b, next, spans) /\ spans = SpansOutside(score, a, b) \union more
    BY <1>1, <1>8, <2>2, RegionFormed
  <2> HIDE DEF next, spans
  <2>5. Trims(score, next, more) /\ OfTheirVoices(next.lines)
    BY <1>1, <1>3, <1>4, <1>8, <1>a, <1>b, <2>2, <2>4, CutTrimsNone
  <2> HIDE DEF c
  <2>6. Formed(score, c, new, b, next, spans)
    BY <2>4 DEF c
  <2>7. Heard(next, more)
    BY <1>1, <1>5, <1>6, <1>9, <2>3, <2>6, CarriedHeard
  <2>8. QED
    BY <1>6, <1>7, <2>1, <2>5, <2>7, BecomesTrims DEF next, a, b
<1>12. QED
  BY <1>10, <1>11

LEMMA AnsweredTrims ==
  ASSUME ScoreInv, TimeInv, NEW next, Answered(next), NEW n, NEW h, Whole(next, n, h),
         Turned(score.lines, next.lines, Gen, "any"),
         Trims(score, next, {}), OfTheirVoices(next.lines)
  PROVE  StepTrims
<1>1. PICK shown \in BOOLEAN : Becomes(IF shown THEN Backfilled(next) ELSE next, "model")
  BY DEF Answered
<1> DEFINE filled == Backfilled(next)
<1>2. Sung(next.lines)
  <2>1. Sung(score.lines)
    BY TimedSung DEF TimeInv
  <2>2. QED
    BY <2>1, TurnedFollows, FollowsTimed
<1>3. /\ OfTheirVoices(filled.lines) /\ DOMAIN filled.lines = DOMAIN next.lines
      /\ filled.spans = next.spans /\ SameBars(next.lines["p"], filled.lines["p"])
  BY <1>2, BackfilledIs
<1> HIDE DEF filled
<1>4. Trims(score, filled, {})
  BY <1>3, TrimsOn
<1>5. Becomes(next, "model") \/ Becomes(filled, "model")
  BY <1>1 DEF filled
<1>6. QED
  BY <1>3, <1>4, <1>5, NoneTrims

LEMMA AnswersTrim ==
  ASSUME ScoreInv, TimeInv, SpanInv, ExtendComposition \/ InsertMeasures \/ ReplaceRegion
  PROVE  StepTrims
<1> DEFINE m == Count(score)
           o == score.lines
           S == score.spans
<1>1. /\ m \in Nat /\ edits \in Nat /\ Laid(score, m, m, edits) /\ Whole(score, m, edits)
      /\ \A r \in Stretches : r[1] \in 1 .. m /\ r[2] \in r[1] .. m
  BY Standings
<1>2. More /\ edits < MaxEdits
  BY DEF ExtendComposition, InsertMeasures, ReplaceRegion, Answered, More
<1>3. Turnable(o, Gen)
  BY <1>2, ScoreTurnable
<1>a. Readable(score) /\ Distinct(o["p"]) /\ Older(o["p"], Gen)
  BY <1>1, <1>3, ReadableIs DEF TimeInv, SpanInv, Turnable
<1>b. OfTheirVoices(o) /\ OverTheirVoices(S)
  BY DEF SpanInv
<1>c. m \in 0 .. m /\ S \union {} = S
  BY <1>1
<1> HIDE DEF m
<1>4. CASE ExtendComposition
  <2>1. PICK content \in Contents : Answered(AppendMeasures(score, Answer(content)))
    BY <1>4 DEF ExtendComposition
  <2> DEFINE new == Answer(content)
             next == AppendMeasures(score, new)
  <2>2. NewBars(new, Gen, "any") /\ Offered(new) /\ OfTheirVoices(new)
    BY AnswerNew, AnswerOwned DEF NewBars
  <2> HIDE DEF new
  <2>3. PICK n : Whole(next, n, edits)
    BY <1>1, <2>2, AppendedWhole
  <2>4. Turned(o, next.lines, Gen, "any")
    BY <1>1, <1>3, <2>2, AppendTurned
  <2>5. Formed(score, m, new, m, next, S)
    BY <1>1, <2>2, AppendFormed
  <2> HIDE DEF next
  <2>6. Trims(score, next, {}) /\ OfTheirVoices(next.lines)
    BY <1>1, <1>b, <1>c, <2>2, <2>5, GrowthTrimsNone
  <2>7. QED
    BY <2>1, <2>3, <2>4, <2>6, AnsweredTrims DEF next, new
<1>5. CASE InsertMeasures
  <2>1. PICK content \in Contents, after \in 0 .. m :
          Answered(InsertMeasuresAfter(score, Answer(content), {}, after))
    BY <1>5 DEF InsertMeasures, m
  <2> DEFINE new == Answer(content)
             next == InsertMeasuresAfter(score, new, {}, after)
  <2>2. NewBars(new, Gen, "any") /\ Offered(new) /\ OfTheirVoices(new)
    BY AnswerNew, AnswerOwned DEF NewBars
  <2> HIDE DEF new
  <2>3. PICK n : Whole(next, n, edits + 1)
    BY <1>1, <1>2, <2>2, NoneMinted, InsertLaid
  <2>4. Turned(o, next.lines, Gen, "any")
    BY <1>1, <1>3, <2>2, InsertTurned
  <2>5. Formed(score, after, new, after, next, S \union {})
    BY <1>1, <2>2, InsertFormed
  <2> HIDE DEF next
  <2>6. Formed(score, after, new, after, next, S)
    BY <1>c, <2>5
  <2>7. Trims(score, next, {}) /\ OfTheirVoices(next.lines)
    BY <1>1, <1>b, <2>2, <2>6, GrowthTrimsNone
  <2>8. QED
    BY <2>1, <2>3, <2>4, <2>7, AnsweredTrims DEF next, new
<1>6. CASE ReplaceRegion
  <2>1. PICK content \in Contents, r \in Stretches :
          Answered(RegionReplace(score, r[1], r[2], Answer(content), {}))
    BY <1>6 DEF ReplaceRegion
  <2> DEFINE new == Answer(content)
             a == r[1]
             b == r[2]
             next == RegionReplace(score, a, b, new, {})
             spans == SpansOutside(score, a, b) \union {}
  <2>2. NewBars(new, Gen, "any") /\ Offered(new) /\ OfTheirVoices(new)
    BY AnswerNew, AnswerOwned DEF NewBars
  <2> HIDE DEF new
  <2>3. a \in 1 .. m /\ b \in a .. m
    BY <1>1
  <2> HIDE DEF a, b
  <2>4. PICK n : Whole(next, n, edits + 1)
    BY <1>1, <1>2, <2>2, <2>3, NoneMinted, RegionLaid
  <2>5. Turned(o, next.lines, Gen, "any")
    BY <1>1, <1>3, <2>2, <2>3, RegionTurned
  <2>6. Formed(score, a - 1, new, b, next, spans) /\ spans = SpansOutside(score, a, b) \union {}
    BY <1>1, <2>2, <2>3, RegionFormed
  <2> HIDE DEF next, spans
  <2>7. Trims(score, next, {}) /\ OfTheirVoices(next.lines)
    BY <1>1, <1>a, <1>b, <2>2, <2>3, <2>6, CutTrimsNone
  <2>8. QED
    BY <2>1, <2>4, <2>5, <2>7, AnsweredTrims DEF next, new, a, b
<1>7. QED
  BY <1>4, <1>5, <1>6

-----------------------------------------------------------------------------
(* Spans stay on their events *)

LEMMA BarsMatch ==
  ASSUME NEW s, NEW m, NEW h, Whole(s, m, h)
  PROVE  /\ "p" \in DOMAIN s.lines /\ Bars(s) = DOMAIN s.lines["p"]
         /\ \A l \in DOMAIN s.lines :
              /\ DOMAIN s.lines[l] = Bars(s)
              /\ \A k \in Bars(s) : s.lines[l][k].uid = UidOf(s, k)
<1>1. /\ "p" \in DOMAIN s.lines /\ Len(s.lines["p"]) = m
      /\ \A l \in DOMAIN s.lines :
           /\ IsVoice(s.lines[l]) /\ Len(s.lines[l]) = m
           /\ \A k \in 1 .. m : s.lines[l][k].uid = s.lines["p"][k].uid
  BY DEF Whole, Laid, Matched, IsBundle
<1>2. \A l \in DOMAIN s.lines : DOMAIN s.lines[l] = 1 .. m
  BY <1>1, VoiceFacts
<1>3. Bars(s) = 1 .. m
  BY <1>1 DEF Bars, Count
<1>4. QED
  BY <1>1, <1>2, <1>3 DEF UidOf

\* An event in a measure that stays is there after the step.
LEMMA PlaceStays ==
  ASSUME ScoreInv, TimeInv, ScoreInv', NEW how, StepFollows(how),
         DOMAIN score'.lines = DOMAIN score.lines,
         NEW id, id # NoId, NEW p \in Places(score, id),
         ~Gone(score.lines["p"], score'.lines["p"], p[2])
  PROVE  Places(score', id) # {}
<1> DEFINE l == p[1]
           m == p[2]
           i == p[3]
           q == score.lines[l]
           w == score'.lines[l]
<1>1. l \in DOMAIN score.lines /\ m \in DOMAIN q /\ i \in DOMAIN q[m].events /\ q[m].events[i].id = id
  BY PlacesAre
<1>2. /\ Bars(score) = DOMAIN score.lines["p"] /\ DOMAIN q = Bars(score)
      /\ \A k \in Bars(score) : q[k].uid = UidOf(score, k)
  BY <1>1, BarsAre
<1>3. /\ Bars(score') = DOMAIN score'.lines["p"] /\ DOMAIN w = Bars(score')
      /\ \A k \in Bars(score') : w[k].uid = UidOf(score', k)
  <2>1. Whole(score', Count(score'), edits')
    BY DEF ScoreInv
  <2>2. l \in DOMAIN score'.lines
    BY <1>1
  <2>3. QED
    BY <2>1, <2>2, BarsMatch
<1>4. PICK n \in DOMAIN score'.lines["p"] : score'.lines["p"][n].uid = score.lines["p"][m].uid
  BY DEF Gone
<1>5. n \in DOMAIN w /\ w[n].uid = UidOf(score, m) /\ m \in Bars(score)
  BY <1>1, <1>2, <1>3, <1>4 DEF UidOf
<1>6. Came(q, w, Gen, how)
  BY <1>1 DEF StepFollows, Follows
<1> HIDE DEF l, m, i, q, w
<1>7. Has(q, w[n]) \/ NewBar(w[n], Gen, how)
  BY <1>5, <1>6 DEF Came
<1>8. ~NewBar(w[n], Gen, how)
  <2>1. Gen \in edits + 1 .. MaxEdits
    BY ScoreTurnable DEF StepFollows
  <2>2. w[n].uid[1] # Gen
    BY <1>5, <2>1 DEF TimeInv, Apart
  <2>3. QED
    BY <2>2 DEF NewBar
<1>9. PICK k \in DOMAIN q : q[k].uid = w[n].uid /\ Continues(q[k].events, w[n].events)
  BY <1>7, <1>8 DEF Has
<1>10. k = m
  BY <1>2, <1>5, <1>9 DEF TimeInv, Apart
<1> DEFINE x == q[m].events
           y == w[n].events
<1>11. Continues(x, y) /\ i \in DOMAIN x /\ x[i].id = id
  BY <1>1, <1>9, <1>10 DEF q, m, i, l
<1>12. IsMusic(x)
  BY <1>1 DEF TimeInv, Timed, InTime, q, l, m
<1> HIDE DEF x, y
<1>13. DOMAIN x = 1 .. Len(x) /\ IsSequence(y) /\ Len(y) = Len(x)
  BY <1>11, <1>12, MusicIs DEF Continues, Alike
<1>14. DOMAIN y = 1 .. Len(y)
  BY <1>13 DEF IsSequence
<1>15. i \in DOMAIN y /\ y[i].id = id
  BY <1>11, <1>13, <1>14 DEF Continues
<1>16. l \in DOMAIN score'.lines /\ n \in DOMAIN score'.lines[l]
       /\ i \in DOMAIN score'.lines[l][n].events /\ score'.lines[l][n].events[i].id = id
  BY <1>1, <1>5, <1>15 DEF w, y
<1>17. <<l, n, i>> \in Places(score', id)
  BY <1>16, PlacesAre
<1>18. QED
  BY <1>17

\* What the edits of measures and entries never do to a span.
StaysAnchored ==
  /\ \A x \in score.spans, y \in score'.spans :
       x.id = y.id /\ Anchored(score, x) => Anchored(score', y)
  /\ \A y \in score'.spans :
       y.id \notin IdsOf(score.spans) /\ y.line \in Voices(score') => Anchored(score', y)
  /\ \A x \in score.spans :
       Anchored(score, x) /\ EndsStay(x) /\ last' # "entry" => x.id \in IdsOf(score'.spans)

LEMMA OverIs ==
  ASSUME NEW spans, OverTheirVoices(spans), NEW x \in spans
  PROVE  SpanOver(x)
BY DEF OverTheirVoices, SpanOver

LEMMA TrimsHold ==
  ASSUME SpanInv, StepTrims
  PROVE  SpanInv'
<1>1. PICK more : Trims(score, score', more) /\ OverTheirVoices(more)
  BY DEF StepTrims
<1>2. \A y \in score'.spans : y \in more \/ y \in score.spans
  BY <1>1 DEF Trims
<1>3. OverTheirVoices(score'.spans)
  BY <1>1, <1>2 DEF SpanInv, OverTheirVoices
<1>4. QED
  BY <1>3 DEF SpanInv, StepTrims

LEMMA TrimsAnchor ==
  ASSUME ScoreInv, TimeInv, SpanInv, ScoreInv', TimeInv', SpanInv',
         NEW how, StepFollows(how), StepTrims
  PROVE  StaysAnchored
<1>1. PICK more : /\ Trims(score, score', more)
                  /\ Minted(more, Gen) /\ OverTheirVoices(more) /\ Heard(score', more)
  BY DEF StepTrims
<1>2. Readable(score')
  <2>1. Whole(score', Count(score'), edits')
    BY DEF ScoreInv
  <2>2. Timed(score'.lines) /\ OfTheirVoices(score'.lines)
    BY DEF TimeInv, SpanInv
  <2>3. QED
    BY <2>1, <2>2, ReadableIs
<1>3. ASSUME NEW y \in score'.spans
      PROVE  /\ SpanOver(y)
             /\ Anchored(score', y) <=> Places(score', y.a) # {} /\ Places(score', y.b) # {}
  <2>1. SpanOver(y)
    BY OverIs DEF SpanInv
  <2>2. QED
    BY <1>2, <2>1, AnchoredIs
<1>4. DOMAIN score'.lines = DOMAIN score.lines
  BY <1>1 DEF Trims
<1>5. ASSUME NEW x \in score.spans, NEW y \in more
      PROVE  x.id # y.id
  <2>1. Gen \in edits + 1 .. MaxEdits
    BY ScoreTurnable DEF StepFollows
  <2>2. x.id[1] \notin (edits + 1) .. MaxEdits
    BY DEF ScoreInv, Whole, Laid, Standing, Unspent
  <2>3. y.id[1] = Gen
    BY <1>1 DEF Minted
  <2>4. QED
    BY <2>1, <2>2, <2>3
<1>6. Unique(score.spans)
  BY DEF ScoreInv, Whole, Laid, Standing, Placed
<1>7. ASSUME NEW x \in score.spans, NEW y \in score'.spans, x.id = y.id, Anchored(score, x)
      PROVE  Anchored(score', y)
  <2>1. y \in score.spans /\ y = x
    BY <1>1, <1>5, <1>6, <1>7 DEF Trims, Unique
  <2>2. y \notin more
    BY <1>5, <2>1
  <2>3. Outlives(score, score', y.a) /\ Outlives(score, score', y.b)
    BY <1>1, <1>7, <2>1, <2>2 DEF Trims
  <2>4. y.a # NoId /\ y.b # NoId
    BY <1>3 DEF SpanOver
  <2>5. Places(score', y.a) # {} /\ Places(score', y.b) # {}
    BY <1>4, <2>3, <2>4, PlaceStays DEF Outlives
  <2>6. QED
    BY <1>3, <2>5
<1>8. ASSUME NEW y \in score'.spans, y.id \notin IdsOf(score.spans), y.line \in Voices(score')
      PROVE  Anchored(score', y)
  <2>1. y \in more
    BY <1>1, <1>8 DEF Trims, IdsOf
  <2>2. Places(score', y.a) # {} /\ Places(score', y.b) # {}
    BY <1>1, <1>8, <2>1 DEF Heard, Voices
  <2>3. QED
    BY <1>3, <2>2
<1>9. ASSUME NEW x \in score.spans, Anchored(score, x), EndsStay(x)
      PROVE  x.id \in IdsOf(score'.spans)
  <2>1. \A k : Stays(k) => ~Gone(score.lines["p"], score'.lines["p"], k)
    <3>1. Bars(score') = DOMAIN score'.lines["p"]
      <4>1. Whole(score', Count(score'), edits')
        BY DEF ScoreInv
      <4>2. QED
        BY <4>1, BarsMatch
    <3>2. QED
      BY <3>1 DEF Stays, Uids, UidOf, Gone
  <2>2. Unhurt(score, score', x.a) /\ Unhurt(score, score', x.b)
    BY <1>9, <2>1 DEF EndsStay, Unhurt
  <2>3. x \in score'.spans
    BY <1>1, <1>9, <2>2 DEF Trims
  <2>4. QED
    BY <2>3 DEF IdsOf
<1>10. QED
  BY <1>7, <1>8, <1>9 DEF StaysAnchored

-----------------------------------------------------------------------------
(* The spans after an edit of entries *)

LEMMA PlacesOfLines ==
  ASSUME NEW s, NEW t, t.lines = s.lines, NEW id
  PROVE  Places(t, id) = Places(s, id)
<1>1. \A p : p \in Places(t, id) => p \in Places(s, id)
  BY PlacesAre
<1>2. \A p : p \in Places(s, id) => p \in Places(t, id)
  BY PlacesAre
<1>3. QED
  BY <1>1, <1>2

\* Every span was there or is put over events that are.
Patched ==
  \A y \in score'.spans :
    y \in score.spans \/ (SpanOver(y) /\ Places(score, y.a) # {} /\ Places(score, y.b) # {})

StepPuts ==
  /\ score'.lines = score.lines /\ Patched
  /\ last' = "entry" \/ score'.spans = score.spans

LEMMA PutsAnchor ==
  ASSUME ScoreInv, TimeInv, SpanInv, SpanInv', StepPuts
  PROVE  StaysAnchored
<1>1. Readable(score)
  <2>1. Whole(score, Count(score), edits)
    BY DEF ScoreInv
  <2>2. QED
    BY <2>1, ReadableIs DEF TimeInv, SpanInv
<1>2. Readable(score')
  BY <1>1 DEF StepPuts, Readable
<1>3. \A id : Places(score', id) = Places(score, id)
  BY PlacesOfLines DEF StepPuts
<1>4. ASSUME NEW y \in score'.spans
      PROVE  Anchored(score', y) <=> Places(score, y.a) # {} /\ Places(score, y.b) # {}
  <2>1. SpanOver(y)
    BY OverIs DEF SpanInv
  <2>2. Anchored(score', y) <=> Places(score', y.a) # {} /\ Places(score', y.b) # {}
    BY <1>2, <2>1, AnchoredIs
  <2>3. QED
    BY <1>3, <2>2
<1>5. ASSUME NEW x \in score.spans
      PROVE  Anchored(score, x) => Places(score, x.a) # {} /\ Places(score, x.b) # {}
  BY DEF Anchored
<1>6. Unique(score.spans)
  BY DEF ScoreInv, Whole, Laid, Standing, Placed
<1>7. ASSUME NEW x \in score.spans, NEW y \in score'.spans, x.id = y.id, Anchored(score, x)
      PROVE  Anchored(score', y)
  <2>1. CASE y \in score.spans
    BY <1>4, <1>5, <1>6, <1>7, <2>1 DEF Unique
  <2>2. CASE y \notin score.spans
    BY <1>4, <2>2 DEF StepPuts, Patched
  <2>3. QED
    BY <2>1, <2>2
<1>8. ASSUME NEW y \in score'.spans, y.id \notin IdsOf(score.spans)
      PROVE  Anchored(score', y)
  <2>1. y \notin score.spans
    BY <1>8 DEF IdsOf
  <2>2. QED
    BY <1>4, <2>1 DEF StepPuts, Patched
<1>9. ASSUME NEW x \in score.spans, last' # "entry"
      PROVE  x.id \in IdsOf(score'.spans)
  BY <1>9 DEF StepPuts, IdsOf
<1>10. QED
  BY <1>7, <1>8, <1>9 DEF StaysAnchored

LEMMA PutsHold ==
  ASSUME SpanInv, StepPuts, clip' = clip
  PROVE  SpanInv'
<1>1. OverTheirVoices(score'.spans)
  BY DEF SpanInv, StepPuts, Patched, OverTheirVoices, SpanOver
<1>2. QED
  BY <1>1 DEF SpanInv, StepPuts

LEMMA FieldPuts ==
  ASSUME ScoreInv, NEW field \in {"points", "ranges", "jumps"}, NEW x,
         Becomes([score EXCEPT ![field] = x], "entry")
  PROVE  StepPuts /\ clip' = clip
<1>1. HasFields(score)
  BY Standings DEF Laid
<1>2. [score EXCEPT ![field] = x].lines = score.lines
      /\ [score EXCEPT ![field] = x].spans = score.spans
  BY <1>1 DEF HasFields
<1>3. QED
  BY <1>2 DEF Becomes, StepPuts, Patched

LEMMA EntryPuts ==
  ASSUME ScoreInv, NEW field \in {"points", "ranges", "jumps"}
  PROVE  /\ \A e : Put(field, e) => StepPuts /\ clip' = clip
         /\ \A kinds : Drop(field, kinds) => StepPuts /\ clip' = clip
         /\ \A x, y : Change(field, x, y) => StepPuts /\ clip' = clip
BY FieldPuts DEF Put, Drop, Change

LEMMA SpansPuts ==
  ASSUME ScoreInv, NEW spans, Becomes([score EXCEPT !["spans"] = spans], "entry"),
         \A y \in spans :
           y \in score.spans \/ (SpanOver(y) /\ Places(score, y.a) # {} /\ Places(score, y.b) # {})
  PROVE  StepPuts /\ clip' = clip
<1>1. HasFields(score)
  BY Standings DEF Laid
<1>2. [score EXCEPT !["spans"] = spans].lines = score.lines
      /\ [score EXCEPT !["spans"] = spans].spans = spans
  BY <1>1 DEF HasFields
<1>3. score'.lines = score.lines /\ score'.spans = spans /\ clip' = clip /\ last' = "entry"
  BY <1>2 DEF Becomes
<1>4. QED
  BY <1>3 DEF StepPuts, Patched

LEMMA EventThere ==
  ASSUME NEW s, NEW id \in EventIds(s)
  PROVE  id # NoId /\ Places(s, id) # {}
<1> DEFINE of(l) == {s.lines[l][x[1]].events[x[2]].id : x \in Spots(s.lines[l])}
           all == UNION {of(l) : l \in Voices(s)}
<1>e. id \in all \ {NoId}
  BY DEF EventIds
<1> HIDE DEF all
<1>1. id # NoId /\ id \in all
  BY <1>e
<1> HIDE DEF of
<1>2. PICK l \in Voices(s) : id \in of(l)
  BY <1>1 DEF all
<1> USE DEF of
<1>3. PICK x \in Spots(s.lines[l]) : id = s.lines[l][x[1]].events[x[2]].id
  BY <1>2
<1>4. x[1] \in DOMAIN s.lines[l] /\ x[2] \in DOMAIN s.lines[l][x[1]].events
  BY <1>3 DEF Spots
<1>5. <<l, x[1], x[2]>> \in Places(s, id)
  BY <1>3, <1>4, PlacesAre DEF Voices
<1>6. QED
  BY <1>1, <1>5

LEMMA EndsOver ==
  ASSUME ScoreInv, TimeInv, SpanInv, NEW a \in EventIds(score), NEW b \in EventIds(score), Ends(a, b),
         NEW y, y.line = FirstPlace(score, a)[1], y.a = a, y.b = b
  PROVE  SpanOver(y) /\ Places(score, y.a) # {} /\ Places(score, y.b) # {}
<1>1. Readable(score)
  <2>1. Whole(score, Count(score), edits)
    BY DEF ScoreInv
  <2>2. QED
    BY <2>1, ReadableIs DEF TimeInv, SpanInv
<1>2. a # NoId /\ Places(score, a) # {} /\ b # NoId /\ Places(score, b) # {}
  BY EventThere
<1>3. FirstPlace(score, a)[1] = a[2]
  BY <1>1, <1>2, Found
<1>4. FirstPlace(score, b)[1] = b[2]
  BY <1>1, <1>2, Found
<1>5. FirstPlace(score, a)[1] = FirstPlace(score, b)[1]
  BY DEF Ends
<1>6. QED
  BY <1>2, <1>3, <1>4, <1>5 DEF SpanOver

LEMMA EntriesPut ==
  ASSUME ScoreInv, TimeInv, SpanInv,
         \/ AddTechnique \/ RemoveTechnique
         \/ AddMarker \/ RemoveMarker \/ UpdateMarker
         \/ AddAnnotation \/ RemoveAnnotation \/ UpdateAnnotation
         \/ AddVolta \/ RemoveVolta \/ UpdateVolta
         \/ AddJump \/ RemoveJump \/ UpdateJump
         \/ AddSpan \/ RemoveSpan \/ UpdateSpan
  PROVE  StepPuts /\ clip' = clip
<1>1. ASSUME NEW field \in {"points", "ranges", "jumps"}
      PROVE  /\ \A e : Put(field, e) => StepPuts /\ clip' = clip
             /\ \A kinds : Drop(field, kinds) => StepPuts /\ clip' = clip
             /\ \A x, y : Change(field, x, y) => StepPuts /\ clip' = clip
  BY EntryPuts
<1>2. CASE AddTechnique \/ RemoveTechnique \/ AddMarker \/ RemoveMarker \/ UpdateMarker
  BY <1>1, <1>2 DEF AddTechnique, RemoveTechnique, AddMarker, RemoveMarker, UpdateMarker
<1>3. CASE AddAnnotation \/ RemoveAnnotation \/ UpdateAnnotation
  BY <1>1, <1>3 DEF AddAnnotation, RemoveAnnotation, UpdateAnnotation, AddRange, UpdateRange
<1>4. CASE AddVolta \/ RemoveVolta \/ UpdateVolta
  BY <1>1, <1>4 DEF AddVolta, RemoveVolta, UpdateVolta, AddRange, UpdateRange
<1>5. CASE AddJump \/ UpdateJump
  BY <1>1, <1>5 DEF AddJump, UpdateJump
<1>6. CASE RemoveJump
  <2>1. PICK j \in score.jumps :
          Becomes([score EXCEPT !.jumps =
                    {[k EXCEPT !.tocoda = IF @ = j.id THEN 0 ELSE @] : k \in @ \ {j}}], "entry")
    BY <1>6 DEF RemoveJump
  <2> DEFINE J == {[k EXCEPT !.tocoda = IF @ = j.id THEN 0 ELSE @] : k \in score.jumps \ {j}}
  <2>2. Becomes([score EXCEPT !["jumps"] = J], "entry")
    BY <2>1
  <2> HIDE DEF J
  <2>3. QED
    BY <2>2, FieldPuts
<1>7. CASE AddSpan
  <2>1. PICK a \in EventIds(score), b \in EventIds(score) :
          Ends(a, b) /\
          Put("spans", [id |-> <<Gen>>, line |-> FirstPlace(score, a)[1], a |-> a, b |-> b])
    BY <1>7 DEF AddSpan
  <2> DEFINE line == FirstPlace(score, a)[1]
             y == [id |-> <<Gen>>, line |-> line, a |-> a, b |-> b]
             spans == score.spans \union {y}
  <2>2. Becomes([score EXCEPT !["spans"] = spans], "entry")
    BY <2>1 DEF Put
  <2>3. y.line = line /\ y.a = a /\ y.b = b
    OBVIOUS
  <2> HIDE DEF y
  <2>4. SpanOver(y) /\ Places(score, y.a) # {} /\ Places(score, y.b) # {}
    BY <2>1, <2>3, EndsOver
  <2>5. \A z \in spans :
          z \in score.spans \/ (SpanOver(z) /\ Places(score, z.a) # {} /\ Places(score, z.b) # {})
    BY <2>4
  <2> HIDE DEF spans
  <2>6. QED
    BY <2>2, <2>5, SpansPuts
<1>8. CASE RemoveSpan
  <2>1. PICK x : Becomes([score EXCEPT !.spans = @ \ {x}], "entry")
    BY <1>8 DEF RemoveSpan
  <2> DEFINE spans == score.spans \ {x}
  <2>2. Becomes([score EXCEPT !["spans"] = spans], "entry")
    BY <2>1, Fitting, FieldsPut
  <2>3. \A z \in spans : z \in score.spans
    OBVIOUS
  <2> HIDE DEF spans
  <2>4. QED
    BY <2>2, <2>3, SpansPuts
<1>9. CASE UpdateSpan
  <2>1. PICK x \in score.spans, a \in EventIds(score), b \in EventIds(score) :
          Ends(a, b) /\
          Change("spans", x, [x EXCEPT !.line = FirstPlace(score, a)[1], !.a = a, !.b = b])
    BY <1>9 DEF UpdateSpan
  <2> DEFINE line == FirstPlace(score, a)[1]
             y == [x EXCEPT !.line = line, !.a = a, !.b = b]
             spans == (score.spans \ {x}) \union {y}
  <2>2. Becomes([score EXCEPT !["spans"] = spans], "entry")
    BY <2>1 DEF Change
  <2>3. x = [id |-> x.id, line |-> x.line, a |-> x.a, b |-> x.b]
    BY Fitting DEF EntriesFit, SpansFit
  <2> HIDE DEF line
  <2>c. y = [x EXCEPT !.line = line, !.a = a, !.b = b]
    OBVIOUS
  <2> HIDE DEF y
  <2>4. y = [id |-> x.id, line |-> line, a |-> a, b |-> b]
    BY <2>3, <2>c, SpanWith
  <2>5. y.line = line /\ y.a = a /\ y.b = b
    BY <2>4
  <2>6. SpanOver(y) /\ Places(score, y.a) # {} /\ Places(score, y.b) # {}
    BY <2>1, <2>5, EndsOver DEF line
  <2>7. \A z \in spans :
          z \in score.spans \/ (SpanOver(z) /\ Places(score, z.a) # {} /\ Places(score, z.b) # {})
    BY <2>6
  <2> HIDE DEF spans
  <2>8. QED
    BY <2>2, <2>7, SpansPuts
<1>10. QED
  BY <1>2, <1>3, <1>4, <1>5, <1>6, <1>7, <1>8, <1>9

-----------------------------------------------------------------------------
(* The clipboard *)

LEMMA CopyPuts ==
  ASSUME ScoreInv, SpanInv, Copy
  PROVE  StepPuts /\ SpanInv'
<1>1. PICK r \in Stretches :
        clip' = [new   |-> Captured(score, r[1], r[2]), spans |-> SpansInside(score, r[1], r[2])]
  BY DEF Copy
<1>2. score' = score
  BY DEF Copy
<1> DEFINE a == r[1]
           b == r[2]
           m == Count(score)
           new == Captured(score, a, b)
           spans == SpansInside(score, a, b)
<1>3. Laid(score, m, m, edits) /\ a \in 1 .. m /\ b \in a .. m
  BY Standings
<1>4. clip'.new = new /\ clip'.spans = spans
  BY <1>1
<1> HIDE DEF a, b, m
<1>5. /\ IsBundle(new) /\ DOMAIN new = DOMAIN score.lines
      /\ \A l \in DOMAIN score.lines : IsPart(score.lines[l], a, b, new[l])
  BY <1>3, CapturedIs
<1>6. \A l \in DOMAIN new : Len(new[l]) = Len(new["p"])
  <2>1. "p" \in DOMAIN score.lines
    BY <1>5 DEF IsBundle
  <2>2. QED
    BY <1>5, <2>1 DEF IsPart
<1>7. OfTheirVoices(new)
  BY <1>3, CapturedOwned DEF SpanInv
<1>8. \A x \in spans : x \in score.spans /\ Captures(new, x.a) # {} /\ Captures(new, x.b) # {}
  BY DEF SpansInside
<1> HIDE DEF new, spans
<1>9. OverTheirVoices(spans)
  BY <1>8 DEF SpanInv, OverTheirVoices
<1>10. IsClip(clip')
  BY <1>4, <1>6, <1>7, <1>8, <1>9 DEF IsClip
<1>11. StepPuts
  BY <1>2 DEF StepPuts, Patched
<1>12. QED
  BY <1>2, <1>10, <1>11 DEF SpanInv

-----------------------------------------------------------------------------
(* The edits of notes, and of voices *)

LEMMA BalancedSpans ==
  ASSUME ScoreInv, MoveEvent \/ ChangeDuration \/ RemoveEvent
  PROVE  score'.spans = score.spans
<1>1. ASSUME NEW l \in Voices(score), NEW results, Balanced(l, results)
      PROVE  score'.spans = score.spans
  <2>1. PICK w \in results : score' = [score EXCEPT !.lines[l] = w]
    BY <1>1 DEF Balanced, Becomes
  <2>2. HasFields(score)
    BY Standings DEF Laid
  <2>3. QED
    BY <2>1, <2>2 DEF HasFields
<1>2. QED
  BY <1>1 DEF MoveEvent, ChangeDuration, RemoveEvent

LEMMA EventsSpan ==
  ASSUME ScoreInv, TimeInv, SpanInv, MoveEvent \/ ChangeDuration \/ RemoveEvent
  PROVE  SpanInv' /\ last' = "balanced"
<1>1. StepKeeps
  BY EventsKeep
<1>2. score'.spans = score.spans
  BY BalancedSpans
<1>3. ASSUME NEW l \in DOMAIN score'.lines, NEW m \in DOMAIN score'.lines[l]
      PROVE  \A i \in DOMAIN score'.lines[l][m].events :
               score'.lines[l][m].events[i].id = NoId \/ score'.lines[l][m].events[i].id[2] = l
  <2> DEFINE x == score.lines[l][m].events
             y == score'.lines[l][m].events
  <2>1. l \in DOMAIN score.lines /\ m \in DOMAIN score.lines[l] /\ Within(x, y)
    BY <1>1 DEF StepKeeps, Keeps
  <2>2. IsMusic(x)
    BY <2>1 DEF TimeInv, Timed, InTime
  <2>3. \A i \in DOMAIN x : x[i].id = NoId \/ x[i].id[2] = l
    BY <2>1 DEF SpanInv, OfTheirVoices
  <2> HIDE DEF x, y
  <2>4. \A i \in DOMAIN y : y[i].id = NoId \/ y[i].id[2] = l
    BY <2>1, <2>2, <2>3, WithinOwned
  <2>5. QED
    BY <2>4 DEF y
<1>4. OfTheirVoices(score'.lines)
  BY <1>3 DEF OfTheirVoices
<1>5. QED
  BY <1>1, <1>2, <1>4 DEF SpanInv, StepKeeps

LEMMA VoicesSpan ==
  ASSUME ScoreInv, SpanInv, AddVoice \/ RemoveVoice \/ AddStaff \/ RemoveStaff
  PROVE  SpanInv' /\ last' = "voice"
<1> DEFINE o == score.lines
<1>1. PICK l \in {"v", "s"} : AddLine(l) \/ RemoveLine(l)
  BY DEF AddVoice, RemoveVoice, AddStaff, RemoveStaff
<1>2. HasFields(score)
  BY Standings DEF Laid
<1>3. \A k \in DOMAIN o : Owned(o[k], k)
  BY OwnedAre DEF SpanInv
<1>4. ASSUME NEW lines, Becomes([score EXCEPT !.lines = lines], "voice"),
             \A k \in DOMAIN lines : Owned(lines[k], k)
      PROVE  SpanInv' /\ last' = "voice"
  <2>1. score' = [score EXCEPT !.lines = lines] /\ clip' = clip /\ last' = "voice"
    BY <1>4 DEF Becomes
  <2>2. score'.lines = lines /\ score'.spans = score.spans
    BY <1>2, <2>1 DEF HasFields
  <2>3. OfTheirVoices(score'.lines)
    BY <1>4, <2>2, OwnedAre
  <2>4. QED
    BY <2>1, <2>2, <2>3 DEF SpanInv
<1>5. CASE AddLine(l)
  <2> DEFINE lines == [k \in Voices(score) \union {l} |-> IF k = l THEN RestLine ELSE o[k]]
  <2>1. Becomes([score EXCEPT !.lines = lines], "voice")
    BY <1>5 DEF AddLine
  <2>2. Owned(RestLine, l)
    <3>1. ASSUME NEW k \in DOMAIN RestLine, NEW i \in DOMAIN RestLine[k].events
          PROVE  RestLine[k].events[i].id = NoId
      <4> DEFINE b == RestBar(score.lines["p"][k].uid)
      <4>1. RestLine[k] = b
        BY DEF RestLine
      <4> HIDE DEF b
      <4>2. i \in DOMAIN b.events
        BY <4>1
      <4>3. b.events[i].id = NoId
        BY <4>2, RestsUnnamed DEF b
      <4>4. QED
        BY <4>1, <4>3
    <3>2. QED
      BY <3>1 DEF Owned
  <2>3. \A k \in DOMAIN lines : Owned(lines[k], k)
    BY <1>3, <2>2 DEF Voices
  <2> HIDE DEF lines
  <2>4. QED
    BY <1>4, <2>1, <2>3
<1>6. CASE RemoveLine(l)
  <2> DEFINE lines == [k \in Voices(score) \ {l} |-> o[k]]
  <2>1. Becomes([score EXCEPT !.lines = lines], "voice")
    BY <1>6 DEF RemoveLine
  <2>2. \A k \in DOMAIN lines : Owned(lines[k], k)
    BY <1>3 DEF Voices
  <2> HIDE DEF lines
  <2>3. QED
    BY <1>4, <2>1, <2>2
<1>7. QED
  BY <1>1, <1>5, <1>6

-----------------------------------------------------------------------------
(* Spans stay anchored *)

LEMMA InitSpans ==
  ASSUME Init
  PROVE  SpanInv
<1>1. PICK start \in Initial : score = start.score /\ clip = start.clip
  BY DEF Init
<1>2. QED
  BY <1>1, ScoreEditsAssumption DEF SpanInv

\* A step puts spans over events that are, or keeps those whose events stay, or
\* is one that the property leaves out.
LEMMA NextSpans ==
  ASSUME ScoreInv, TimeInv, SpanInv, Next
  PROVE  /\ SpanInv'
         /\ \/ last' \in {"balanced", "voice"}
            \/ StepPuts
            \/ StepTrims /\ \E how : StepFollows(how)
<1>1. CASE MoveEvent \/ ChangeDuration \/ RemoveEvent
  BY <1>1, EventsSpan
<1>2. CASE AddMeasure \/ Duplicate \/ Delete \/ Move
  BY <1>2, MeasuresTrim, MeasuresFollow, TrimsHold
<1>3. CASE Copy
  BY <1>3, CopyPuts
<1>4. CASE PasteAfter \/ PasteOver
  BY <1>4, PastesTrim, PastesFollow, TrimsHold
<1>5. CASE ExtendComposition \/ InsertMeasures \/ ReplaceRegion
  BY <1>5, AnswersTrim, AnswersFollow, TrimsHold
<1>6. CASE AddVoice \/ RemoveVoice \/ AddStaff \/ RemoveStaff
  BY <1>6, VoicesSpan
<1>7. CASE \/ AddTechnique \/ RemoveTechnique
           \/ AddMarker \/ RemoveMarker \/ UpdateMarker
           \/ AddAnnotation \/ RemoveAnnotation \/ UpdateAnnotation
           \/ AddVolta \/ RemoveVolta \/ UpdateVolta
           \/ AddJump \/ RemoveJump \/ UpdateJump
           \/ AddSpan \/ RemoveSpan \/ UpdateSpan
  BY <1>7, EntriesPut, PutsHold
<1>8. QED
  BY <1>1, <1>2, <1>3, <1>4, <1>5, <1>6, <1>7 DEF Next

LEMMA SpansStepHold ==
  ASSUME ScoreInv, TimeInv, SpanInv, [Next]_vars
  PROVE  SpanInv'
<1>1. CASE Next
  BY <1>1, NextSpans
<1>2. CASE UNCHANGED vars
  BY <1>2 DEF vars, SpanInv
<1>3. QED
  BY <1>1, <1>2

\* Whatever the edits were, an event id is of the voice its event is in, spans
\* are over events of their own voice, and the clipboard holds the same stretch
\* of every voice with the spans inside it (captureRangeContent,
\* spansFullyInsideRange, deriveEventId).
THEOREM ScoreSpans == Spec => [](ScoreInv /\ TimeInv /\ SpanInv)
<1>1. Init => SpanInv
  BY InitSpans
<1>2. ScoreInv /\ TimeInv /\ SpanInv /\ [Next]_vars => SpanInv'
  BY SpansStepHold
<1>3. QED
  BY <1>1, <1>2, ScoreTime, PTL DEF Spec

\* An edit of measures or of entries never leaves a span on events that are not
\* there: a span whose events stay is kept and stays on them, one that lost an
\* event goes, and a pasted span is on the pasted events
\* (dropSeveredAndInteriorSpans, remapSpansToFreshIds, addSpan, updateSpan).
THEOREM ScoreSpansAnchored == Spec => SpansAnchored
<1>1. /\ ScoreInv /\ TimeInv /\ SpanInv
      /\ ScoreInv' /\ TimeInv' /\ SpanInv' /\ [Next]_vars
      => [last' \notin {"balanced", "voice"} =>
            /\ \A x \in score.spans, y \in score'.spans :
                 x.id = y.id /\ Anchored(score, x) => Anchored(score', y)
            /\ \A y \in score'.spans :
                 y.id \notin IdsOf(score.spans) /\ y.line \in Voices(score') => Anchored(score', y)
            /\ \A x \in score.spans :
                 Anchored(score, x) /\ EndsStay(x) /\ last' # "entry"
                   => x.id \in IdsOf(score'.spans)]_vars
  <2>1. ASSUME ScoreInv, TimeInv, SpanInv, ScoreInv', TimeInv', SpanInv', Next,
               last' \notin {"balanced", "voice"}
        PROVE  StaysAnchored
    <3>1. StepPuts \/ (StepTrims /\ \E how : StepFollows(how))
      BY <2>1, NextSpans
    <3>2. QED
      BY <2>1, <3>1, PutsAnchor, TrimsAnchor
  <2>2. QED
    BY <2>1 DEF StaysAnchored
<1>2. QED
  BY <1>1, ScoreSpans, PTL DEF Spec, SpansAnchored
=============================================================================
