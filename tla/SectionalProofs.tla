--------------------------- MODULE SectionalProofs --------------------------
(***************************************************************************)
(* What a streamed piece promises for every plan, chunk size and budget:   *)
(* its chunks tile the plan whatever is split and tried again, the money   *)
(* comes out square however the stream ends, and what it can cost beyond   *)
(* its budget is bounded.                                                  *)
(***************************************************************************)
EXTENDS Sectional, SequenceTheorems, WellFoundedInduction, TLAPS

\* A chunk within the piece, and the chunks that follow bar s without a gap.
Pieces == {c \in Chunks : c.first + c.bars - 1 <= MaxTotalBars}
Tilings(s) ==
  {c \in Seq(Pieces) : \A i \in DOMAIN c :
     c[i].first = IF i = 1 THEN s + 1 ELSE c[i - 1].first + c[i - 1].bars}

\* The last bar of chunks that follow bar s.
EndOf(c, s) == IF c = <<>> THEN s ELSE c[Len(c)].first + c[Len(c)].bars - 1

Stages == {"planning", "working", "calling", "section", "finishing",
           "persisting", "closing", "over"}

\* What is written follows the start, the chunk at work follows what is
\* written, and what waits follows that; while there is work to do, all of it
\* is the plan.
Tiled ==
  LET at == EndOf(music, 0)
      done == IF stage = "calling" THEN EndOf(<<item>>, at) ELSE at
  IN  /\ music \in Tilings(0)
      /\ stage = "planning" => music = <<>>
      /\ stage = "calling" => <<item>> \in Tilings(at)
      /\ queue \in Tilings(done)
      /\ stage \in {"working", "calling", "section"} =>
           plan = EndOf(queue, done) /\ plan # 0

\* How far the client and the meter are behind.
Followed ==
  /\ stage \in {"planning", "working", "calling", "finishing", "persisting"}
       => shown = Len(music)
  /\ shown \in 0 .. Len(music)
  /\ stage = "section" => music # <<>>
  /\ stage \in {"finishing", "persisting"} => music # <<>>
  /\ music # <<>> => metered
  /\ stage \in {"closing", "over"} => ending \in {"done", "error"}
  /\ stage \notin {"closing", "over"} => ending = "none"
  /\ ending = "done" => saved = music /\ shown = Len(music) /\ music # <<>>
  /\ ending # "done" => saved = <<>>

\* Where the money is at each stage.
Squared ==
  /\ charged \in 0 .. Budget
  /\ payer = "hold" =>
       /\ stage \in {"planning", "working", "calling", "section", "finishing"}
            => hold = "active" /\ charged = 0
       /\ stage = "persisting" \/ ending = "done"
            => hold = "settled" /\ charged = Least(spent, Budget)
       /\ ending = "error" => charged = 0
       /\ stage = "over" => hold # "active"
  /\ payer # "hold" => hold = "none" /\ charged = 0
  /\ payer = "free" =>
       /\ stage # "over" => freeGrant = "claimed"
       /\ stage = "over" => (freeGrant = "released" <=> ~metered)

StreamTypes ==
  /\ payer \in {"hold", "free", "none"}
  /\ stage \in Stages
  /\ plan \in 0 .. MaxTotalBars
  /\ stage = "calling" => tries \in 0 .. CallTries - 1
  /\ spent \in Nat /\ metered \in BOOLEAN
  /\ hold \in {"none", "active", "settled", "released"}
  /\ freeGrant \in {"none", "claimed", "released"}

StreamInv == StreamTypes /\ Tiled /\ Followed /\ Squared

-----------------------------------------------------------------------------
(* What is left of the calls between two looks at the budget *)

Calls[b \in 1 .. ChunkBars] ==
  CallTries + (IF b = 1 THEN 0 ELSE Calls[(b + 1) \div 2])

\* After n calls since the last look, or since the plan was made.
Within(n, paid) ==
  \/ paid <= (n + 1) * DearestCall
  \/ paid < Budget - Margin + n * DearestCall

SpendInv ==
  payer # "none" =>
    /\ stage = "planning" => spent = 0
    /\ stage = "working" /\ queue # <<>> =>
         Within(CallsPerLook - Calls[Head(queue).bars], spent)
    /\ stage = "calling" => Within(CallsPerLook - Calls[item.bars] + tries, spent)
    /\ Within(CallsPerLook, spent)

-----------------------------------------------------------------------------
(* Induction, and the recursive definitions *)

\* A set that holds zero and with each number the next one holds them all.
LEMMA SetInduction ==
  ASSUME NEW S, 0 \in S, \A n \in Nat : n \in S => n + 1 \in S
  PROVE  Nat \subseteq S
<1> DEFINE T == Nat \ S
<1> DEFINE R == OpToRel(<, Nat)
<1>1. SUFFICES ASSUME T # {} PROVE FALSE
  OBVIOUS
<1>2. T \subseteq Nat
  OBVIOUS
<1>3. IsWellFoundedOn(R, Nat)
  BY NatLessThanWellFounded
<1>4. \A x, y \in Nat : y < x => <<y, x>> \in R
  BY DEF OpToRel
<1> HIDE DEF R
<1>5. PICK x \in T : \A y \in T : ~(<<y, x>> \in R)
  BY <1>1, <1>2, <1>3, WFMin
<1>6. x # 0 /\ x \in Nat
  OBVIOUS
<1>7. x - 1 \in Nat /\ x - 1 < x /\ (x - 1) + 1 = x
  BY <1>6
<1>8. x - 1 \in S
  BY <1>4, <1>5, <1>6, <1>7
<1>9. QED
  BY <1>7, <1>8

LEMMA HalvesRange ==
  ASSUME NEW b \in Nat, b > 1
  PROVE  (b + 1) \div 2 \in 1 .. b - 1
OBVIOUS

\* Calls is what its definition says.
LEMMA CallsDef ==
  \A b \in 1 .. ChunkBars :
    Calls[b] = CallTries + (IF b = 1 THEN 0 ELSE Calls[(b + 1) \div 2])
<1> DEFINE Fits(f, n) ==
      \A b \in 1 .. n : f[b] = CallTries + (IF b = 1 THEN 0 ELSE f[(b + 1) \div 2])
<1> DEFINE S == {n \in Nat : \E f : Fits(f, n)}
<1>1. 0 \in S
  OBVIOUS
<1>2. ASSUME NEW n \in Nat, n \in S
      PROVE  n + 1 \in S
  <2>1. PICK f : Fits(f, n)
    BY <1>2
  <2> DEFINE g == [b \in 1 .. n + 1 |->
        IF b <= n THEN f[b] ELSE CallTries + (IF b = 1 THEN 0 ELSE f[(b + 1) \div 2])]
  <2>2. \A b \in 1 .. n : g[b] = f[b]
    OBVIOUS
  <2>3. \A b \in 1 .. n + 1 : b # 1 => (b + 1) \div 2 \in 1 .. n
    BY HalvesRange
  <2>4. ASSUME NEW b \in 1 .. n + 1
        PROVE  g[b] = CallTries + (IF b = 1 THEN 0 ELSE g[(b + 1) \div 2])
    <3>1. b # 1 => g[(b + 1) \div 2] = f[(b + 1) \div 2]
      BY <2>2, <2>3
    <3>2. g[b] = CallTries + (IF b = 1 THEN 0 ELSE f[(b + 1) \div 2])
      BY <2>1
    <3> HIDE DEF g
    <3>3. QED
      BY <3>1, <3>2
  <2> HIDE DEF g
  <2>5. QED
    BY <2>4
<1> HIDE DEF S
<1>3. ChunkBars \in S
  BY <1>1, <1>2, SetInduction, SectionalAssumption
<1> USE DEF S
<1>4. PICK f : Fits(f, ChunkBars)
  BY <1>3
<1> DEFINE g == [b \in 1 .. ChunkBars |-> f[b]]
<1>5. \A b \in 1 .. ChunkBars : b # 1 => (b + 1) \div 2 \in 1 .. ChunkBars
  BY HalvesRange, SectionalAssumption
<1>6. g = [b \in 1 .. ChunkBars |-> CallTries + (IF b = 1 THEN 0 ELSE g[(b + 1) \div 2])]
  BY <1>4, <1>5
<1> HIDE DEF g
<1>7. Calls = [b \in 1 .. ChunkBars |->
                 CallTries + (IF b = 1 THEN 0 ELSE Calls[(b + 1) \div 2])]
  BY <1>6 DEF Calls
<1>8. QED
  BY <1>7

LEMMA CallsPerLookIs == CallsPerLook = Calls[ChunkBars]
BY DEF CallsPerLook, Calls

\* More bars need no fewer calls.
LEMMA CallsGrow ==
  \A a, b \in 1 .. ChunkBars :
    a <= b => Calls[a] \in Nat /\ Calls[a] >= CallTries /\ Calls[a] <= Calls[b]
<1> DEFINE S == {n \in Nat : \A a, b \in 1 .. ChunkBars :
        a <= b /\ b <= n => Calls[a] \in Nat /\ Calls[a] >= CallTries /\ Calls[a] <= Calls[b]}
<1>1. 0 \in S
  OBVIOUS
<1>2. ASSUME NEW n \in Nat, n \in S
      PROVE  n + 1 \in S
  <2> SUFFICES ASSUME NEW a \in 1 .. ChunkBars, NEW b \in 1 .. ChunkBars, a <= b, b = n + 1
               PROVE  Calls[a] \in Nat /\ Calls[a] >= CallTries /\ Calls[a] <= Calls[b]
    BY <1>2
  <2>1. CallTries \in Nat /\ ChunkBars \in Nat
    BY SectionalAssumption
  <2> DEFINE h(x) == (x + 1) \div 2
  <2>2. b # 1 => h(b) \in 1 .. n /\ h(b) \in 1 .. ChunkBars
    BY <2>1, HalvesRange
  <2>3. a # 1 => h(a) \in 1 .. n /\ h(a) \in 1 .. ChunkBars /\ h(a) <= h(b)
    BY <2>1, HalvesRange
  <2> HIDE DEF h
  <2>4. b # 1 => Calls[h(b)] \in Nat
    BY <1>2, <2>2
  <2>5. a # 1 => Calls[h(a)] \in Nat /\ Calls[h(a)] <= Calls[h(b)]
    BY <1>2, <2>2, <2>3
  <2>6. /\ Calls[a] = CallTries + (IF a = 1 THEN 0 ELSE Calls[h(a)])
        /\ Calls[b] = CallTries + (IF b = 1 THEN 0 ELSE Calls[h(b)])
    BY CallsDef DEF h
  <2>7. CASE a = 1
    BY <2>1, <2>4, <2>6, <2>7
  <2>8. CASE a # 1
    BY <2>1, <2>4, <2>5, <2>6, <2>8
  <2>9. QED
    BY <2>7, <2>8
<1> HIDE DEF S
<1>3. ChunkBars \in S
  BY <1>1, <1>2, SetInduction, SectionalAssumption
<1>4. QED
  BY <1>3, SectionalAssumption DEF S

-----------------------------------------------------------------------------
(* Tilings *)

LEMMA PieceBars ==
  ASSUME NEW c \in Pieces
  PROVE  /\ c.first \in 1 .. MaxTotalBars /\ c.bars \in 1 .. ChunkBars
         /\ c.first + c.bars - 1 \in 1 .. MaxTotalBars
         /\ c = Chunk(c.first, c.bars)
<1>1. c.first \in 1 .. MaxTotalBars /\ c.bars \in 1 .. ChunkBars
  BY DEF Pieces, Chunks
<1>2. c.first + c.bars - 1 <= MaxTotalBars
  BY DEF Pieces
<1>3. QED
  BY <1>1, <1>2, SectionalAssumption DEF Pieces, Chunks, Chunk

LEMMA EndRange ==
  ASSUME NEW s \in 0 .. MaxTotalBars, NEW c \in Tilings(s)
  PROVE  /\ EndOf(c, s) \in 0 .. MaxTotalBars
         /\ c # <<>> => EndOf(c, s) # 0
         /\ Len(c) \in Nat /\ DOMAIN c = 1 .. Len(c)
<1>1. Len(c) \in Nat /\ DOMAIN c = 1 .. Len(c) /\ (c # <<>> => Len(c) # 0)
  BY LenProperties, EmptySeq DEF Tilings
<1>2. ASSUME c # <<>>
      PROVE  EndOf(c, s) \in 1 .. MaxTotalBars
  <2>1. c[Len(c)] \in Pieces
    BY <1>1, <1>2, ElementOfSeq DEF Tilings
  <2>2. QED
    BY <1>2, <2>1, PieceBars DEF EndOf
<1>3. QED
  BY <1>1, <1>2, SectionalAssumption DEF EndOf

LEMMA TilingEmpty ==
  ASSUME NEW s
  PROVE  <<>> \in Tilings(s) /\ EndOf(<<>>, s) = s
BY EmptySeq DEF Tilings, EndOf

LEMMA TilingSingle ==
  ASSUME NEW s, NEW c
  PROVE  /\ <<c>> \in Tilings(s) <=> c \in Pieces /\ c.first = s + 1
         /\ EndOf(<<c>>, s) = c.first + c.bars - 1
<1>1. DOMAIN <<c>> = {1} /\ Len(<<c>>) = 1 /\ <<c>>[1] = c /\ <<c>> # <<>>
  OBVIOUS
<1>2. <<c>> \in Seq(Pieces) <=> c \in Pieces
  OBVIOUS
<1>3. QED
  BY <1>1, <1>2 DEF Tilings, EndOf

\* Chunks that follow a tiling extend it.
LEMMA TilingConcat ==
  ASSUME NEW s \in 0 .. MaxTotalBars, NEW a \in Tilings(s), NEW b \in Tilings(EndOf(a, s))
  PROVE  /\ a \o b \in Tilings(s)
         /\ EndOf(a \o b, s) = EndOf(b, EndOf(a, s))
<1> DEFINE m == Len(a)
           n == Len(b)
<1>1. /\ a \in Seq(Pieces) /\ b \in Seq(Pieces) /\ m \in Nat /\ n \in Nat
      /\ DOMAIN a = 1 .. m /\ DOMAIN b = 1 .. n
      /\ (a = <<>> <=> m = 0) /\ (b = <<>> <=> n = 0)
  BY LenProperties, EmptySeq DEF Tilings
<1>2. /\ a \o b \in Seq(Pieces) /\ Len(a \o b) = m + n
      /\ \A i \in 1 .. m + n : (a \o b)[i] = IF i <= m THEN a[i] ELSE b[i - m]
  BY <1>1, ConcatProperties
<1>3. DOMAIN (a \o b) = 1 .. m + n /\ (a \o b = <<>> <=> m + n = 0)
  BY <1>1, <1>2, LenProperties, EmptySeq
<1>4. \A i \in 1 .. m : a[i].first = IF i = 1 THEN s + 1 ELSE a[i - 1].first + a[i - 1].bars
  BY <1>1 DEF Tilings
<1>5. \A i \in 1 .. n : b[i].first =
        IF i = 1 THEN EndOf(a, s) + 1 ELSE b[i - 1].first + b[i - 1].bars
  BY <1>1 DEF Tilings
<1>6. m # 0 => /\ EndOf(a, s) = a[m].first + a[m].bars - 1
               /\ a[m].first \in Int /\ a[m].bars \in Int
  <2> SUFFICES ASSUME m # 0
               PROVE  /\ EndOf(a, s) = a[m].first + a[m].bars - 1
                      /\ a[m].first \in Int /\ a[m].bars \in Int
    OBVIOUS
  <2>1. a[m] \in Pieces
    BY <1>1, ElementOfSeq
  <2>2. QED
    BY <1>1, <2>1, PieceBars DEF EndOf
<1> DEFINE w == a \o b
<1> HIDE DEF m, n, w
<1>7. ASSUME NEW i \in 1 .. m + n
      PROVE  w[i].first = IF i = 1 THEN s + 1 ELSE w[i - 1].first + w[i - 1].bars
  <2>1. CASE i <= m
    <3>1. w[i] = a[i] /\ (i # 1 => w[i - 1] = a[i - 1]) /\ i \in 1 .. m
      BY <1>1, <1>2, <2>1 DEF w
    <3>2. QED
      BY <1>4, <3>1
  <2>2. CASE i = m + 1 /\ m = 0
    <3>1. w[i] = b[1] /\ i = 1 /\ 1 \in 1 .. n /\ EndOf(a, s) = s
      BY <1>1, <1>2, <2>2 DEF w, EndOf
    <3>2. QED
      BY <1>5, <3>1
  <2>3. CASE i = m + 1 /\ m # 0
    <3>1. w[i] = b[1] /\ w[i - 1] = a[m] /\ i # 1 /\ 1 \in 1 .. n
      BY <1>1, <1>2, <2>3 DEF w
    <3>2. b[1].first = EndOf(a, s) + 1
      BY <1>5, <3>1
    <3>3. QED
      BY <1>6, <2>3, <3>1, <3>2
  <2>4. CASE i > m + 1
    <3>1. /\ w[i] = b[i - m] /\ w[i - 1] = b[(i - m) - 1] /\ i # 1
          /\ i - m \in 1 .. n /\ i - m # 1
      BY <1>1, <1>2, <2>4 DEF w
    <3>2. QED
      BY <1>5, <3>1
  <2>5. QED
    BY <1>1, <2>1, <2>2, <2>3, <2>4
<1>8. w \in Tilings(s)
  BY <1>2, <1>3, <1>7 DEF Tilings, w
<1>9. EndOf(w, s) = EndOf(b, EndOf(a, s))
  <2>1. CASE n = 0
    <3>1. m # 0 => w[m + n] = a[m]
      BY <1>1, <1>2, <2>1 DEF w
    <3>2. QED
      BY <1>1, <1>2, <1>3, <1>6, <2>1, <3>1 DEF EndOf, w
  <2>2. CASE n # 0
    <3>1. w[m + n] = b[n] /\ w # <<>> /\ Len(w) = m + n
      BY <1>1, <1>2, <1>3, <2>2 DEF w
    <3>2. QED
      BY <1>1, <2>2, <3>1 DEF EndOf, n
  <2>3. QED
    BY <2>1, <2>2
<1>10. QED
  BY <1>8, <1>9 DEF w

\* Taking the first chunk leaves the others behind it.
LEMMA TilingHead ==
  ASSUME NEW s \in 0 .. MaxTotalBars, NEW c \in Tilings(s), c # <<>>
  PROVE  /\ <<Head(c)>> \in Tilings(s)
         /\ Tail(c) \in Tilings(EndOf(<<Head(c)>>, s))
         /\ EndOf(Tail(c), EndOf(<<Head(c)>>, s)) = EndOf(c, s)
<1> DEFINE n == Len(c)
           e == EndOf(<<Head(c)>>, s)
<1>1. c \in Seq(Pieces) /\ n \in Nat /\ n # 0 /\ DOMAIN c = 1 .. n
  BY LenProperties, EmptySeq DEF Tilings
<1>2. /\ Head(c) = c[1] /\ Tail(c) \in Seq(Pieces) /\ Len(Tail(c)) = n - 1
      /\ \A i \in 1 .. n - 1 : Tail(c)[i] = c[i + 1]
  BY <1>1, HeadTailProperties
<1>3. DOMAIN Tail(c) = 1 .. n - 1 /\ (Tail(c) = <<>> <=> n = 1)
  BY <1>1, <1>2, LenProperties, EmptySeq
<1>4. c[1] \in Pieces /\ c[1].first = s + 1
  BY <1>1, ElementOfSeq DEF Tilings
<1>5. <<Head(c)>> \in Tilings(s) /\ e = c[1].first + c[1].bars - 1
  BY <1>2, <1>4, TilingSingle
<1>6. c[1].first \in Int /\ c[1].bars \in Int
  BY <1>4, PieceBars
<1> DEFINE w == Tail(c)
<1> HIDE DEF n, e, w
<1>7. ASSUME NEW i \in 1 .. n - 1
      PROVE  w[i].first = IF i = 1 THEN e + 1 ELSE w[i - 1].first + w[i - 1].bars
  <2>1. w[i] = c[i + 1] /\ (i # 1 => w[i - 1] = c[i])
    BY <1>1, <1>2 DEF w
  <2>2. c[i + 1].first = c[i].first + c[i].bars
    <3>1. i + 1 \in 1 .. n /\ i + 1 # 1 /\ (i + 1) - 1 = i
      BY <1>1
    <3>2. QED
      BY <1>1, <3>1 DEF Tilings
  <2>3. QED
    BY <1>5, <1>6, <2>1, <2>2, SMTT(30)
<1>8. w \in Tilings(e)
  BY <1>2, <1>3, <1>7 DEF Tilings, w
<1>9. EndOf(w, e) = EndOf(c, s)
  <2>1. CASE n = 1
    BY <1>1, <1>2, <1>3, <1>5, <2>1 DEF EndOf, w, n
  <2>2. CASE n # 1
    <3>1. w[n - 1] = c[n] /\ w # <<>> /\ Len(w) = n - 1
      BY <1>1, <1>2, <1>3, <2>2 DEF w
    <3>2. QED
      BY <1>1, <3>1 DEF EndOf, n
  <2>3. QED
    BY <2>1, <2>2
<1>10. QED
  BY <1>5, <1>8, <1>9 DEF w, e

\* Halves tile what their chunk did, and neither is empty.
LEMMA TilingHalved ==
  ASSUME NEW s \in 0 .. MaxTotalBars, NEW it, <<it>> \in Tilings(s), it.bars > 1
  PROVE  /\ Halved(it) \in Tilings(s) /\ Halved(it) # <<>>
         /\ EndOf(Halved(it), s) = EndOf(<<it>>, s)
         /\ Head(Halved(it)).bars = (it.bars + 1) \div 2
<1> DEFINE h == Halves(it.bars)
           a == Chunk(it.first, h)
           b == Chunk(it.first + h, it.bars - h)
<1>1. it \in Pieces /\ it.first = s + 1
  BY TilingSingle
<1>2. /\ it.first \in 1 .. MaxTotalBars /\ it.bars \in 1 .. ChunkBars
      /\ it.first + it.bars - 1 <= MaxTotalBars
      /\ MaxTotalBars \in Nat /\ ChunkBars \in Nat
  BY <1>1, PieceBars, SectionalAssumption
<1>3. h \in 1 .. it.bars - 1
  BY <1>2, HalvesRange DEF Halves
<1>4. /\ a.first = it.first /\ a.bars = h
      /\ b.first = it.first + h /\ b.bars = it.bars - h
  BY DEF Chunk
<1>5. Halved(it) = <<a>> \o <<b>>
  BY <1>2, <1>3 DEF Halved
<1> HIDE DEF h
<1>6. a \in Pieces /\ b \in Pieces
  BY <1>2, <1>3 DEF Pieces, Chunks, Chunk
<1> HIDE DEF a, b
<1>7. <<a>> \in Tilings(s) /\ EndOf(<<a>>, s) = it.first + h - 1
  BY <1>1, <1>4, <1>6, TilingSingle
<1>8. <<b>> \in Tilings(EndOf(<<a>>, s))
  BY <1>2, <1>3, <1>4, <1>6, <1>7, TilingSingle
<1>9. EndOf(<<b>>, EndOf(<<a>>, s)) = it.first + it.bars - 1
  BY <1>2, <1>3, <1>4, TilingSingle
<1>10. EndOf(<<it>>, s) = it.first + it.bars - 1
  BY TilingSingle
<1>11. <<a>> \o <<b>> \in Tilings(s) /\ EndOf(<<a>> \o <<b>>, s) = EndOf(<<it>>, s)
  BY <1>7, <1>8, <1>9, <1>10, TilingConcat
<1>12. <<a>> \o <<b>> # <<>> /\ Head(<<a>> \o <<b>>) = a
  <2>1. <<a>> \in Seq(Pieces) /\ <<b>> \in Seq(Pieces) /\ Len(<<a>>) = 1 /\ Len(<<b>>) = 1
    BY <1>6
  <2>2. /\ <<a>> \o <<b>> \in Seq(Pieces) /\ Len(<<a>> \o <<b>>) = 2
        /\ (<<a>> \o <<b>>)[1] = <<a>>[1]
    BY <2>1, ConcatProperties
  <2>3. <<a>>[1] = a
    OBVIOUS
  <2>4. <<a>> \o <<b>> # <<>>
    BY <2>2, EmptySeq
  <2>5. QED
    BY <2>2, <2>3, <2>4, HeadTailProperties
<1>13. QED
  BY <1>4, <1>5, <1>11, <1>12 DEF h, Halves

\* The bars of a piece that starts at its first bar are counted right.
LEMMA BarsOfTiling ==
  ASSUME NEW c \in Tilings(0)
  PROVE  BarsOf(c) = EndOf(c, 0)
<1> DEFINE n == Len(c)
           Sum(f) == f = [i \in 0 .. n |-> IF i = 0 THEN 0 ELSE f[i - 1] + c[i].bars]
           g == [i \in 0 .. n |-> IF i = 0 THEN 0 ELSE c[i].first + c[i].bars - 1]
<1>1. /\ n \in Nat /\ DOMAIN c = 1 .. n /\ (c = <<>> <=> n = 0)
      /\ \A i \in 1 .. n : c[i] \in Pieces
      /\ \A i \in 1 .. n : c[i].first = IF i = 1 THEN 1 ELSE c[i - 1].first + c[i - 1].bars
  <2>1. c \in Seq(Pieces) /\ n \in Nat /\ DOMAIN c = 1 .. n
    BY LenProperties DEF Tilings
  <2>2. c = <<>> <=> n = 0
    BY <2>1, EmptySeq
  <2>3. \A i \in 1 .. n : c[i] \in Pieces
    BY <2>1, ElementOfSeq
  <2>4. \A i \in DOMAIN c : c[i].first = IF i = 1 THEN 0 + 1 ELSE c[i - 1].first + c[i - 1].bars
    BY DEF Tilings
  <2>5. 0 + 1 = 1
    OBVIOUS
  <2> HIDE DEF n
  <2>6. \A i \in 1 .. n : c[i].first = IF i = 1 THEN 1 ELSE c[i - 1].first + c[i - 1].bars
    BY <2>1, <2>4, <2>5
  <2>7. QED
    BY <2>1, <2>2, <2>3, <2>6
<1>2. \A i \in 1 .. n : c[i].first \in Int /\ c[i].bars \in Int
  BY <1>1, PieceBars
<1> HIDE DEF n
<1>3. \A i \in 1 .. n : g[i] = g[i - 1] + c[i].bars
  <2> SUFFICES ASSUME NEW i \in 1 .. n
               PROVE  g[i] = g[i - 1] + c[i].bars
    OBVIOUS
  <2>1. g[i] = c[i].first + c[i].bars - 1
    BY <1>1
  <2>2. g[i - 1] = c[i].first - 1
    BY <1>1, <1>2
  <2>3. QED
    BY <1>2, <2>1, <2>2
<1>4. Sum(g)
  <2>1. ASSUME NEW i \in 0 .. n
        PROVE  g[i] = IF i = 0 THEN 0 ELSE g[i - 1] + c[i].bars
    <3>1. i = 0 => g[i] = 0
      OBVIOUS
    <3>2. i # 0 => i \in 1 .. n
      BY <1>1
    <3> HIDE DEF g
    <3>3. QED
      BY <1>3, <3>1, <3>2
  <2>2. DOMAIN g = 0 .. n /\ g = [i \in 0 .. n |-> g[i]]
    OBVIOUS
  <2> HIDE DEF g
  <2>3. QED
    BY <2>1, <2>2
<1>5. g[n] = EndOf(c, 0)
  BY <1>1 DEF EndOf, n
<1> HIDE DEF g
<1>6. ASSUME NEW f, Sum(f)
      PROVE  f[n] = g[n]
  <2> DEFINE S == {i \in Nat : i <= n => f[i] = g[i]}
  <2>1. \A i \in 0 .. n : f[i] = IF i = 0 THEN 0 ELSE f[i - 1] + c[i].bars
    BY <1>6
  <2>2. \A i \in 0 .. n : g[i] = IF i = 0 THEN 0 ELSE g[i - 1] + c[i].bars
    BY <1>4
  <2>3. 0 \in S
    BY <1>1, <2>1, <2>2
  <2>4. ASSUME NEW i \in Nat, i \in S
        PROVE  i + 1 \in S
    <3> SUFFICES ASSUME i + 1 <= n
                 PROVE  f[i + 1] = g[i + 1]
      OBVIOUS
    <3>1. i + 1 \in 0 .. n /\ i + 1 # 0 /\ (i + 1) - 1 = i /\ i <= n
      BY <1>1
    <3>2. QED
      BY <2>1, <2>2, <2>4, <3>1
  <2> HIDE DEF S
  <2>5. n \in S
    BY <1>1, <2>3, <2>4, SetInduction
  <2>6. QED
    BY <1>1, <2>5 DEF S
<1>7. BarsOf(c) = (CHOOSE f : Sum(f))[n]
  BY DEF BarsOf, n
<1>8. Sum(CHOOSE f : Sum(f))
  BY <1>4
<1> HIDE DEF Sum
<1>9. QED
  BY <1>5, <1>6, <1>7, <1>8

-----------------------------------------------------------------------------
(* The plan is cut into chunks that tile it *)

\* Where Segments stands: a section, the bars left in it, the bars cut so far.
Places(p) == [s : 1 .. Len(p), left : Nat, total : Nat]
\* The bars cut next, and the places Segments goes on from.
NextBars(at) == Least(ChunkBars, Least(at.left, MaxTotalBars - at.total))
NextSection(p, at) == [s |-> at.s + 1, left |-> p[at.s + 1], total |-> at.total]
Behind(at, bars) == [s |-> at.s, left |-> at.left - bars, total |-> at.total + bars]
\* The recursion of Segments, unfolded once.
CutStep(p, f, at) ==
  IF at.total >= MaxTotalBars THEN <<>>
  ELSE IF at.left = 0
    THEN IF at.s = Len(p) THEN <<>> ELSE f[NextSection(p, at)]
    ELSE <<Chunk(at.total + 1, NextBars(at))>> \o f[Behind(at, NextBars(at))]
IsCut(p, f) == f = [at \in Places(p) |-> CutStep(p, f, at)]
\* What is left to do at a place: less after every call.
ToCut(p, at) ==
  (Len(p) - at.s) + (IF at.total >= MaxTotalBars THEN 0 ELSE MaxTotalBars - at.total)

LEMMA ToCutRange ==
  ASSUME NEW p \in Seq(Nat \ {0}), NEW at \in Places(p)
  PROVE  ToCut(p, at) \in 0 .. Len(p) + MaxTotalBars
<1>1. Len(p) \in Nat /\ MaxTotalBars \in Nat /\ at.s \in 1 .. Len(p) /\ at.total \in Nat
  BY LenProperties, SectionalAssumption DEF Places
<1>2. QED
  BY <1>1, SMTT(30) DEF ToCut

LEMMA ToCutDrops ==
  ASSUME NEW p \in Seq(Nat \ {0}), NEW at \in Places(p), at.total < MaxTotalBars
  PROVE  /\ at.left = 0 /\ at.s # Len(p) =>
              /\ NextSection(p, at) \in Places(p)
              /\ NextSection(p, at).total = at.total
              /\ ToCut(p, NextSection(p, at)) < ToCut(p, at)
         /\ at.left # 0 =>
              /\ NextBars(at) \in 1 .. ChunkBars
              /\ at.total + NextBars(at) \in 1 .. MaxTotalBars
              /\ Behind(at, NextBars(at)) \in Places(p)
              /\ Behind(at, NextBars(at)).total = at.total + NextBars(at)
              /\ ToCut(p, Behind(at, NextBars(at))) < ToCut(p, at)
<1>1. /\ Len(p) \in Nat /\ MaxTotalBars \in Nat \ {0} /\ ChunkBars \in Nat \ {0}
      /\ \A i \in 1 .. Len(p) : p[i] \in Nat
  BY LenProperties, ElementOfSeq, SectionalAssumption
<1>2. at.s \in 1 .. Len(p) /\ at.left \in Nat /\ at.total \in Nat
  BY DEF Places
<1>3. ASSUME at.left = 0, at.s # Len(p)
      PROVE  /\ NextSection(p, at) \in Places(p)
             /\ NextSection(p, at).total = at.total
             /\ ToCut(p, NextSection(p, at)) < ToCut(p, at)
  <2>1. at.s + 1 \in 1 .. Len(p) /\ p[at.s + 1] \in Nat
    BY <1>1, <1>2, <1>3
  <2>2. /\ NextSection(p, at).total = at.total /\ NextSection(p, at).s = at.s + 1
        /\ NextSection(p, at) \in Places(p)
    BY <1>2, <2>1 DEF NextSection, Places
  <2>3. ToCut(p, NextSection(p, at)) < ToCut(p, at)
    BY <1>1, <1>2, <2>2 DEF ToCut
  <2>4. QED
    BY <2>2, <2>3
<1>4. ASSUME at.left # 0
      PROVE  /\ NextBars(at) \in 1 .. ChunkBars
             /\ at.total + NextBars(at) \in 1 .. MaxTotalBars
             /\ Behind(at, NextBars(at)) \in Places(p)
             /\ Behind(at, NextBars(at)).total = at.total + NextBars(at)
             /\ ToCut(p, Behind(at, NextBars(at))) < ToCut(p, at)
  <2> DEFINE b == NextBars(at)
  <2>1. b \in 1 .. ChunkBars /\ at.total + b \in 1 .. MaxTotalBars /\ at.left - b \in Nat
    <3> DEFINE x == at.left
               y == MaxTotalBars - at.total
    <3>1. x \in Nat \ {0} /\ y \in Nat \ {0}
      BY <1>1, <1>2, <1>4
    <3>2. b = Least(ChunkBars, Least(x, y))
      BY DEF NextBars
    <3> HIDE DEF x, y, b
    <3>3. b \in 1 .. ChunkBars /\ b <= x /\ b <= y
      BY <1>1, <3>1, <3>2 DEF Least
    <3>4. b \in Nat /\ b \in 1 .. ChunkBars
      BY <1>1, <3>3
    <3>5. at.left - b \in Nat
      BY <1>2, <3>3, <3>4 DEF x
    <3>6. at.total + b \in 1 .. MaxTotalBars
      BY <1>1, <1>2, <3>3, <3>4 DEF y
    <3>7. QED
      BY <3>4, <3>5, <3>6
  <2> HIDE DEF b
  <2>2. Behind(at, b) = [s |-> at.s, left |-> at.left - b, total |-> at.total + b]
    BY DEF Behind
  <2>3. /\ Behind(at, b).total = at.total + b /\ Behind(at, b).s = at.s
        /\ Behind(at, b) \in Places(p)
    BY <1>1, <1>2, <2>1, <2>2 DEF Places
  <2>4. ToCut(p, Behind(at, b)) < ToCut(p, at)
    <3> DEFINE to == Behind(at, b)
    <3>1. to.total = at.total + b /\ to.s = at.s
      BY <2>3
    <3> DEFINE u == at.total
               v == at.s
    <3>2. /\ u \in Nat /\ v \in 1 .. Len(p) /\ u < MaxTotalBars
          /\ b \in Nat \ {0} /\ u + b <= MaxTotalBars
      BY <1>1, <1>2, <2>1
    <3>3. /\ ToCut(p, to) = (Len(p) - v) +
               (IF u + b >= MaxTotalBars THEN 0 ELSE MaxTotalBars - (u + b))
          /\ ToCut(p, at) = (Len(p) - v) + (IF u >= MaxTotalBars THEN 0 ELSE MaxTotalBars - u)
      BY <3>1 DEF ToCut
    <3> HIDE DEF to, u, v
    <3>4. ToCut(p, to) < ToCut(p, at)
      BY <1>1, <3>2, <3>3
    <3>5. QED
      BY <3>4 DEF to
  <2>5. QED
    BY <2>1, <2>3, <2>4 DEF b
<1>5. QED
  BY <1>3, <1>4

\* Two functions that agree where there is less to cut agree on the next step.
LEMMA CutStepLocal ==
  ASSUME NEW p \in Seq(Nat \ {0}), NEW f, NEW g, NEW at \in Places(p),
         \A to \in Places(p) : ToCut(p, to) < ToCut(p, at) => f[to] = g[to]
  PROVE  CutStep(p, f, at) = CutStep(p, g, at)
<1>1. at.total \in Nat /\ MaxTotalBars \in Nat
  BY SectionalAssumption DEF Places
<1>2. CASE at.total < MaxTotalBars /\ at.left = 0 /\ at.s # Len(p)
  <2>1. f[NextSection(p, at)] = g[NextSection(p, at)]
    BY <1>2, ToCutDrops
  <2>2. QED
    BY <1>2, <2>1 DEF CutStep
<1>3. CASE at.total < MaxTotalBars /\ at.left # 0
  <2>1. f[Behind(at, NextBars(at))] = g[Behind(at, NextBars(at))]
    BY <1>3, ToCutDrops
  <2>2. QED
    BY <1>3, <2>1 DEF CutStep
<1>4. CASE at.total >= MaxTotalBars \/ (at.left = 0 /\ at.s = Len(p))
  BY <1>4 DEF CutStep
<1>5. QED
  BY <1>1, <1>2, <1>3, <1>4

\* The recursion of Segments has a solution.
LEMMA CutExists ==
  ASSUME NEW p \in Seq(Nat \ {0})
  PROVE  \E f : IsCut(p, f)
<1> DEFINE N == Len(p) + MaxTotalBars + 1
           Fits(f, n) == \A at \in Places(p) : ToCut(p, at) < n => f[at] = CutStep(p, f, at)
           S == {n \in Nat : \E f : Fits(f, n)}
<1>1. /\ N \in Nat
      /\ \A at \in Places(p) : ToCut(p, at) \in Nat /\ ToCut(p, at) < N
  <2>1. Len(p) \in Nat /\ MaxTotalBars \in Nat
    BY LenProperties, SectionalAssumption
  <2>2. QED
    BY <2>1, ToCutRange
<1> HIDE DEF N
<1>2. 0 \in S
  <2>1. Fits(0, 0)
    BY <1>1
  <2>2. QED
    BY <2>1
<1>3. ASSUME NEW n \in Nat, n \in S
      PROVE  n + 1 \in S
  <2>1. PICK f : Fits(f, n)
    BY <1>3
  <2> DEFINE g == [at \in Places(p) |-> IF ToCut(p, at) < n THEN f[at] ELSE CutStep(p, f, at)]
  <2>2. \A at \in Places(p) : g[at] = CutStep(p, f, at)
    BY <2>1
  <2>3. \A at \in Places(p) : ToCut(p, at) < n => f[at] = g[at]
    OBVIOUS
  <2> HIDE DEF g
  <2>4. ASSUME NEW at \in Places(p), ToCut(p, at) < n + 1
        PROVE  g[at] = CutStep(p, g, at)
    <3>1. \A to \in Places(p) : ToCut(p, to) < ToCut(p, at) => ToCut(p, to) < n
      BY <1>1, <2>4
    <3>2. \A to \in Places(p) : ToCut(p, to) < ToCut(p, at) => f[to] = g[to]
      BY <2>3, <3>1
    <3>3. CutStep(p, f, at) = CutStep(p, g, at)
      BY <3>2, CutStepLocal
    <3>4. QED
      BY <2>2, <3>3
  <2>5. Fits(g, n + 1)
    BY <2>4
  <2>6. QED
    BY <2>5
<1> HIDE DEF S
<1>4. N \in S
  BY <1>1, <1>2, <1>3, SetInduction
<1>5. PICK f : Fits(f, N)
  BY <1>4 DEF S
<1> DEFINE g == [at \in Places(p) |-> f[at]]
<1>6. \A at \in Places(p) : g[at] = CutStep(p, f, at) /\ f[at] = g[at]
  BY <1>1, <1>5
<1>7. \A at \in Places(p) : CutStep(p, f, at) = CutStep(p, g, at)
  BY <1>6, CutStepLocal
<1>8. DOMAIN g = Places(p) /\ g = [at \in Places(p) |-> g[at]]
  OBVIOUS
<1> HIDE DEF g
<1>9. g = [at \in Places(p) |-> CutStep(p, g, at)]
  BY <1>6, <1>7, <1>8
<1>10. QED
  BY <1>9 DEF IsCut

\* planToSegments cuts chunks of the right size that follow each other from
\* the first bar, and it cuts at least one.
LEMMA SegmentsTile ==
  ASSUME NEW p \in Seq(Nat \ {0}), p # <<>>
  PROVE  Segments(p) \in Tilings(0) /\ Segments(p) # <<>>
<1> DEFINE f == CHOOSE c : IsCut(p, c)
           start == [s |-> 1, left |-> p[1], total |-> 0]
           N == Len(p) + MaxTotalBars + 1
           S == {n \in Nat : \A at \in Places(p) : ToCut(p, at) < n => f[at] \in Tilings(at.total)}
<1>1. Segments(p) = f[start]
  BY DEF Segments, IsCut, CutStep, Places, NextSection, Behind, NextBars
<1>2. IsCut(p, f)
  BY CutExists
<1>3. Len(p) \in Nat /\ Len(p) # 0 /\ MaxTotalBars \in Nat \ {0}
  BY LenProperties, EmptySeq, SectionalAssumption
<1>4. /\ N \in Nat
      /\ \A at \in Places(p) : ToCut(p, at) \in Nat /\ ToCut(p, at) < N
  BY <1>3, ToCutRange
<1> HIDE DEF f, N
<1>5. \A at \in Places(p) : f[at] = CutStep(p, f, at)
  BY <1>2 DEF IsCut
\* A step at a place with bars left.
<1>6. ASSUME NEW at \in Places(p), at.total < MaxTotalBars, at.left # 0,
             f[Behind(at, NextBars(at))] \in Tilings(at.total + NextBars(at))
      PROVE  f[at] \in Tilings(at.total) /\ f[at] # <<>>
  <2> DEFINE b == NextBars(at)
             u == at.total
             c == Chunk(u + 1, b)
             r == f[Behind(at, b)]
  <2>1. b \in 1 .. ChunkBars /\ u + b \in 1 .. MaxTotalBars
    BY <1>6, ToCutDrops
  <2>2. u \in 0 .. MaxTotalBars
    BY <1>3, <1>6 DEF Places
  <2>3. f[at] = <<c>> \o r
    <3>1. ~(at.total >= MaxTotalBars)
      BY <1>3, <1>6, <2>2
    <3>2. CutStep(p, f, at) = <<c>> \o r
      BY <1>6, <3>1 DEF CutStep
    <3>3. QED
      BY <1>5, <3>2
  <2>4. r \in Tilings(u + b)
    BY <1>6
  <2> HIDE DEF b, u, r
  <2>5. c.first = u + 1 /\ c.bars = b
    BY DEF Chunk
  <2>6. c \in Pieces
    BY <1>3, <2>1, <2>2, SectionalAssumption DEF Pieces, Chunks, Chunk
  <2> HIDE DEF c
  <2>7. <<c>> \in Tilings(u) /\ EndOf(<<c>>, u) = u + 1 + b - 1
    BY <2>5, <2>6, TilingSingle
  <2>8. EndOf(<<c>>, u) = u + b
    BY <2>1, <2>2, <2>7
  <2>9. <<c>> \o r \in Tilings(u)
    BY <2>2, <2>4, <2>7, <2>8, TilingConcat
  <2>10. <<c>> \o r # <<>>
    <3>1. <<c>> \in Seq(Pieces) /\ r \in Seq(Pieces) /\ Len(<<c>>) = 1 /\ Len(r) \in Nat
      BY <2>4, <2>6, LenProperties DEF Tilings
    <3>2. Len(<<c>> \o r) = 1 + Len(r)
      BY <3>1, ConcatProperties
    <3>3. QED
      BY <3>1, <3>2, EmptySeq
  <2>11. QED
    BY <2>3, <2>9, <2>10 DEF u
<1>7. 0 \in S
  BY <1>4
<1>8. ASSUME NEW n \in Nat, n \in S
      PROVE  n + 1 \in S
  <2> SUFFICES ASSUME NEW at \in Places(p), ToCut(p, at) < n + 1
               PROVE  f[at] \in Tilings(at.total)
    OBVIOUS
  <2>1. \A to \in Places(p) : ToCut(p, to) < ToCut(p, at) => ToCut(p, to) < n
    BY <1>4
  <2>2. \A to \in Places(p) : ToCut(p, to) < ToCut(p, at) => f[to] \in Tilings(to.total)
    BY <1>8, <2>1
  <2>3. at.total \in Nat
    BY DEF Places
  <2> HIDE DEF S
  <2>4. CASE at.total >= MaxTotalBars \/ (at.left = 0 /\ at.s = Len(p))
    BY <1>5, <2>4, TilingEmpty DEF CutStep
  <2>5. CASE at.total < MaxTotalBars /\ at.left = 0 /\ at.s # Len(p)
    <3>1. f[NextSection(p, at)] \in Tilings(at.total)
      BY <2>2, <2>5, ToCutDrops
    <3>2. ~(at.total >= MaxTotalBars)
      BY <1>3, <2>3, <2>5
    <3>3. CutStep(p, f, at) = f[NextSection(p, at)]
      BY <2>5, <3>2 DEF CutStep
    <3>4. QED
      BY <1>5, <3>1, <3>3
  <2>6. CASE at.total < MaxTotalBars /\ at.left # 0
    BY <1>6, <2>2, <2>6, ToCutDrops
  <2>7. QED
    BY <1>3, <2>3, <2>4, <2>5, <2>6
<1> HIDE DEF S
<1>9. N \in S
  BY <1>4, <1>7, <1>8, SetInduction
<1>10. \A at \in Places(p) : f[at] \in Tilings(at.total)
  BY <1>4, <1>9 DEF S
<1>11. /\ start \in Places(p) /\ start.total = 0 /\ start.left # 0
  <2>1. p[1] \in Nat \ {0} /\ 1 \in 1 .. Len(p)
    BY <1>3, ElementOfSeq
  <2>2. QED
    BY <2>1 DEF Places
<1> HIDE DEF start
<1>12. start.total < MaxTotalBars
  BY <1>3, <1>11
<1>13. f[Behind(start, NextBars(start))] \in Tilings(start.total + NextBars(start))
  BY <1>10, <1>11, <1>12, ToCutDrops
<1>14. QED
  BY <1>1, <1>6, <1>11, <1>12, <1>13

-----------------------------------------------------------------------------
(* The invariant of the stream *)

LEMMA MetersCosts ==
  ASSUME StreamTypes, Meters
  PROVE  spent' \in Nat /\ metered' = TRUE
BY SectionalAssumption DEF StreamTypes, Meters

\* The tiling in the words of each stage.
LEMMA TiledParts ==
  ASSUME Tiled
  PROVE  /\ music \in Tilings(0)
         /\ EndOf(music, 0) \in 0 .. MaxTotalBars
         /\ music # <<>> <=> EndOf(music, 0) # 0
         /\ Len(music) \in Nat
         /\ music = <<>> <=> Len(music) = 0
         /\ stage = "planning" => music = <<>>
         /\ stage # "calling" => queue \in Tilings(EndOf(music, 0))
         /\ stage \in {"working", "section"} => plan = EndOf(queue, EndOf(music, 0)) /\ plan # 0
         /\ stage = "calling" =>
              /\ <<item>> \in Tilings(EndOf(music, 0))
              /\ EndOf(<<item>>, EndOf(music, 0)) \in 0 .. MaxTotalBars
              /\ queue \in Tilings(EndOf(<<item>>, EndOf(music, 0)))
              /\ plan = EndOf(queue, EndOf(<<item>>, EndOf(music, 0))) /\ plan # 0
<1>1. music \in Tilings(0) /\ 0 \in 0 .. MaxTotalBars
  BY SectionalAssumption DEF Tiled
<1>2. EndOf(music, 0) \in 0 .. MaxTotalBars /\ (music # <<>> => EndOf(music, 0) # 0)
  BY <1>1, EndRange
<1>3. music = <<>> => EndOf(music, 0) = 0
  BY DEF EndOf
<1>4. Len(music) \in Nat /\ (music = <<>> <=> Len(music) = 0)
  BY <1>1, LenProperties, EmptySeq DEF Tilings
<1>5. stage = "calling" => EndOf(<<item>>, EndOf(music, 0)) \in 0 .. MaxTotalBars
  BY <1>2, EndRange DEF Tiled
<1>6. QED
  BY <1>1, <1>2, <1>3, <1>4, <1>5 DEF Tiled

\* Away from a chunk at work, with the music and the queue as they were.
LEMMA TiledStays ==
  ASSUME Tiled, stage # "calling", stage' # "calling",
         music' = music, queue' = queue, plan' = plan,
         stage' # "planning",
         stage' = "working" => stage = "section", stage' # "section"
  PROVE  Tiled'
<1>1. /\ music \in Tilings(0) /\ queue \in Tilings(EndOf(music, 0))
      /\ stage \in {"working", "section"} => plan = EndOf(queue, EndOf(music, 0)) /\ plan # 0
  BY TiledParts
<1>2. EndOf(music, 0)' = EndOf(music, 0)
  BY DEF EndOf
<1>3. (queue \in Tilings(EndOf(music, 0)))' /\ (music \in Tilings(0))'
  BY <1>1, <1>2 DEF Tilings
<1>4. stage' = "working" => (plan = EndOf(queue, EndOf(music, 0)) /\ plan # 0)'
  BY <1>1, <1>2 DEF EndOf
<1>5. QED
  BY <1>3, <1>4 DEF Tiled

LEMMA StreamInvInit == StreamInit => StreamInv
<1> SUFFICES ASSUME StreamInit
             PROVE  StreamInv
  OBVIOUS
<1>1. StreamTypes
  <2>1. plan \in 0 .. MaxTotalBars
    BY SectionalAssumption DEF StreamInit
  <2>2. /\ payer \in {"hold", "free", "none"} /\ stage \in Stages
        /\ stage # "calling" /\ spent \in Nat /\ metered \in BOOLEAN
    BY DEF StreamInit, Stages
  <2>3. hold \in {"none", "active"} /\ freeGrant \in {"none", "claimed"}
    BY DEF StreamInit
  <2>4. QED
    BY <2>1, <2>2, <2>3 DEF StreamTypes
<1>2. Tiled
  BY TilingEmpty DEF StreamInit, Tiled
<1>3. Len(music) = 0 /\ 0 \in 0 .. Len(music)
  BY DEF StreamInit
<1>4. Followed
  BY <1>3 DEF StreamInit, Followed
<1>5. Squared
  BY SectionalAssumption DEF StreamInit, Squared
<1>6. QED
  BY <1>1, <1>2, <1>4, <1>5 DEF StreamInv

\* The chunks of the plan: all of them are queued at the start.
LEMMA PlanTiles ==
  ASSUME StreamInv, PlanMade
  PROVE  /\ Tiled' /\ queue' # <<>> /\ plan' \in 0 .. MaxTotalBars
         /\ Head(queue') \in Pieces
<1>1. music = <<>> /\ music' = <<>> /\ stage' = "working" /\ stage = "planning"
  BY TiledParts DEF StreamInv, PlanMade, generatorVars, Goes
<1>2. queue' \in Tilings(0) /\ queue' # <<>>
  <2>1. <<FallbackBars>> \in Seq(Nat \ {0}) /\ <<FallbackBars>> # <<>>
    BY SectionalAssumption
  <2>2. \A p \in Plans : p \in Seq(Nat \ {0}) /\ p # <<>>
    BY SectionalAssumption
  <2>3. \/ \E p \in Plans : queue' = Segments(p)
        \/ queue' = Segments(<<FallbackBars>>)
    BY DEF PlanMade
  <2>4. QED
    BY <2>1, <2>2, <2>3, SegmentsTile
<1>3. plan' = EndOf(queue', 0)
  BY <1>2, BarsOfTiling DEF PlanMade
<1>4. plan' \in 0 .. MaxTotalBars /\ plan' # 0
  BY <1>2, <1>3, EndRange, SectionalAssumption
<1>5. EndOf(music', 0) = 0 /\ music' \in Tilings(0)
  BY <1>1, TilingEmpty
<1>6. Tiled'
  BY <1>1, <1>2, <1>3, <1>4, <1>5 DEF Tiled, EndOf, Tilings
<1>7. Head(queue') \in Pieces
  BY <1>2, HeadTailProperties DEF Tilings
<1>8. QED
  BY <1>2, <1>4, <1>6, <1>7

LEMMA TakenTiles ==
  ASSUME StreamInv, TakesChunk
  PROVE  Tiled'
<1> DEFINE at == EndOf(music, 0)
<1>1. /\ music \in Tilings(0) /\ at \in 0 .. MaxTotalBars
      /\ queue \in Tilings(at) /\ plan = EndOf(queue, at) /\ plan # 0
  BY TiledParts DEF StreamInv, TakesChunk
<1>2. /\ stage' = "calling" /\ music' = music /\ plan' = plan
      /\ item' = Head(queue) /\ queue' = Tail(queue) /\ queue # <<>>
  BY DEF TakesChunk, Goes
<1> HIDE DEF at
<1>3. /\ <<item'>> \in Tilings(at) /\ queue' \in Tilings(EndOf(<<item'>>, at))
      /\ EndOf(queue', EndOf(<<item'>>, at)) = plan
  BY <1>1, <1>2, TilingHead
<1>4. EndOf(music', 0) = at /\ music' \in Tilings(0)
  BY <1>1, <1>2 DEF at
<1>5. /\ EndOf(music, 0)' = at /\ EndOf(<<item>>, EndOf(music, 0))' = EndOf(<<item'>>, at)
      /\ (music \in Tilings(0))' <=> music' \in Tilings(0)
  BY <1>4 DEF EndOf, Tilings
<1>6. /\ (<<item>> \in Tilings(EndOf(music, 0)))' <=> <<item'>> \in Tilings(at)
      /\ (queue \in Tilings(EndOf(<<item>>, EndOf(music, 0))))'
           <=> queue' \in Tilings(EndOf(<<item'>>, at))
      /\ EndOf(queue, EndOf(<<item>>, EndOf(music, 0)))' = EndOf(queue', EndOf(<<item'>>, at))
  BY <1>5 DEF EndOf, Tilings
<1>7. QED
  BY <1>1, <1>2, <1>3, <1>4, <1>5, <1>6 DEF Tiled

LEMMA WrittenTiles ==
  ASSUME StreamInv, ChunkWritten
  PROVE  Tiled' /\ Len(music') = Len(music) + 1 /\ music' # <<>>
<1> DEFINE at == EndOf(music, 0)
           end == EndOf(<<item>>, at)
<1>1. /\ music \in Tilings(0) /\ at \in 0 .. MaxTotalBars
      /\ <<item>> \in Tilings(at) /\ queue \in Tilings(end)
      /\ plan = EndOf(queue, end) /\ plan # 0
  BY TiledParts DEF StreamInv, ChunkWritten
<1>2. /\ stage' = "section" /\ music' = Append(music, item)
      /\ plan' = plan /\ queue' = queue
  BY DEF ChunkWritten, Goes
<1>3. /\ item \in Pieces /\ music \in Seq(Pieces) /\ Len(music) \in Nat
  BY <1>1, TilingSingle, LenProperties DEF Tilings
<1>4. music' = music \o <<item>> /\ Len(music') = Len(music) + 1 /\ music' \in Seq(Pieces)
  BY <1>2, <1>3, AppendProperties, AppendIsConcat
<1>5. music' # <<>>
  BY <1>3, <1>4, EmptySeq
<1>6. music' \in Tilings(0) /\ EndOf(music', 0) = end
  BY <1>1, <1>4, TilingConcat, SectionalAssumption
<1> HIDE DEF at, end
<1>7. Tiled'
  BY <1>1, <1>2, <1>6 DEF Tiled, EndOf, Tilings
<1>8. QED
  BY <1>4, <1>5, <1>7

LEMMA SplitTiles ==
  ASSUME StreamInv, ChunkSplit
  PROVE  /\ Tiled' /\ queue' # <<>>
         /\ item \in Pieces
         /\ Head(queue').bars = (item.bars + 1) \div 2
<1> DEFINE at == EndOf(music, 0)
           end == EndOf(<<item>>, at)
           h == Halved(item)
<1>1. /\ music \in Tilings(0) /\ at \in 0 .. MaxTotalBars
      /\ <<item>> \in Tilings(at) /\ queue \in Tilings(end)
      /\ plan = EndOf(queue, end) /\ plan # 0
  BY TiledParts DEF StreamInv, ChunkSplit
<1>2. /\ stage' = "working" /\ music' = music
      /\ plan' = plan /\ queue' = h \o queue /\ item.bars > 1
  BY DEF ChunkSplit, Goes
<1> HIDE DEF at, h
<1>3. /\ h \in Tilings(at) /\ h # <<>> /\ EndOf(h, at) = end
      /\ Head(h).bars = (item.bars + 1) \div 2
  BY <1>1, <1>2, TilingHalved DEF h
<1> HIDE DEF end
<1>4. queue' \in Tilings(at) /\ EndOf(queue', at) = plan
  BY <1>1, <1>2, <1>3, TilingConcat
<1>5. item \in Pieces
  BY <1>1, TilingSingle
<1>6. queue' # <<>> /\ Head(queue') = Head(h)
  <2>1. /\ h \in Seq(Pieces) /\ queue \in Seq(Pieces) /\ Len(h) \in Nat /\ Len(h) # 0
        /\ Len(queue) \in Nat
    BY <1>1, <1>3, LenProperties, EmptySeq DEF Tilings
  <2>2. /\ queue' \in Seq(Pieces) /\ Len(queue') = Len(h) + Len(queue)
        /\ queue'[1] = h[1]
    BY <1>2, <2>1, ConcatProperties
  <2>3. queue' # <<>>
    BY <2>1, <2>2, EmptySeq
  <2>4. QED
    BY <1>3, <2>1, <2>2, <2>3, HeadTailProperties
<1>7. EndOf(music', 0) = at
  BY <1>2 DEF at
<1>8. Tiled'
  BY <1>1, <1>2, <1>4, <1>7 DEF Tiled, EndOf, Tilings
<1>9. QED
  BY <1>3, <1>5, <1>6, <1>8

LEMMA GivenUpTiles ==
  ASSUME StreamInv, ChunkGivenUp
  PROVE  Tiled'
<1>1. music \in Tilings(0) /\ EndOf(music, 0) \in 0 .. MaxTotalBars
  BY TiledParts DEF StreamInv
<1>2. stage' \in {"closing", "finishing"} /\ queue' = <<>> /\ music' = music
  BY DEF ChunkGivenUp, Goes
<1>3. <<>> \in Tilings(EndOf(music, 0))
  BY TilingEmpty
<1>4. QED
  BY <1>1, <1>2, <1>3 DEF Tiled, EndOf, Tilings

\* What the chunks are stays true.
LEMMA TiledKept ==
  ASSUME StreamInv, [StreamNext]_streamVars
  PROVE  Tiled'
<1> USE DEF StreamInv
<1>1. CASE PlanMade
  BY <1>1, PlanTiles
<1>2. CASE TakesChunk
  BY <1>2, TakenTiles
<1>3. CASE ChunkWritten
  BY <1>3, WrittenTiles
<1>4. CASE ChunkInvalid
  BY <1>4 DEF ChunkInvalid, Tiled, EndOf, Tilings
<1>5. CASE ChunkSplit
  BY <1>5, SplitTiles
<1>6. CASE ChunkGivenUp
  BY <1>6, GivenUpTiles
<1>7. CASE QueueDone
  BY <1>7, TiledStays DEF QueueDone, Goes, generatorVars
<1>8. CASE SectionSent
  BY <1>8, TiledStays DEF SectionSent, Goes, generatorVars
<1>9. CASE Settles
  BY <1>9, TiledStays DEF Settles, Goes, generatorVars
<1>10. CASE Persists
  BY <1>10, TiledStays DEF Persists, Goes, generatorVars
<1>11. CASE PersistFails
  BY <1>11, TiledStays DEF PersistFails, Goes, generatorVars
<1>12. CASE PumpThrows
  BY <1>12, TiledStays DEF PumpThrows, Goes, generatorVars
<1>13. CASE Closes
  BY <1>13, TiledStays DEF Closes, Goes, generatorVars
<1>14. CASE DeadlinePasses
  BY <1>14 DEF DeadlinePasses, generatorVars, Tiled, EndOf, Tilings
<1>15. CASE UNCHANGED streamVars
  BY <1>15 DEF streamVars, generatorVars, Tiled, EndOf, Tilings
<1>16. QED
  BY <1>1, <1>2, <1>3, <1>4, <1>5, <1>6, <1>7, <1>8, <1>9, <1>10, <1>11, <1>12, <1>13,
     <1>14, <1>15 DEF StreamNext, StreamStep

\* Types: only what a call costs and how the plan is counted need an argument.
LEMMA TypesKept ==
  ASSUME StreamInv, [StreamNext]_streamVars
  PROVE  StreamTypes'
<1>1. CallTries \in Nat \ {0}
  BY SectionalAssumption
<1> USE DEF StreamTypes, Stages, Goes, generatorVars, moneyVars, meterVars
<1>2. CASE PlanMade
  <2>1. plan' \in 0 .. MaxTotalBars
    BY <1>2, PlanTiles
  <2>2. spent' \in Nat /\ metered' \in BOOLEAN
    BY <1>2, MetersCosts DEF PlanMade, StreamInv
  <2>3. QED
    BY <1>2, <2>1, <2>2 DEF PlanMade, StreamInv
<1>3. CASE TakesChunk
  BY <1>1, <1>3 DEF TakesChunk, StreamInv
<1>4. CASE ChunkWritten
  BY <1>4, MetersCosts DEF ChunkWritten, StreamInv
<1>5. CASE ChunkInvalid
  <2>1. tries \in 0 .. CallTries - 1 /\ tries + 1 < CallTries /\ tries' = tries + 1
    BY <1>5 DEF ChunkInvalid, MayTryAgain, StreamInv
  <2>2. tries' \in 0 .. CallTries - 1
    BY <1>1, <2>1
  <2>3. spent' \in Nat /\ metered' \in BOOLEAN
    BY <1>5, MetersCosts DEF ChunkInvalid, StreamInv
  <2>4. UNCHANGED <<payer, stage, plan, hold, freeGrant>>
    BY <1>5 DEF ChunkInvalid
  <2>5. QED
    BY <2>2, <2>3, <2>4 DEF StreamInv
<1>6. CASE ChunkSplit
  BY <1>6, MetersCosts DEF ChunkSplit, StreamInv
<1>7. CASE ChunkGivenUp
  <2>1. spent' \in Nat /\ metered' \in BOOLEAN
    BY <1>7, MetersCosts DEF ChunkGivenUp, StreamInv
  <2>2. QED
    BY <1>7, <2>1 DEF ChunkGivenUp, StreamInv
<1>8. CASE QueueDone
  BY <1>8 DEF QueueDone, StreamInv
<1>9. CASE SectionSent
  BY <1>9 DEF SectionSent, StreamInv
<1>10. CASE Settles
  <2>1. /\ hold' \in {"none", "active", "settled", "released"}
        /\ stage' = "persisting"
    BY <1>10 DEF Settles, StreamInv
  <2>2. UNCHANGED <<payer, plan, spent, metered, freeGrant>>
    BY <1>10 DEF Settles
  <2>3. QED
    BY <2>1, <2>2 DEF StreamInv
<1>11. CASE Persists
  BY <1>11 DEF Persists, StreamInv
<1>12. CASE PersistFails
  BY <1>12 DEF PersistFails, StreamInv
<1>13. CASE PumpThrows
  <2>1. spent' \in Nat /\ metered' \in BOOLEAN
    BY <1>13, MetersCosts DEF PumpThrows, StreamInv
  <2>2. QED
    BY <1>13, <2>1 DEF PumpThrows, StreamInv
<1>14. CASE Closes
  BY <1>14 DEF Closes, StreamInv
<1>15. CASE DeadlinePasses
  BY <1>15 DEF DeadlinePasses, StreamInv
<1>16. CASE UNCHANGED streamVars
  BY <1>16 DEF streamVars, StreamInv
<1>17. QED
  BY <1>2, <1>3, <1>4, <1>5, <1>6, <1>7, <1>8, <1>9, <1>10, <1>11, <1>12, <1>13,
     <1>14, <1>15, <1>16 DEF StreamNext, StreamStep

LEMMA FollowedKept ==
  ASSUME StreamInv, [StreamNext]_streamVars
  PROVE  Followed'
<1>1. /\ Len(music) \in Nat /\ stage \in Stages
      /\ stage = "working" /\ queue = <<>> => music # <<>>
  <2>1. stage = "working" /\ queue = <<>> => EndOf(music, 0) # 0
    BY TiledParts DEF StreamInv, EndOf
  <2>2. QED
    BY <2>1, TiledParts DEF StreamInv, StreamTypes
<1> USE DEF Followed, Stages, Goes, generatorVars, moneyVars, meterVars
<1>2. CASE PlanMade
  BY <1>1, <1>2, MetersCosts DEF PlanMade, StreamInv
<1>3. CASE TakesChunk
  BY <1>1, <1>3 DEF TakesChunk, StreamInv
<1>4. CASE ChunkWritten
  BY <1>1, <1>4, WrittenTiles, MetersCosts DEF ChunkWritten, StreamInv
<1>5. CASE ChunkInvalid
  BY <1>1, <1>5, MetersCosts DEF ChunkInvalid, StreamInv
<1>6. CASE ChunkSplit
  BY <1>1, <1>6, MetersCosts DEF ChunkSplit, StreamInv
<1>7. CASE ChunkGivenUp
  <2>1. metered => metered'
    BY <1>7, MetersCosts DEF ChunkGivenUp, StreamInv
  <2>2. QED
    BY <1>1, <1>7, <2>1 DEF ChunkGivenUp, StreamInv
<1>8. CASE QueueDone
  BY <1>1, <1>8 DEF QueueDone, StreamInv
<1>9. CASE SectionSent
  BY <1>1, <1>9 DEF SectionSent, StreamInv
<1>10. CASE Settles
  BY <1>1, <1>10 DEF Settles, StreamInv
<1>11. CASE Persists
  BY <1>1, <1>11 DEF Persists, StreamInv
<1>12. CASE PersistFails
  BY <1>1, <1>12 DEF PersistFails, StreamInv
<1>13. CASE PumpThrows
  <2>1. metered => metered'
    BY <1>13, MetersCosts DEF PumpThrows, StreamInv
  <2>2. QED
    BY <1>1, <1>13, <2>1 DEF PumpThrows, StreamInv
<1>14. CASE Closes
  BY <1>1, <1>14 DEF Closes, StreamInv
<1>15. CASE DeadlinePasses
  BY <1>1, <1>15 DEF DeadlinePasses, StreamInv
<1>16. CASE UNCHANGED streamVars
  BY <1>1, <1>16 DEF streamVars, StreamInv
<1>17. QED
  BY <1>2, <1>3, <1>4, <1>5, <1>6, <1>7, <1>8, <1>9, <1>10, <1>11, <1>12, <1>13,
     <1>14, <1>15, <1>16 DEF StreamNext, StreamStep

\* A call is metered before the last frame only, so what was settled stays
\* what was spent.
LEMMA SquaredKept ==
  ASSUME StreamInv, [StreamNext]_streamVars
  PROVE  Squared'
<1>1. Budget \in Nat /\ spent \in Nat /\ stage \in Stages /\ charged \in 0 .. Budget
  BY SectionalAssumption DEF StreamInv, StreamTypes, Squared
<1>2. Least(spent, Budget) \in 0 .. Budget
  BY <1>1 DEF Least
<1>3. /\ stage \in {"closing", "over"} => ending \in {"done", "error"}
      /\ stage \notin {"closing", "over"} => ending = "none"
      /\ ending = "done" => metered
  BY DEF StreamInv, Followed
<1> USE DEF Stages, Goes, generatorVars, moneyVars, meterVars
<1>4. ASSUME stage \in {"planning", "working", "calling", "section"},
             stage' \in {"working", "calling", "section", "finishing"},
             ending' = ending, hold' = hold, charged' = charged, freeGrant' = freeGrant,
             payer' = payer
      PROVE  Squared'
  BY <1>1, <1>3, <1>4 DEF StreamInv, Squared
<1>5. CASE PlanMade
  BY <1>4, <1>5 DEF PlanMade
<1>6. CASE TakesChunk
  BY <1>4, <1>6 DEF TakesChunk
<1>7. CASE ChunkWritten
  BY <1>4, <1>7 DEF ChunkWritten
<1>8. CASE ChunkInvalid
  BY <1>4, <1>8 DEF ChunkInvalid
<1>9. CASE ChunkSplit
  BY <1>4, <1>9 DEF ChunkSplit
<1>10. CASE ChunkGivenUp
  <2>1. CASE music = <<>>
    BY <1>1, <1>3, <1>10, <2>1 DEF ChunkGivenUp, StreamInv, Squared
  <2>2. CASE music # <<>>
    BY <1>4, <1>10, <2>2 DEF ChunkGivenUp
  <2>3. QED
    BY <2>1, <2>2
<1>11. CASE QueueDone
  BY <1>4, <1>11 DEF QueueDone
<1>12. CASE SectionSent
  BY <1>4, <1>12 DEF SectionSent
<1>13. CASE Settles
  BY <1>1, <1>2, <1>3, <1>13 DEF Settles, StreamInv, Squared
<1>14. CASE Persists
  BY <1>1, <1>2, <1>3, <1>14 DEF Persists, StreamInv, Squared
<1>15. CASE PersistFails
  BY <1>1, <1>3, <1>15 DEF PersistFails, StreamInv, Squared
<1>16. CASE PumpThrows
  BY <1>1, <1>3, <1>16 DEF PumpThrows, StreamInv, Squared
<1>17. CASE Closes
  BY <1>1, <1>2, <1>3, <1>17 DEF Closes, NothingMetered, StreamInv, Squared, StreamTypes
<1>18. CASE DeadlinePasses
  BY <1>1, <1>3, <1>18 DEF DeadlinePasses, StreamInv, Squared
<1>19. CASE UNCHANGED streamVars
  BY <1>1, <1>19 DEF streamVars, StreamInv, Squared
<1>20. QED
  BY <1>5, <1>6, <1>7, <1>8, <1>9, <1>10, <1>11, <1>12, <1>13,
     <1>14, <1>15, <1>16, <1>17, <1>18, <1>19 DEF StreamNext, StreamStep

LEMMA StreamInvKept == StreamInv /\ [StreamNext]_streamVars => StreamInv'
BY TiledKept, TypesKept, FollowedKept, SquaredKept DEF StreamInv

\* The inductive invariant holds in every state of every stream.
THEOREM StreamInvariant == StreamSpec => []StreamInv
BY StreamInvInit, StreamInvKept, PTL DEF StreamSpec

\* Chunks stay within their size and the piece, no chunk gets more calls than
\* it may, and the charge stays within the hold.
THEOREM StreamTypeCorrect == StreamSpec => []StreamTypeOK
<1>1. ASSUME StreamInv
      PROVE  StreamTypeOK
  <2>1. /\ music \in Seq(Pieces) /\ queue \in Seq(Pieces)
        /\ stage = "calling" => item \in Pieces
    BY <1>1, TilingSingle DEF StreamInv, Tiled, Tilings
  <2>2. \A c \in Seq(Pieces) : \A i \in DOMAIN c : c[i] \in Chunks
    BY LenProperties, ElementOfSeq DEF Pieces
  <2>3. stage = "calling" => item \in Chunks
    BY <2>1 DEF Pieces
  <2>4. (\A i \in DOMAIN queue : queue[i] \in Chunks) /\ (\A i \in DOMAIN music : music[i] \in Chunks)
    BY <2>1, <2>2
  <2>5. /\ stage = "calling" => tries \in 0 .. CallTries - 1
        /\ plan \in 0 .. MaxTotalBars /\ shown \in 0 .. Len(music)
        /\ spent \in Nat /\ charged \in 0 .. Budget
        /\ hold \in {"none", "active", "settled", "released"}
        /\ freeGrant \in {"none", "claimed", "released"}
    BY <1>1 DEF StreamInv, StreamTypes, Followed, Squared
  <2>6. QED
    BY <2>3, <2>4, <2>5 DEF StreamTypeOK
<1>2. QED
  BY <1>1, StreamInvariant, PTL

\* However chunks are split and tried again, what is written, at work and
\* waiting is the plan, each bar once and in order; what is delivered is what
\* was written and shown.
THEOREM StreamPieceInOrder == StreamSpec => []PieceInOrder
<1>1. ASSUME StreamInv
      PROVE  PieceInOrder
  <2> DEFINE at == EndOf(music, 0)
             mid == IF stage = "calling" THEN <<item>> ELSE <<>>
             work == music \o mid \o queue
  <2>1. music \in Tilings(0) /\ at \in 0 .. MaxTotalBars /\ 0 \in 0 .. MaxTotalBars
    BY <1>1, TiledParts, SectionalAssumption DEF StreamInv
  <2>2. mid \in Tilings(at) /\ queue \in Tilings(EndOf(mid, at))
    <3>1. CASE stage = "calling"
      BY <1>1, <3>1, TiledParts DEF StreamInv
    <3>2. CASE stage # "calling"
      BY <1>1, <3>2, TiledParts, TilingEmpty DEF StreamInv
    <3>3. QED
      BY <3>1, <3>2
  <2>3. stage \in {"working", "calling", "section"} => plan = EndOf(queue, EndOf(mid, at))
    <3>1. CASE stage = "calling"
      BY <1>1, <3>1, TiledParts DEF StreamInv
    <3>2. CASE stage # "calling"
      BY <1>1, <3>2, TiledParts, TilingEmpty DEF StreamInv
    <3>3. QED
      BY <3>1, <3>2
  <2> HIDE DEF mid
  <2>4. music \o mid \in Tilings(0) /\ EndOf(music \o mid, 0) = EndOf(mid, at)
    BY <2>1, <2>2, TilingConcat
  <2>5. work \in Tilings(0) /\ EndOf(work, 0) = EndOf(queue, EndOf(mid, at))
    BY <2>1, <2>2, <2>4, TilingConcat
  <2> HIDE DEF work
  <2>6. InOrder(work)
    BY <2>5 DEF InOrder, Tilings
  <2>7. stage \in {"working", "calling", "section"} => BarsOf(work) = plan
    BY <2>3, <2>5, BarsOfTiling
  <2>8. ending = "done" => saved = music /\ shown = Len(saved) /\ saved # <<>>
    BY <1>1 DEF StreamInv, Followed
  <2>9. QED
    BY <2>6, <2>7, <2>8 DEF PieceInOrder, work, mid
<1>2. QED
  BY <1>1, StreamInvariant, PTL

\* Whatever ended the stream, the hold and the free piece come out square.
THEOREM StreamEndsSquare == StreamSpec => []EndsSquare
<1>1. ASSUME StreamInv
      PROVE  EndsSquare
  BY <1>1 DEF StreamInv, StreamTypes, Followed, Squared, EndsSquare
<1>2. QED
  BY <1>1, StreamInvariant, PTL

-----------------------------------------------------------------------------
(* What the stream can cost beyond its budget *)

LEMMA DearestIs ==
  DearestCall \in Nat /\ \A c \in CallCosts : c \in Nat /\ c <= DearestCall
<1>1. \E c \in CallCosts : \A d \in CallCosts : d <= c
  BY SectionalAssumption
<1>2. DearestCall \in CallCosts /\ \A d \in CallCosts : d <= DearestCall
  BY <1>1 DEF DearestCall
<1>3. QED
  BY <1>2, SectionalAssumption

\* The calls a chunk may still need are among those between two looks.
LEMMA CallsLeft ==
  ASSUME NEW c \in Pieces
  PROVE  /\ CallsPerLook \in Nat /\ Calls[c.bars] \in Nat
         /\ CallTries <= Calls[c.bars] /\ Calls[c.bars] <= CallsPerLook
<1>1. c.bars \in 1 .. ChunkBars /\ ChunkBars \in 1 .. ChunkBars /\ c.bars <= ChunkBars
  BY PieceBars, SectionalAssumption
<1>2. QED
  BY <1>1, CallsGrow, CallsPerLookIs

\* One more call is one more call; a later look is no tighter.
LEMMA WithinOne ==
  ASSUME StreamTypes, NEW n \in Nat, Within(n, spent), Meters
  PROVE  Within(n + 1, spent')
<1>1. PICK c \in CallCosts : spent' = spent + c
  BY DEF Meters
<1>2. /\ c \in Nat /\ c <= DearestCall /\ DearestCall \in Nat
      /\ spent \in Nat /\ Budget \in Nat /\ Margin \in Nat
  BY DearestIs, SectionalAssumption DEF StreamTypes
<1> DEFINE D == DearestCall
<1>3. ((n + 1) + 1) * D = (n + 1) * D + D /\ (n + 1) * D = n * D + D
      /\ n * D \in Nat /\ (n + 1) * D \in Nat
  BY <1>2
<1>4. Within(n + 1, spent') <=> \/ spent' <= ((n + 1) + 1) * D
                         \/ spent' < Budget - Margin + (n + 1) * D
  BY DEF Within
<1>5. spent <= (n + 1) * D \/ spent < Budget - Margin + n * D
  BY DEF Within
<1> DEFINE x == n * D
           y == (n + 1) * D
           z == ((n + 1) + 1) * D
<1> HIDE DEF x, y, z, D
<1>6. z = y + D /\ y = x + D /\ x \in Nat /\ y \in Nat
  BY <1>3 DEF x, y, z
<1>7. c \in Nat /\ c <= D /\ D \in Nat
  BY <1>2 DEF D
<1>8. spent <= y \/ spent < Budget - Margin + x
  BY <1>5 DEF x, y
<1>9. spent' <= z \/ spent' < Budget - Margin + y
  BY <1>1, <1>2, <1>6, <1>7, <1>8
<1>10. QED
  BY <1>4, <1>9 DEF y, z

LEMMA WithinMore ==
  ASSUME NEW paid \in Nat, NEW n \in Nat, NEW m \in Nat, n <= m, Within(n, paid)
  PROVE  Within(m, paid)
<1> DEFINE D == DearestCall
<1>1. D \in Nat  /\ Budget \in Nat /\ Margin \in Nat
  BY DearestIs, SectionalAssumption
<1>2. PICK k \in Nat : m = n + k
  <2>1. m - n \in Nat /\ m = n + (m - n)
    OBVIOUS
  <2>2. QED
    BY <2>1
<1> HIDE DEF D
<1>3. m * D = n * D + k * D /\ (m + 1) * D = (n + 1) * D + k * D
      /\ k * D \in Nat /\ n * D \in Nat /\ (n + 1) * D \in Nat
  BY <1>1, <1>2
<1> DEFINE x == n * D
           y == (n + 1) * D
           u == m * D
           v == (m + 1) * D
           w == k * D
<1>4. paid <= y \/ paid < Budget - Margin + x
  BY DEF Within, D
<1>5. u = x + w /\ v = y + w /\ w \in Nat /\ x \in Nat /\ y \in Nat
  BY <1>3
<1> HIDE DEF x, y, u, v, w
<1>6. paid <= v \/ paid < Budget - Margin + u
  BY <1>1, <1>4, <1>5
<1>7. QED
  BY <1>6 DEF Within, D, u, v

\* One call out of nothing spent, a look that lets the stream go on.
LEMMA WithinFirst ==
  ASSUME StreamTypes, spent = 0
  PROVE  Within(0, spent) /\ (Meters => Within(0, spent'))
<1>1. DearestCall \in Nat /\ \A c \in CallCosts : c \in Nat /\ c <= DearestCall
  BY DearestIs
<1>2. (0 + 1) * DearestCall = DearestCall
  BY <1>1
<1>3. Within(0, spent)
  BY <1>1, <1>2 DEF Within
<1>4. ASSUME Meters PROVE Within(0, spent')
  <2>1. spent' <= DearestCall
    BY <1>1, <1>4 DEF Meters
  <2>2. QED
    BY <1>2, <2>1 DEF Within
<1>5. QED
  BY <1>3, <1>4

LEMMA WithinLook ==
  ASSUME StreamTypes, payer # "none", ~OverBudget
  PROVE  Within(0, spent)
<1>1. spent \in Nat /\ Budget \in Nat /\ Margin \in Nat /\ DearestCall \in Nat
  BY DearestIs, SectionalAssumption DEF StreamTypes
<1>2. spent < Budget - Margin
  BY <1>1 DEF OverBudget, StreamTypes
<1>3. 0 * DearestCall = 0
  BY <1>1
<1>4. QED
  BY <1>1, <1>2, <1>3 DEF Within

LEMMA CallsPerLookNat == CallsPerLook \in Nat
<1>1. ChunkBars \in 1 .. ChunkBars
  BY SectionalAssumption
<1>2. QED
  BY <1>1, CallsGrow, CallsPerLookIs

LEMMA SpendInvInit == StreamInit => SpendInv
<1> SUFFICES ASSUME StreamInit
             PROVE  SpendInv
  OBVIOUS
<1>1. StreamTypes /\ spent = 0 /\ stage = "planning"
  BY StreamInvInit DEF StreamInv, StreamInit
<1>2. Within(CallsPerLook, spent)
  BY <1>1, WithinFirst, WithinMore, CallsPerLookNat DEF StreamTypes
<1>3. QED
  BY <1>1, <1>2 DEF SpendInv

\* The bound when nothing is spent, and the stream is not at a chunk after.
LEMMA SpendStays ==
  ASSUME SpendInv, spent' = spent, payer' = payer,
         stage' \notin {"planning", "working", "calling"}
  PROVE  SpendInv'
BY DEF SpendInv, Within

LEMMA SpendInvKept ==
  ASSUME StreamInv, StreamInv', SpendInv, [StreamNext]_streamVars
  PROVE  SpendInv'
<1> SUFFICES ASSUME payer # "none", payer' = payer
             PROVE  SpendInv'
  <2>1. payer' = payer
    BY DEF StreamNext, StreamStep, streamVars, PlanMade, TakesChunk, ChunkWritten, ChunkInvalid,
       ChunkSplit, ChunkGivenUp, QueueDone, SectionSent, Settles, Persists, PersistFails,
       PumpThrows, Closes, DeadlinePasses
  <2>2. QED
    BY <2>1 DEF SpendInv
<1> DEFINE C == CallsPerLook
<1>1. StreamTypes /\ StreamTypes' /\ C \in Nat
  BY CallsPerLookNat DEF StreamInv
<1>2. /\ stage = "planning" => spent = 0
      /\ stage = "working" /\ queue # <<>> => Within(C - Calls[Head(queue).bars], spent)
      /\ stage = "calling" => Within(C - Calls[item.bars] + tries, spent)
      /\ Within(C, spent)
  BY DEF SpendInv
<1>3. ASSUME stage = "calling"
      PROVE  /\ item \in Pieces /\ item.bars \in Nat
             /\ Calls[item.bars] \in Nat /\ CallTries <= Calls[item.bars]
             /\ Calls[item.bars] <= C /\ CallTries \in Nat
             /\ tries \in Nat /\ tries + 1 <= CallTries
  <2>1. item \in Pieces
    BY <1>3, TilingSingle, TiledParts DEF StreamInv
  <2>2. item.bars \in Nat
    BY <2>1, PieceBars
  <2>3. CallTries \in Nat /\ tries \in 0 .. CallTries - 1
    BY <1>3, <1>1, SectionalAssumption DEF StreamTypes
  <2>4. QED
    BY <2>1, <2>2, <2>3, CallsLeft
\* A chunk at work that is tried once more costs one call more.
<1>4. ASSUME stage = "calling", Meters
      PROVE  /\ C - Calls[item.bars] + tries + 1 \in Nat
             /\ C - Calls[item.bars] + tries + 1 <= C
             /\ Within(C - Calls[item.bars] + tries + 1, spent')
  <2>1. C - Calls[item.bars] + tries \in Nat /\ C - Calls[item.bars] + tries + 1 <= C
    BY <1>1, <1>3, <1>4
  <2>2. QED
    BY <1>1, <1>2, <1>4, <2>1, WithinOne
<1>5. ASSUME NEW n \in Nat, NEW m \in Nat, n <= m, Within(n, spent')
      PROVE  Within(m, spent')
  BY <1>1, <1>5, WithinMore DEF StreamTypes
<1>6. ASSUME stage = "calling", Meters
      PROVE  Within(C, spent')
  BY <1>1, <1>4, <1>5, <1>6
<1> HIDE DEF C
<1>7. CASE PlanMade
  <2>1. spent = 0 /\ stage' = "working"
    BY <1>2, <1>7 DEF PlanMade, Goes
  <2>2. Within(0, spent')
    <3>1. CASE Meters
      BY <1>1, <2>1, <3>1, WithinFirst
    <3>2. CASE UNCHANGED meterVars
      BY <1>1, <2>1, <3>2, WithinFirst DEF Within, meterVars
    <3>3. QED
      BY <1>7, <3>1, <3>2 DEF PlanMade
  <2>3. Head(queue') \in Pieces
    BY <1>7, PlanTiles
  <2>4. C - Calls[Head(queue').bars] \in Nat
    BY <1>1, <2>3, CallsLeft DEF C
  <2>5. Within(C - Calls[Head(queue').bars], spent') /\ Within(C, spent')
    BY <1>1, <1>5, <2>2, <2>4
  <2>6. QED
    BY <2>1, <2>5 DEF SpendInv, C
<1>8. CASE TakesChunk
  <2>1. /\ item' = Head(queue) /\ tries' = 0 /\ stage' = "calling" /\ spent' = spent
        /\ Within(C - Calls[Head(queue).bars], spent)
    BY <1>2, <1>8 DEF TakesChunk, Goes, meterVars
  <2>2. item' \in Pieces
    BY <2>1, TilingSingle, TiledParts DEF StreamInv, Tiled
  <2>3. C - Calls[item'.bars] \in Int
    BY <1>1, <2>2, CallsLeft DEF C
  <2>4. C - Calls[item'.bars] + tries' = C - Calls[Head(queue).bars]
    BY <2>1, <2>3
  <2>5. Within(C - Calls[item'.bars] + tries', spent') /\ Within(C, spent')
    BY <1>2, <2>1, <2>4 DEF Within, C
  <2>6. QED
    BY <2>1, <2>5 DEF SpendInv, C
<1>9. CASE ChunkWritten
  <2>1. stage' = "section" /\ Within(C, spent')
    BY <1>6, <1>9 DEF ChunkWritten, Goes
  <2>2. QED
    BY <2>1 DEF SpendInv, C
<1>10. CASE ChunkInvalid
  <2>1. stage = "calling" /\ Meters /\ stage' = "calling" /\ item' = item /\ tries' = tries + 1
    BY <1>10 DEF ChunkInvalid
  <2>2. C - Calls[item.bars] + tries + 1 = C - Calls[item.bars] + tries'
    BY <1>1, <1>3, <2>1
  <2>3. Within(C - Calls[item'.bars] + tries', spent') /\ Within(C, spent')
    BY <1>4, <1>6, <2>1, <2>2 DEF Within, C
  <2>4. QED
    BY <2>1, <2>3 DEF SpendInv, C
<1>11. CASE ChunkSplit
  <2>1. stage = "calling" /\ Meters /\ stage' = "working" /\ item.bars > 1
    BY <1>11 DEF ChunkSplit, Goes
  <2> DEFINE h == (item.bars + 1) \div 2
  <2>2. Head(queue').bars = h
    BY <1>11, SplitTiles
  <2>3. Calls[item.bars] = CallTries + Calls[h]
    <3>1. item.bars \in 1 .. ChunkBars
      BY <1>3, <2>1, PieceBars
    <3>2. QED
      BY <2>1, <3>1, CallsDef
  <2>4. Calls[h] \in Nat
    <3>1. item.bars \in 1 .. ChunkBars /\ ChunkBars \in Nat
      BY <1>3, <2>1, PieceBars, SectionalAssumption
    <3>2. h \in 1 .. item.bars - 1
      BY <2>1, <3>1, HalvesRange
    <3>3. h \in 1 .. ChunkBars /\ h <= ChunkBars /\ ChunkBars \in 1 .. ChunkBars
      BY <3>1, <3>2
    <3>4. QED
      BY <3>3, CallsGrow
  <2> HIDE DEF h
  <2>5. /\ C - Calls[h] \in Nat
        /\ C - Calls[item.bars] + tries + 1 <= C - Calls[h]
    BY <1>1, <1>3, <2>1, <2>3, <2>4
  <2>6. Within(C - Calls[h], spent') /\ Within(C, spent')
    BY <1>4, <1>5, <1>6, <2>1, <2>5
  <2>7. Within(C - Calls[Head(queue').bars], spent')
    BY <2>2, <2>6 DEF Within, C
  <2>8. QED
    BY <2>1, <2>6, <2>7 DEF SpendInv, C
<1>12. CASE ChunkGivenUp
  <2>1. stage = "calling" /\ stage' \in {"closing", "finishing"}
    BY <1>12 DEF ChunkGivenUp, Goes
  <2>2. CASE Meters
    BY <1>6, <2>1, <2>2 DEF SpendInv, C
  <2>3. CASE UNCHANGED meterVars
    BY <2>1, <2>3, SpendStays DEF meterVars
  <2>4. QED
    BY <1>12, <2>2, <2>3 DEF ChunkGivenUp
<1>13. CASE QueueDone
  BY <1>13, SpendStays DEF QueueDone, Goes, meterVars
<1>14. CASE SectionSent
  <2>1. CASE OverBudget \/ OverTime
    BY <1>14, <2>1, SpendStays DEF SectionSent, Goes, meterVars
  <2>2. CASE ~(OverBudget \/ OverTime)
    <3>1. Within(0, spent)
      BY <1>1, <2>2, WithinLook
    <3>2. stage = "section" /\ stage' = "working" /\ queue' = queue /\ spent' = spent
      BY <1>14, <2>2 DEF SectionSent, Goes, generatorVars, meterVars
    <3>3. Within(C, spent)
      BY <1>2
    <3>4. ASSUME queue # <<>>
          PROVE  Within(C - Calls[Head(queue).bars], spent)
      <4>1. queue \in Seq(Pieces)
        BY <3>2, TiledParts DEF StreamInv, Tilings
      <4>2. Head(queue) \in Pieces
        BY <3>4, <4>1, HeadTailProperties
      <4>3. C - Calls[Head(queue).bars] \in Nat
        BY <1>1, <4>2, CallsLeft DEF C
      <4>4. QED
        BY <1>1, <3>1, <4>3, WithinMore DEF StreamTypes
    <3>5. QED
      BY <3>2, <3>3, <3>4 DEF SpendInv, Within, C
  <2>3. QED
    BY <2>1, <2>2
<1>15. CASE Settles
  BY <1>15, SpendStays DEF Settles, Goes, meterVars
<1>16. CASE Persists
  BY <1>16, SpendStays DEF Persists, Goes, meterVars
<1>17. CASE PersistFails
  BY <1>17, SpendStays DEF PersistFails, Goes, meterVars
<1>18. CASE PumpThrows
  <2>1. stage' = "closing"
    BY <1>18 DEF PumpThrows, Goes
  <2>2. CASE UNCHANGED meterVars
    BY <2>1, <2>2, SpendStays DEF meterVars
  <2>3. CASE stage = "planning" /\ Meters
    <3>1. Within(0, spent')
      BY <1>1, <1>2, <2>3, WithinFirst
    <3>2. Within(C, spent')
      BY <1>1, <1>5, <3>1
    <3>3. QED
      BY <2>1, <3>2 DEF SpendInv, C
  <2>4. QED
    BY <1>18, <2>2, <2>3 DEF PumpThrows
<1>19. CASE Closes
  BY <1>19, SpendStays DEF Closes, Goes, meterVars
<1>20. CASE DeadlinePasses
  BY <1>20 DEF DeadlinePasses, generatorVars, meterVars, SpendInv, Within
<1>21. CASE UNCHANGED streamVars
  BY <1>21 DEF streamVars, generatorVars, meterVars, SpendInv, Within
<1>22. QED
  BY <1>7, <1>8, <1>9, <1>10, <1>11, <1>12, <1>13, <1>14, <1>15, <1>16, <1>17,
     <1>18, <1>19, <1>20, <1>21 DEF StreamNext, StreamStep

\* A stream that looks at its budget only after a section costs at most what
\* the calls between two looks can cost more.
THEOREM StreamSpendBounded == StreamSpec => []SpendBounded
<1>1. StreamInit => SpendInv
  BY SpendInvInit
<1>2. StreamInv /\ StreamInv' /\ SpendInv /\ [StreamNext]_streamVars => SpendInv'
  BY SpendInvKept
<1>3. SpendInv => SpendBounded
  BY DEF SpendInv, SpendBounded, Within
<1>4. QED
  BY <1>1, <1>2, <1>3, StreamInvariant, PTL DEF StreamSpec

=============================================================================
