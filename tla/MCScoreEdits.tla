---------------------------- MODULE MCScoreEdits ----------------------------
(* Instances for TLC: 3/8 in thirty-seconds of a bar of three units, two      *)
(* scores of three measures and what may have been copied elsewhere.          *)
EXTENDS ScoreEdits

MCDurations == {1, 2, 3, 4, 6, 8}

NoEventId == <<>>

N(u) == Plain(u, FALSE)
R(u) == Plain(u, TRUE)
T(u) == [Plain(u, FALSE) EXCEPT !.tup = TRUE]

Line(l, bars, part) ==
    [m \in DOMAIN bars |->
        [uid    |-> <<0, m>>,
         part   |-> part /\ m = Len(bars),
         events |-> [i \in DOMAIN bars[m] |-> [bars[m][i] EXCEPT !.id = <<0, l, m, i>>]]]]

\* two voices, a triplet, a D.S. and a span over the first two measures
Duet ==
    [lines  |-> ("p" :> Line("p", <<<<N(1), N(2)>>, <<T(1), T(1), T(1), N(1)>>, <<N(3)>>>>, FALSE)) @@
                ("v" :> Line("v", <<<<N(3)>>, <<R(1), N(2)>>, <<R(3)>>>>, FALSE)),
     points |-> {[id |-> 101, kind |-> "segno", at |-> 1, line |-> "p"],
                 [id |-> 102, kind |-> "technique", at |-> 3, line |-> "v"],
                 [id |-> 103, kind |-> "marker", at |-> 2, line |-> "p"]},
     ranges |-> {[id |-> 104, kind |-> "volta", from |-> 2, to |-> 3]},
     jumps  |-> {[id |-> 105, kind |-> "ds", at |-> 3, segno |-> 101, coda |-> 0, tocoda |-> 0]},
     spans  |-> {[id |-> <<106>>, line |-> "p", a |-> <<0, "p", 1, 2>>, b |-> <<0, "p", 2, 4>>]}]

\* one voice, a short last measure, a D.S. al Coda
Song ==
    [lines  |-> "p" :> Line("p", <<<<N(1), N(1), N(1)>>, <<N(2), N(1)>>, <<N(1)>>>>, TRUE),
     points |-> {[id |-> 111, kind |-> "segno", at |-> 1, line |-> "p"],
                 [id |-> 112, kind |-> "coda", at |-> 3, line |-> "p"]},
     ranges |-> {[id |-> 113, kind |-> "note", from |-> 1, to |-> 2]},
     jumps  |-> {[id |-> 114, kind |-> "dsalcoda", at |-> 2, segno |-> 111, coda |-> 112, tocoda |-> 0],
                 [id |-> 115, kind |-> "tocoda", at |-> 1, segno |-> 0, coda |-> 0, tocoda |-> 0]},
     spans  |-> {[id |-> <<116>>, line |-> "p", a |-> <<0, "p", 1, 1>>, b |-> <<0, "p", 1, 3>>]}]

\* full measures of one voice
Plainsong ==
    [Song EXCEPT !.lines = "p" :> Line("p", <<<<N(1), N(1), N(1)>>, <<N(2), N(1)>>, <<N(3)>>>>, FALSE),
                 !.jumps = {}, !.ranges = {}]

\* copied in another tab: a short measure of two staves with a span
Foreign ==
    [new   |-> ("p" :> Line("p", <<<<N(2)>>>>, TRUE)) @@ ("s" :> Line("s", <<<<N(1), N(1)>>>>, TRUE)),
     spans |-> {[id |-> <<121>>, line |-> "s", a |-> <<0, "s", 1, 1>>, b |-> <<0, "s", 1, 2>>]}]

\* small enough for one edit more
Tiny ==
    [lines  |-> "p" :> Line("p", <<<<N(1), N(2)>>>>, FALSE),
     points |-> {}, ranges |-> {}, jumps |-> {},
     spans  |-> {[id |-> <<131>>, line |-> "p", a |-> <<0, "p", 1, 1>>, b |-> <<0, "p", 1, 2>>]}]

\* two shown answers of the model later: what was derived for the second measure
\* was derived again, for the one put in before it
Echo ==
    LET bar(uid) == [uid |-> uid, part |-> FALSE,
                     events |-> <<[R(3) EXCEPT !.id = <<0, "p", 2, 1, 3, TRUE>>]>>]
    IN  [Tiny EXCEPT !.lines = "p" :> (Tiny.lines["p"] \o <<bar(<<0, 3>>), bar(<<0, 2>>)>>),
                     !.spans = @ \union {[id |-> <<132>>, line |-> "p", a |-> <<0, "p", 1, 1>>,
                                         b |-> <<0, "p", 2, 1, 3, TRUE>>]}]

Start(s, c, n) == [score |-> s, clip |-> c, edits |-> n]

MCInitial == {Start(Duet, NoClip, 1), Start(Song, Foreign, 1), Start(Plainsong, NoClip, 1),
              Start(Tiny, NoClip, 0), Start(Echo, NoClip, 1)}

Bare(bars, part) == [m \in DOMAIN bars |-> [part |-> part /\ m = Len(bars), events |-> bars[m]]]

MCContents ==
    {"p" :> Bare(<<<<N(3)>>>>, FALSE),
     ("p" :> Bare(<<<<N(1), N(2)>>, <<N(2)>>>>, TRUE)) @@
         ("v" :> Bare(<<<<N(3)>>, <<R(2)>>>>, TRUE))}
=============================================================================
