---------------------------- MODULE StructuralOps ----------------------------
(* The edits that add, drop, replace and move whole measures in every voice,  *)
(* and what becomes of the entries that stand at a measure and of the spans   *)
(* over its events.                                                           *)
(* src/lib/music/structuralOps.ts, editOperations.ts.                         *)
(*                                                                            *)
(* New measures come as a function from voices to measures; "p" is always     *)
(* there and says how many there are.                                         *)
EXTENDS Scores

Nothing == [l \in {"p"} |-> <<>>]

RestBar(uid) == [uid |-> uid, part |-> FALSE, events |-> Rests(Capacity)]

\* Bug: no rests for a voice that is given nothing.
MeasuresGiven(new, l) == IF l \in DOMAIN new THEN new[l] ELSE <<>>

\* a voice that is given no measures, or too few or too many, gets rests
MeasuresFor(new, l) ==
    IF l \in DOMAIN new /\ Len(new[l]) = Len(new["p"]) THEN new[l]
    ELSE [k \in DOMAIN new["p"] |-> RestBar(new["p"][k].uid)]

\* withAllVoiceMeasures: measures for every voice of every staff
EachVoice(s, lines) == [s EXCEPT !.lines = lines]

\* applyStructuralAppendOrInsert
Inserted(s, new, after) ==
    EachVoice(s, [l \in Voices(s) |->
        SubSeq(s.lines[l], 1, after) \o MeasuresFor(new, l)
        \o SubSeq(s.lines[l], after + 1, Len(s.lines[l]))])

TagLast(bars, tag) ==
    IF tag /\ bars # <<>> THEN [bars EXCEPT ![Len(bars)].part = TRUE] ELSE bars

EndsPartial(s) == Last(s.lines["p"]).part

\* applyRegionReplace
Replaced(s, a, b, new) ==
    EachVoice(s, [l \in Voices(s) |->
        SubSeq(s.lines[l], 1, a - 1)
        \o TagLast(MeasuresFor(new, l), b = Count(s) /\ EndsPartial(s))
        \o SubSeq(s.lines[l], b + 1, Len(s.lines[l]))])

\* normalizeFinalPartial
FlagOnlyLast(s, had) ==
    EachVoice(s, [l \in Voices(s) |->
        [m \in DOMAIN s.lines[l] |->
            [s.lines[l][m] EXCEPT !.part = m = Len(s.lines[l]) /\ had]]])

\* Bug: the measure they are inserted after moves too.
InsertIdxEarly(n, after, count) ==
    [m \in 1..n |-> IF m < after THEN m ELSE m + count]

\* where the n measures of before go; 0: nowhere.
\* remapIndexAfterInsert
InsertIdx(n, after, count) ==
    [m \in 1..n |-> IF m <= after THEN m ELSE m + count]

\* remapIndexAfterRegionReplace: the replaced ones go to the last new one
ReplaceIdx(n, a, b, count) ==
    [m \in 1..n |-> IF m < a THEN m
                    ELSE IF m > b THEN m + count - (b - a + 1)
                    ELSE IF count = 0 THEN 0 ELSE a + count - 1]

\* Bug: without the sweep.
Unswept(s, jumps) == jumps

\* the sweep that ends the remap: toCodaRef, the id of another jump, is looked
\* for among the coda markers
Resolved(s, jumps) ==
    {j \in jumps : /\ j.segno \in {0} \union IdsOf(OfKind(s, "segno"))
                   /\ {j.coda, j.tocoda} \subseteq {0} \union IdsOf(OfKind(s, "coda"))}

\* remapScoreReferences: an entry that goes nowhere, at either end, is dropped
Remapped(s, to) ==
    LET points == {[p EXCEPT !.at = to[@]] : p \in {q \in s.points : to[q.at] # 0}}
        jumps  == {[j EXCEPT !.at = to[@]] : j \in {q \in s.jumps : to[q.at] # 0}}
        ranges == {[r EXCEPT !.from = to[@], !.to = to[@]] :
                      r \in {q \in s.ranges : to[q.from] # 0 /\ to[q.to] # 0}}
    IN  [s EXCEPT !.points = points, !.ranges = ranges,
                  !.jumps = Resolved([s EXCEPT !.points = points], jumps)]

\* Bug: severed spans are kept.
SpansNotInside(s, a, b) ==
    {x \in s.spans : /\ Places(s, x.a) # {} /\ Places(s, x.b) # {}
                     /\ \/ LastPlace(s, x.a)[2] \notin a..b
                        \/ LastPlace(s, x.b)[2] \notin a..b}

\* dropSeveredAndInteriorSpans: spans with both ends found, and both outside
SpansOutside(s, a, b) ==
    {x \in s.spans : /\ Places(s, x.a) # {} /\ Places(s, x.b) # {}
                     /\ LastPlace(s, x.a)[2] \notin a..b
                     /\ LastPlace(s, x.b)[2] \notin a..b}

AppendMeasures(s, new) ==
    LET next == Inserted(s, new, Count(s))
    IN  EachVoice(next, [l \in Voices(s) |->
            [next.lines[l] EXCEPT ![Count(s)].part = FALSE]])

InsertMeasuresAfter(s, new, spans, after) ==
    LET next == Remapped(Inserted(s, new, after),
                         InsertIdx(Count(s), after, Len(new["p"])))
    IN  [next EXCEPT !.spans = @ \union spans]

RegionReplace(s, a, b, new, spans) ==
    LET next == Remapped([Replaced(s, a, b, new) EXCEPT !.spans = SpansOutside(s, a, b)],
                         ReplaceIdx(Count(s), a, b, Len(new["p"])))
    IN  [next EXCEPT !.spans = @ \union spans]

\* captureRangeContent
Captured(s, a, b) == [l \in Voices(s) |-> SubSeq(s.lines[l], a, b)]

Identified(gen, l, k, events) ==
    [i \in DOMAIN events |-> [events[i] EXCEPT !.id = <<gen, l, k, i>>]]

\* cloneCapturedRangeWithFreshIdsMapped: every event gets an id, known by the
\* edit that made it and by its place in the bundle
Cloned(new, gen) ==
    [l \in DOMAIN new |-> [k \in DOMAIN new[l] |->
        [new[l][k] EXCEPT !.uid = <<gen, k>>, !.events = Identified(gen, l, k, @)]]]

Captures(new, id) ==
    {x \in {"p", "v", "s"} \X (1..Len(new["p"])) \X (1..(3 * Capacity)) :
        /\ x[1] \in DOMAIN new /\ x[3] \in DOMAIN new[x[1]][x[2]].events
        /\ new[x[1]][x[2]].events[x[3]].id = id}

\* spansFullyInsideRange
SpansInside(s, a, b) ==
    {x \in s.spans : Captures(Captured(s, a, b), x.a) # {} /\ Captures(Captured(s, a, b), x.b) # {}}

\* remapSpansToFreshIds, idMap being last-write-wins over voices and measures
Fresh(new, gen, id) ==
    LET at == CHOOSE x \in Captures(new, id) : \A y \in Captures(new, id) : Precedes(y, x)
    IN  <<gen>> \o at

SpansCarried(new, spans, gen) ==
    {[x EXCEPT !.id = <<gen>> \o @, !.a = Fresh(new, gen, @), !.b = Fresh(new, gen, @)] :
        x \in spans}

\* dragMeasureRange, mode duplicate
DuplicateRange(s, a, b, after, gen) ==
    FlagOnlyLast(
        Remapped(Inserted(s, Cloned(Captured(s, a, b), gen), after),
                 InsertIdx(Count(s), after, b - a + 1)),
        EndsPartial(s))

\* dragMeasureRange, mode delete
DeleteRange(s, a, b) ==
    FlagOnlyLast(
        Remapped([Replaced(s, a, b, Nothing) EXCEPT !.spans = SpansOutside(s, a, b)],
                 ReplaceIdx(Count(s), a, b, 0)),
        EndsPartial(s))

\* extractRangeEntries: what stands in the moved measures; of the ranges those
\* that lie in them with both ends
InRange(s, a, b) ==
    [points |-> {p \in s.points : p.at \in a..b},
     jumps  |-> {j \in s.jumps : j.at \in a..b},
     ranges |-> {r \in s.ranges : {r.from, r.to} \subseteq a..b}]

\* stripRangeEntries: ranges with one end there go with them
Stripped(s, a, b) ==
    [s EXCEPT !.points = {p \in @ : p.at \notin a..b},
              !.jumps  = {j \in @ : j.at \notin a..b},
              !.ranges = {r \in @ : {r.from, r.to} \cap (a..b) = {}}]

\* reattachExtractedEntries
Reattached(s, entries, shift) ==
    [s EXCEPT !.points = @ \union {[p EXCEPT !.at = @ + shift] : p \in entries.points},
              !.jumps  = @ \union {[j EXCEPT !.at = @ + shift] : j \in entries.jumps},
              !.ranges = @ \union {[r EXCEPT !.from = @ + shift, !.to = @ + shift]
                                      : r \in entries.ranges}]

\* dragMeasureRange, mode move
MoveRange(s, a, b, after) ==
    LET count == b - a + 1
        dest  == IF after > b THEN after - count ELSE after
        left  == Remapped(Replaced(Stripped(s, a, b), a, b, Nothing),
                          ReplaceIdx(Count(s), a, b, 0))
        moved == Remapped(Inserted(left, Captured(s, a, b), dest),
                          InsertIdx(Count(left), dest, count))
    IN  FlagOnlyLast(Reattached(moved, InRange(s, a, b), dest + 1 - a), EndsPartial(s))
=============================================================================
