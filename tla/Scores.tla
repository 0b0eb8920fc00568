-------------------------------- MODULE Scores --------------------------------
(* A score and what the server asks of one it stores.                         *)
(* src/lib/music/scoreAccessors.ts, validateScore.ts, validateCrossRefs.ts.   *)
(*                                                                            *)
(*   lines   the voices, each a sequence of measures [uid, part, events]:     *)
(*           "p" measures, "v" an extra voice, "s" the second staff           *)
(*   points  what stands at one measure: [id, kind, at, line], a technique    *)
(*           (of a voice), a marker, a segno or a coda                        *)
(*   ranges  what runs over measures: [id, kind, from, to], a volta or a note *)
(*           (an annotation; from = to when it has no spanEnd)                *)
(*   jumps   D.S., D.S. al Coda and To Coda with what they refer to, 0 when   *)
(*           they refer to nothing: [id, kind, at, segno, coda, tocoda]       *)
(*   spans   hairpins, slurs and the like, over events: [id, line, a, b]      *)
(*                                                                            *)
(* Measures are counted from 1.  part is isFinalPartial.  uid is not in the   *)
(* code: it names a measure, the same in every voice, so that the properties  *)
(* can follow it.                                                             *)
EXTENDS BalancedOps

LineOrder == <<"p", "v", "s">>

IsSequence(q) == q \in Seq({q[i] : i \in DOMAIN q})

IsVoice(q) ==
    /\ IsSequence(q)
    /\ \A m \in DOMAIN q : q[m] = [uid |-> q[m].uid, part |-> q[m].part, events |-> q[m].events]

\* an event of the schema, and a measure of them
IsEvent(e) ==
    /\ e = [id |-> e.id, u |-> e.u, rest |-> e.rest, tup |-> e.tup]
    /\ e.u \in Durations /\ e.rest \in BOOLEAN /\ e.tup \in BOOLEAN

IsMusic(events) == IsSequence(events) /\ \A i \in DOMAIN events : IsEvent(events[i])

\* measures for some voices, the primary one among them
IsBundle(new) ==
    /\ new = [l \in DOMAIN new |-> new[l]] /\ "p" \in DOMAIN new
    /\ \A l \in DOMAIN new : IsVoice(new[l])

\* entries of these forms
AreEntries(s) ==
    /\ \A p \in s.points : p = [id |-> p.id, kind |-> p.kind, at |-> p.at, line |-> p.line]
    /\ \A r \in s.ranges : r = [id |-> r.id, kind |-> r.kind, from |-> r.from, to |-> r.to]
    /\ \A j \in s.jumps : j = [id |-> j.id, kind |-> j.kind, at |-> j.at, segno |-> j.segno,
                               coda |-> j.coda, tocoda |-> j.tocoda]

AreSpans(spans) ==
    \A x \in spans : /\ x = [id |-> x.id, line |-> x.line, a |-> x.a, b |-> x.b]
                     /\ IsSequence(x.id) /\ x.id # <<>>

HasFields(s) ==
    s = [lines |-> s.lines, points |-> s.points, ranges |-> s.ranges, jumps |-> s.jumps,
         spans |-> s.spans]

\* ScoreSchema
IsScore(s) == HasFields(s) /\ IsBundle(s.lines) /\ AreEntries(s) /\ AreSpans(s.spans)

Voices(s) == DOMAIN s.lines
Count(s) == Len(s.lines["p"])
Bars(s) == 1..Count(s)

\* every place an event id is found at
Places(s, id) ==
    LET in(l, m) == {i \in DOMAIN s.lines[l][m].events : s.lines[l][m].events[i].id = id}
        of(l)    == UNION {{<<l, m, i>> : i \in in(l, m)} : m \in DOMAIN s.lines[l]}
    IN  UNION {of(l) : l \in Voices(s)}

NotAfter(x, y) == x[2] < y[2] \/ (x[2] = y[2] /\ x[3] <= y[3])

Precedes(x, y) ==
    LET rank(l) == CHOOSE r \in DOMAIN LineOrder : LineOrder[r] = l
    IN  rank(x[1]) < rank(y[1]) \/ (x[1] = y[1] /\ NotAfter(x, y))

\* findEventLocationById: the first of them
FirstPlace(s, id) == CHOOSE x \in Places(s, id) : \A y \in Places(s, id) : Precedes(x, y)

\* indexEventsById and its likes: the last one written to the map
LastPlace(s, id) == CHOOSE x \in Places(s, id) : \A y \in Places(s, id) : Precedes(y, x)

OfKind(s, kind) == {p \in s.points : p.kind = kind}
IdsOf(entries) == {e.id : e \in entries}

\* how long a measure sounds, in thirds of a unit: a triplet is 3 in the time of 2
Sounding(e) == (IF e.tup THEN 2 ELSE 3) * e.u

Sounds(events) == Total([i \in DOMAIN events |-> Sounding(events[i])])

\* the measure's triplet members, run by run, in threes (9: a run was cut short)
OpenAfter(open, e) ==
    IF e.tup /\ open # 9 THEN (open + 1) % 3 ELSE IF open = 0 THEN 0 ELSE 9

WholeTriplets(events) ==
    LET open[k \in 0..Len(events)] == IF k = 0 THEN 0 ELSE OpenAfter(open[k - 1], events[k])
    IN  open[Len(events)] = 0

BarValid(bar) ==
    /\ WholeTriplets(bar.events)
    /\ IF bar.part THEN Sounds(bar.events) <= 3 * Capacity
                   ELSE Sounds(bar.events) = 3 * Capacity

SpanValid(s, x) ==
    /\ Places(s, x.a) # {} /\ Places(s, x.b) # {}
    /\ LET a == LastPlace(s, x.a)
           b == LastPlace(s, x.b)
       IN  a[1] = x.line /\ b[1] = x.line /\ NotAfter(a, b)

JumpValid(s, j) ==
    /\ j.kind \in {"ds", "dsalcoda"} => j.segno \in IdsOf(OfKind(s, "segno"))
    /\ j.kind = "dsalcoda" =>
         /\ j.coda = 0 \/ j.coda \in IdsOf(OfKind(s, "coda"))
         /\ j.tocoda = 0 \/ j.tocoda \in IdsOf(s.jumps)

MarkersValid(s) ==
    \A p, q \in OfKind(s, "marker") : p.at = q.at => p = q

VoltasValid(s) == \A r \in s.ranges : r.kind = "volta" => r.from <= r.to

TechniquesValid(s) ==
    \A t \in OfKind(s, "technique") : t.line \in Voices(s) /\ t.at \in DOMAIN s.lines[t.line]

\* validateScore
Valid(s) ==
    /\ Count(s) > 0
    /\ \A l \in Voices(s) : Len(s.lines[l]) = Count(s)
    /\ \A l \in Voices(s) : \A m \in DOMAIN s.lines[l] : BarValid(s.lines[l][m])
    /\ \A x \in s.spans : SpanValid(s, x)
    /\ \A j \in s.jumps : JumpValid(s, j)
    /\ MarkersValid(s) /\ VoltasValid(s) /\ TechniquesValid(s)

\* ensureEventIds: an event without an id gets one from its content and place
Derived(l, m, i, e) == <<0, l, m, i, e.u, e.rest>>

WithIds(l, m, events) ==
    [i \in DOMAIN events |->
        IF events[i].id # NoId THEN events[i]
        ELSE [events[i] EXCEPT !.id = Derived(l, m, i, events[i])]]

Backfilled(s) ==
    [s EXCEPT !.lines =
        [l \in Voices(s) |-> [m \in DOMAIN s.lines[l] |->
            [s.lines[l][m] EXCEPT !.events = WithIds(l, m, @)]]]]
=============================================================================
