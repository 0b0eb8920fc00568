----------------------------- MODULE BalancedOps -----------------------------
(* The balanced edits of one voice: move an event, change its length, remove  *)
(* it, and leave every measure as long as it was.                             *)
(* src/lib/music/transformScoreBalanced.ts.                                   *)
(*                                                                            *)
(* A voice is a sequence of measures [uid, part, events].  An operator gives  *)
(* the set of its results: empty when the code throws a BalanceError, and the *)
(* score stays as it was.                                                     *)
EXTENDS Measures

Before(events, i) == SubSeq(events, 1, i - 1)
After(events, i) == SubSeq(events, i + 1, Len(events))

\* a moved or resized event is a clone, and a clone carries no id
Clone(e) == [e EXCEPT !.id = NoId]

\* applyMeasureWrites: a written measure is {events}: its other fields go
Writes(voice, new) ==
    [k \in DOMAIN voice |->
        IF k \in DOMAIN new THEN [voice[k] EXCEPT !.events = new[k], !.part = FALSE]
                            ELSE voice[k]]

\* one write, and writes together (:> and @@, of which the provers know nothing)
At(m, events) == [k \in {m} |-> events]

With(new, more) ==
    [k \in DOMAIN new \union DOMAIN more |-> IF k \in DOMAIN new THEN new[k] ELSE more[k]]

\* Bug: without the rest in its place.
RemovedOutright(events, i) == MergeRests(Before(events, i) \o After(events, i))

Removed(events, i) ==
    MergeRests(Before(events, i) \o Rests(events[i].u) \o After(events, i))

RemoveBalanced(voice, m, i) ==
    IF voice[m].events[i].tup THEN {}
    ELSE {Writes(voice, At(m, Removed(voice[m].events, i)))}

\* snapInsertionIdx: the boundary nearest to the position, the first of two
Distance(events, i, pos) ==
    LET at == Units(SubSeq(events, 1, i)) IN IF at < pos THEN pos - at ELSE at - pos

Snap(events, pos) ==
    CHOOSE i \in 0..Len(events) :
        \A j \in 0..Len(events) :
            \/ Distance(events, i, pos) < Distance(events, j, pos)
            \/ Distance(events, i, pos) = Distance(events, j, pos) /\ i <= j

SplitsTuplet(events, i) == i \in 1..(Len(events) - 1) /\ events[i].tup /\ events[i + 1].tup

\* the bars a split note runs on into: not past the end, not over the bar it
\* came from, not into a triplet
RunsOn(voice, m, from, e, room) ==
    \A g \in 1..ExtraBars(e.u, room) :
        /\ m + g \in DOMAIN voice \ {from}
        /\ ~MakeRoom(voice[m + g].events, PartIn(e.u, room, g)).blocked

RunOn(voice, m, e, room) ==
    [k \in (m + 1)..(m + ExtraBars(e.u, room)) |->
        MergeRests(Piece(e, room, k - m)
                   \o Refill(MakeRoom(voice[k].events, PartIn(e.u, room, k - m))))]

\* reorderWithinMeasure
MoveWithin(voice, m, i, pos) ==
    LET events == voice[m].events
        at     == Snap(events, pos)
        to     == IF at > i - 1 THEN at - 1 ELSE at
    IN  IF SplitsTuplet(events, at) THEN {}
        ELSE {Writes(voice, At(m, InsertAt(RemoveAt(events, i), to + 1, Clone(events[i]))))}

\* a drop at the end of a bar: room is made from its back
DropAtEnd(voice, m, i, d) ==
    LET e    == voice[m].events[i]
        room == MakeRoom(Reverse(voice[d].events), e.u)
    IN  IF room.blocked THEN {}
        ELSE {Writes(voice,
                 With(At(m, Removed(voice[m].events, i)),
                      At(d, MergeRests(Reverse(room.remaining) \o Rests(room.leftover)
                                       \o <<Clone(e)>>))))}

\* a drop before an event: room is made from the front of what follows, and a
\* note that does not fit runs on into the next bars
DropBefore(voice, m, i, d, at) ==
    LET e      == voice[m].events[i]
        before == SubSeq(voice[d].events, 1, at)
        after  == SubSeq(voice[d].events, at + 1, Len(voice[d].events))
        here   == Capacity - Units(before)
        room   == MakeRoom(after, e.u)
        source == At(m, Removed(voice[m].events, i))
    IN  IF e.u <= here
        THEN IF here <= 0 \/ room.blocked \/ room.short THEN {}
             ELSE {Writes(voice, With(source,
                      At(d, MergeRests(before \o Piece(e, here, 0) \o Refill(room)))))}
        ELSE IF ~CanSplit(e.u, here) \/ ~RunsOn(voice, d, m, e, here) THEN {}
             ELSE {Writes(voice, With(source,
                      With(At(d, MergeRests(before \o Piece(e, here, 0))),
                           RunOn(voice, d, e, here))))}

MoveBalanced(voice, m, i, d, pos) ==
    LET at == Snap(voice[d].events, pos)
    IN  IF voice[m].events[i].tup THEN {}
        ELSE IF m = d THEN MoveWithin(voice, m, i, pos)
        ELSE IF \/ Len(voice[m].events) = 1
                \/ SplitsTuplet(voice[d].events, at) THEN {}
        ELSE IF at = Len(voice[d].events) THEN DropAtEnd(voice, m, i, d)
        ELSE DropBefore(voice, m, i, d, at)

Shrink(voice, m, i, u) ==
    LET events == voice[m].events
    IN  {Writes(voice, At(m, MergeRests(Before(events, i)
             \o <<[Clone(events[i]) EXCEPT !.u = u]>>
             \o Rests(events[i].u - u) \o After(events, i))))}

Grow(voice, m, i, u) ==
    LET events == voice[m].events
        e      == [Clone(events[i]) EXCEPT !.u = u]
        here   == Capacity - Units(Before(events, i))
        room   == MakeRoom(After(events, i), u - events[i].u)
    IN  IF u <= here
        THEN IF room.blocked THEN {}
             ELSE {Writes(voice, At(m, MergeRests(Before(events, i) \o <<e>> \o Refill(room))))}
        ELSE IF ~CanSplit(u, here) \/ ~RunsOn(voice, m, 0, e, here) THEN {}
             ELSE {Writes(voice, With(At(m, MergeRests(Before(events, i) \o Piece(e, here, 0))),
                                      RunOn(voice, m, e, here)))}

ChangeDurationBalanced(voice, m, i, u) ==
    LET e == voice[m].events[i]
    IN  IF e.tup \/ u = e.u THEN {}
        ELSE IF u < e.u THEN Shrink(voice, m, i, u)
        ELSE Grow(voice, m, i, u)
=============================================================================
