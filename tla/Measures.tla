------------------------------- MODULE Measures -------------------------------
(* The arithmetic of one measure: how long events take, how a stretch of time *)
(* is written as notes or rests, how a note is split over bar lines and how   *)
(* room is made for one.  src/lib/music/measureBalance.ts.                    *)
(*                                                                            *)
(* An event is its id (NoId when it has none), its written length u, and      *)
(* whether it is a rest and a member of a triplet.  Pitches, ties and the     *)
(* marks of a note are left out.                                              *)
EXTENDS Integers, SequencesExt

CONSTANTS Durations,     \* the written lengths there are, the shortest being 1
          Capacity,      \* what a measure of the meter holds
          MaxCascade,    \* MAX_CASCADE_DEPTH: bars a split note may run on into
          NoId

ASSUME MeasuresAssumption ==
    /\ Durations \subseteq Nat \ {0} /\ 1 \in Durations
    /\ Capacity \in Nat \ {0}
    /\ MaxCascade \in Nat

Plain(u, rest) == [id |-> NoId, u |-> u, rest |-> rest, tup |-> FALSE]

\* what a sequence of numbers adds up to
Total(numbers) ==
    LET upTo[k \in 0..Len(numbers)] == IF k = 0 THEN 0 ELSE upTo[k - 1] + numbers[k]
    IN  upTo[Len(numbers)]

\* sumUnits: written lengths, a triplet member counted in full
Units(events) == Total([i \in DOMAIN events |-> events[i].u])

Largest(n) == CHOOSE d \in Durations : d <= n /\ \A c \in Durations : c <= n => c <= d

\* decompose32nds: greedy, largest first
Decompose(n) ==
    LET into[k \in 0..n] == IF k = 0 THEN <<>> ELSE <<Largest(k)>> \o into[k - Largest(k)]
    IN  into[n]

Written(n, rest) == LET into == Decompose(n) IN [i \in DOMAIN into |-> Plain(into[i], rest)]

Rests(n) == Written(n, TRUE)

\* mergeAdjacentRests
MergeOne(out, e) ==
    IF /\ out # <<>> /\ e.rest /\ ~e.tup
       /\ Last(out).rest /\ ~Last(out).tup
       /\ Last(out).u + e.u \in Durations
    THEN [out EXCEPT ![Len(out)].u = @ + e.u]
    ELSE Append(out, e)

MergeRests(events) ==
    LET merged[k \in 0..Len(events)] ==
            IF k = 0 THEN <<>> ELSE MergeOne(merged[k - 1], events[k])
    IN  merged[Len(events)]

\* tieSplitOver: a note of length n starting with this much room in its bar
ExtraBars(n, room) == IF n <= room THEN 0 ELSE (n - room + Capacity - 1) \div Capacity

CanSplit(n, room) == room > 0 /\ ExtraBars(n, room) <= MaxCascade

PartIn(n, room, g) ==
    IF g = 0 THEN IF n <= room THEN n ELSE room
    ELSE LET left == n - room - (g - 1) * Capacity
         IN  IF left < Capacity THEN left ELSE Capacity

\* its pieces in the g-th bar after the one it starts in
Piece(e, room, g) == Written(PartIn(e.u, room, g), e.rest)

\* consumeForRoom, side 'front'; the other side is the same on the reversed bar
Taken(events, n) ==
    CHOOSE k \in 0..Len(events) :
        /\ Units(SubSeq(events, 1, k)) >= n \/ k = Len(events)
        /\ \A j \in 0..(k - 1) : Units(SubSeq(events, 1, j)) < n

\* Bug: without the check for triplets.
MakeRoomAnyway(events, n) ==
    LET k     == Taken(events, n)
        freed == Units(SubSeq(events, 1, k))
    IN  [blocked   |-> FALSE,
         remaining |-> SubSeq(events, k + 1, Len(events)),
         leftover  |-> IF freed > n THEN freed - n ELSE 0,
         short     |-> freed < n]

MakeRoom(events, n) ==
    LET k     == Taken(events, n)
        freed == Units(SubSeq(events, 1, k))
    IN  [blocked   |-> \E i \in 1..k : events[i].tup,
         remaining |-> SubSeq(events, k + 1, Len(events)),
         leftover  |-> IF freed > n THEN freed - n ELSE 0,
         short     |-> freed < n]

\* what follows the new note: a rest for what was freed beyond need, the rest
Refill(room) == Rests(room.leftover) \o room.remaining
=============================================================================
