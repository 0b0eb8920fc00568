----------------------------- MODULE ScoreEdits -----------------------------
(* A score under the hands of the user and of the model: the balanced edits   *)
(* of a voice, the edits of whole measures, the clipboard, voices and staves, *)
(* and the entries that stand at measures and over events.                    *)
(* src/lib/music/editOperations.ts, applied by src/lib/chat/state.ts and by   *)
(* the handlers of src/lib/orchestrator.                                      *)
(*                                                                            *)
(* An edit of the user is applied without validation; one of the model is     *)
(* validated, and refused when the score would not be valid.                  *)
EXTENDS StructuralOps

CONSTANTS Initial,       \* [score, clip, edits] to start from
          Contents,      \* measures the model may answer with: sequences of
                         \* measures [part, events] per voice
          MaxBars, MaxEdits

UidOf(s, m) == s.lines["p"][m].uid
Uids(s) == {UidOf(s, m) : m \in Bars(s)}

Unique(entries) == \A x, y \in entries : x.id = y.id => x = y

\* the entries of s stand in a score of n measures
Placed(s, n) ==
    /\ \A p \in s.points \union s.jumps : p.at \in 1..n
    /\ \A r \in s.ranges : r.from \in 1..n /\ r.to \in r.from..n
    /\ Unique(s.points) /\ Unique(s.ranges) /\ Unique(s.jumps) /\ Unique(s.spans)

\* the segni and codas its jumps refer to are there
Referred(s) ==
    \A j \in s.jumps : /\ j.segno \in {0} \union IdsOf(OfKind(s, "segno"))
                       /\ j.coda \in {0} \union IdsOf(OfKind(s, "coda"))

Aligned(s) ==
    \A l \in Voices(s) :
        /\ Len(s.lines[l]) = Count(s)
        /\ \A m \in Bars(s) : s.lines[l][m].uid = UidOf(s, m)

\* no entry has an id that an edit after the n-th may mint
Unspent(s, n) ==
    /\ \A e \in s.points \union s.ranges \union s.jumps : e.id \notin (n + 1)..MaxEdits
    /\ \A x \in s.spans : x.id[1] \notin (n + 1)..MaxEdits

\* no two measures of s are the same one, and none is one that an edit after
\* the n-th may bring in
Apart(s, n) ==
    /\ \A m, k \in Bars(s) : UidOf(s, m) = UidOf(s, k) => m = k
    /\ \A m \in Bars(s) : UidOf(s, m)[1] \notin (n + 1)..MaxEdits

\* measures of events of the schema, with no more in them than they hold
Playable(lines) ==
    \A l \in DOMAIN lines : \A m \in DOMAIN lines[l] :
        LET events == lines[l][m].events
        IN  IsMusic(events) /\ Sounds(events) <= 3 * Capacity /\ WholeTriplets(events)

\* an event id is of the voice its event is in: deriveEventId takes it in, and
\* what an edit mints is new
OfTheirVoices(lines) ==
    \A l \in DOMAIN lines : \A m \in DOMAIN lines[l] :
        \A i \in DOMAIN lines[l][m].events :
            LET id == lines[l][m].events[i].id IN id = NoId \/ id[2] = l

\* spans are over events of their own voice
OverTheirVoices(spans) ==
    \A x \in spans : /\ x.a # NoId /\ x.a[2] = x.line
                     /\ x.b # NoId /\ x.b[2] = x.line

\* measures copied from the same stretch of every voice, with spans inside it
IsClip(c) ==
    /\ \A l \in DOMAIN c.new : Len(c.new[l]) = Len(c.new["p"])
    /\ OfTheirVoices(c.new) /\ OverTheirVoices(c.spans)
    /\ \A x \in c.spans : Captures(c.new, x.a) # {} /\ Captures(c.new, x.b) # {}

\* The scores to start from are in order, as the blank score is and what the
\* edits make of it; the ids they have are not minted again.  The answers of
\* the model are of the schema.
ASSUME ScoreEditsAssumption ==
    /\ MaxBars \in Nat /\ MaxEdits \in Nat
    /\ Len(NoId) \notin {4, 6}       \* no id that is minted or derived
    /\ \A start \in Initial :
         /\ start.edits \in Nat
         /\ IsScore(start.score) /\ Aligned(start.score)
         /\ Placed(start.score, Count(start.score)) /\ Referred(start.score)
         /\ Unspent(start.score, start.edits) /\ Apart(start.score, start.edits)
         /\ Playable(start.score.lines) /\ Playable(start.clip.new)
         /\ IsBundle(start.clip.new) /\ AreSpans(start.clip.spans) /\ Unique(start.clip.spans)
         /\ OfTheirVoices(start.score.lines) /\ OverTheirVoices(start.score.spans)
         /\ IsClip(start.clip)
    /\ \A content \in Contents :
         /\ "p" \in DOMAIN content /\ OfTheirVoices(content)
         /\ \A l \in DOMAIN content :
              /\ IsSequence(content[l])
              /\ \A k \in DOMAIN content[l] : IsMusic(content[l][k].events)

VARIABLES score,
          clip,          \* the copied measures and their spans
          edits,         \* how many edits there were
          last           \* what the last one was

vars == <<score, clip, edits, last>>

NoClip == [new |-> Nothing, spans |-> {}]

\* ids minted by this edit
Gen == edits + 1

Init ==
    /\ \E start \in Initial :
         score = start.score /\ clip = start.clip /\ edits = start.edits
    /\ last = "none"

\* the bound on the length of a run
More == edits < MaxEdits

\* applyEdit and applyBalancedEdit: the next score takes the place of the last
Becomes(next, kind) ==
    /\ More /\ Count(next) <= MaxBars
    /\ score' = next
    /\ edits' = edits + 1
    /\ last' = kind
    /\ UNCHANGED clip

-----------------------------------------------------------------------------
(* The balanced edits.  Nothing happens when there is no result. *)

Balanced(l, results) ==
    \E voice \in results : Becomes([score EXCEPT !.lines[l] = voice], "balanced")

Spots(voice) == UNION {{<<m, i>> : i \in DOMAIN voice[m].events} : m \in DOMAIN voice}

MoveEvent ==
    More /\ \E l \in Voices(score) : \E x \in Spots(score.lines[l]),
                d \in Bars(score), pos \in 0..Capacity :
        Balanced(l, MoveBalanced(score.lines[l], x[1], x[2], d, pos))

ChangeDuration ==
    More /\ \E l \in Voices(score) : \E x \in Spots(score.lines[l]), u \in Durations :
        Balanced(l, ChangeDurationBalanced(score.lines[l], x[1], x[2], u))

RemoveEvent ==
    More /\ \E l \in Voices(score) : \E x \in Spots(score.lines[l]) :
        Balanced(l, RemoveBalanced(score.lines[l], x[1], x[2]))

-----------------------------------------------------------------------------
(* Measures *)

Stretches == {r \in Bars(score) \X Bars(score) : r[1] <= r[2]}

\* the toolbar's + Measure: rests after the last one
AddMeasure ==
    Becomes(Inserted(score, [l \in {"p"} |-> <<RestBar(<<Gen, 1>>)>>], Count(score)), "bars")

Duplicate ==
    \E r \in Stretches, after \in 0..Count(score) :
        Becomes(DuplicateRange(score, r[1], r[2], after, Gen), "bars")

Delete ==
    \E r \in Stretches :
        /\ r # <<1, Count(score)>>
        /\ Becomes(DeleteRange(score, r[1], r[2]), "bars")

Move ==
    \E r \in Stretches, after \in 0..Count(score) :
        /\ after \notin (r[1] - 1)..r[2]
        /\ Becomes(MoveRange(score, r[1], r[2], after), "move")

\* copyMeasureRange: the spans keep the ids of the events they were copied with
Copy ==
    /\ More
    /\ \E r \in Stretches :
         clip' = [new   |-> Captured(score, r[1], r[2]),
                  spans |-> SpansInside(score, r[1], r[2])]
    /\ edits' = edits + 1 /\ last' = "copy"
    /\ UNCHANGED score

\* pasteMeasuresInsertOp
PasteAfter ==
    /\ clip # NoClip
    /\ \E after \in Bars(score) :
         Becomes(InsertMeasuresAfter(score, Cloned(clip.new, Gen),
                                     SpansCarried(clip.new, clip.spans, Gen), after), "paste")

\* pasteMeasuresReplaceOp
PasteOver ==
    /\ clip # NoClip
    /\ \E r \in Stretches :
         Becomes(RegionReplace(score, r[1], r[2], Cloned(clip.new, Gen),
                               SpansCarried(clip.new, clip.spans, Gen)), "paste")

-----------------------------------------------------------------------------
(* The model's answers: measures without event ids, for the voices it gave;   *)
(* validated, and given ids when they are shown as a proposal first.          *)

Answer(content) ==
    [l \in DOMAIN content |-> [k \in DOMAIN content[l] |->
        [uid |-> <<Gen, k>>, part |-> content[l][k].part, events |-> content[l][k].events]]]

Answered(next) ==
    /\ More /\ Valid(next)
    /\ \E shown \in BOOLEAN :
         Becomes(IF shown THEN Backfilled(next) ELSE next, "model")

ExtendComposition ==
    \E content \in Contents : Answered(AppendMeasures(score, Answer(content)))

InsertMeasures ==
    \E content \in Contents, after \in 0..Count(score) :
        Answered(InsertMeasuresAfter(score, Answer(content), {}, after))

ReplaceRegion ==
    \E content \in Contents, r \in Stretches :
        Answered(RegionReplace(score, r[1], r[2], Answer(content), {}))

-----------------------------------------------------------------------------
(* Voices and staves: rests for every measure of the primary voice.  What     *)
(* refers to a voice is left as it is when the voice goes.                    *)

RestLine == [k \in Bars(score) |-> RestBar(score.lines["p"][k].uid)]

AddLine(l) ==
    /\ l \notin Voices(score)
    /\ Becomes([score EXCEPT !.lines =
                    [k \in Voices(score) \union {l} |-> IF k = l THEN RestLine ELSE @[k]]], "voice")

RemoveLine(l) ==
    /\ l \in Voices(score)
    /\ Becomes([score EXCEPT !.lines = [k \in Voices(score) \ {l} |-> @[k]]], "voice")

AddVoice == AddLine("v")
RemoveVoice == RemoveLine("v")
AddStaff == AddLine("s")
RemoveStaff == RemoveLine("s")

-----------------------------------------------------------------------------
(* Entries *)

Put(field, entry) == Becomes([score EXCEPT ![field] = @ \union {entry}], "entry")

Drop(field, kinds) ==
    \E x \in {y \in score[field] : y.kind \in kinds} :
        Becomes([score EXCEPT ![field] = @ \ {x}], "entry")

Change(field, x, y) == Becomes([score EXCEPT ![field] = (@ \ {x}) \union {y}], "entry")

AddTechnique ==
    \E l \in Voices(score) : \E at \in DOMAIN score.lines[l] :
        Put("points", [id |-> Gen, kind |-> "technique", at |-> at, line |-> l])

RemoveTechnique == Drop("points", {"technique"})

AddMarker ==
    \E at \in Bars(score) :
        Put("points", [id |-> Gen, kind |-> "marker", at |-> at, line |-> "p"])

RemoveMarker == Drop("points", {"marker"})

UpdateMarker ==
    \E p \in OfKind(score, "marker"), at \in Bars(score) :
        Change("points", p, [p EXCEPT !.at = at])

AddRange(kind) ==
    \E r \in Stretches :
        Put("ranges", [id |-> Gen, kind |-> kind, from |-> r[1], to |-> r[2]])

UpdateRange(kind) ==
    \E x \in {y \in score.ranges : y.kind = kind}, r \in Stretches :
        Change("ranges", x, [x EXCEPT !.from = r[1], !.to = r[2]])

AddAnnotation == AddRange("note")
RemoveAnnotation == Drop("ranges", {"note"})
UpdateAnnotation == UpdateRange("note")

AddVolta == AddRange("volta")
RemoveVolta == Drop("ranges", {"volta"})
UpdateVolta == UpdateRange("volta")

JumpKinds == {"ds", "dsalcoda", "tocoda"}

\* what a jump may be made to refer to
SegnoRefs == {0} \union IdsOf(OfKind(score, "segno"))
CodaRefs == {0} \union IdsOf(OfKind(score, "coda"))
JumpRefs == {0} \union IdsOf(score.jumps)

AddJump ==
    \E at \in Bars(score), kind \in JumpKinds,
       segno \in SegnoRefs, coda \in CodaRefs, tocoda \in JumpRefs :
        Put("jumps", [id |-> Gen, kind |-> kind, at |-> at,
                      segno |-> segno, coda |-> coda, tocoda |-> tocoda])

\* references of other jumps to it are cut
RemoveJump ==
    \E j \in score.jumps :
        Becomes([score EXCEPT !.jumps =
                    {[k EXCEPT !.tocoda = IF @ = j.id THEN 0 ELSE @] : k \in @ \ {j}}], "entry")

\* a reference that is not patched is carried over unchecked
UpdateJump ==
    \E j \in score.jumps, at \in Bars(score), kind \in JumpKinds :
    \E segno \in SegnoRefs \union {j.segno}, coda \in CodaRefs \union {j.coda},
       tocoda \in (JumpRefs \ {j.id}) \union {j.tocoda} :
        Change("jumps", j, [j EXCEPT !.at = at, !.kind = kind, !.segno = segno,
                                     !.coda = coda, !.tocoda = tocoda])

EventIds(s) ==
    (UNION {{s.lines[l][x[1]].events[x[2]].id : x \in Spots(s.lines[l])} : l \in Voices(s)})
        \ {NoId}

\* both ends found, in one voice, and in order
Ends(a, b) ==
    /\ FirstPlace(score, a)[1] = FirstPlace(score, b)[1]
    /\ NotAfter(FirstPlace(score, a), FirstPlace(score, b))

AddSpan ==
    More /\ \E a, b \in EventIds(score) :
        /\ Ends(a, b)
        /\ Put("spans", [id |-> <<Gen>>, line |-> FirstPlace(score, a)[1], a |-> a, b |-> b])

RemoveSpan == \E x \in score.spans : Becomes([score EXCEPT !.spans = @ \ {x}], "entry")

\* the voice follows the first end
UpdateSpan ==
    More /\ \E x \in score.spans, a, b \in EventIds(score) :
        /\ Ends(a, b)
        /\ Change("spans", x, [x EXCEPT !.line = FirstPlace(score, a)[1], !.a = a, !.b = b])

Next ==
    \/ MoveEvent \/ ChangeDuration \/ RemoveEvent
    \/ AddMeasure \/ Duplicate \/ Delete \/ Move
    \/ Copy \/ PasteAfter \/ PasteOver
    \/ ExtendComposition \/ InsertMeasures \/ ReplaceRegion
    \/ AddVoice \/ RemoveVoice \/ AddStaff \/ RemoveStaff
    \/ AddTechnique \/ RemoveTechnique
    \/ AddMarker \/ RemoveMarker \/ UpdateMarker
    \/ AddAnnotation \/ RemoveAnnotation \/ UpdateAnnotation
    \/ AddVolta \/ RemoveVolta \/ UpdateVolta
    \/ AddJump \/ RemoveJump \/ UpdateJump
    \/ AddSpan \/ RemoveSpan \/ UpdateSpan

Spec == Init /\ [][Next]_vars

-----------------------------------------------------------------------------

\* Every entry stands at a measure there is, a volta and a note end where they
\* start or later, no two entries of a kind share an id, and no jump refers to a
\* segno or a coda that is not there: whatever measures went, came or moved
\* (remapScoreReferences and its sweep, dragMeasureRange).
EntriesStand == Placed(score, Count(score)) /\ Referred(score)

\* Every voice of every staff holds the same measures in the same order: an
\* edit of whole measures reaches all of them (withAllVoiceMeasures, the fanout
\* of applyStructuralAppendOrInsert and applyRegionReplace), a new voice has one
\* for each there is.
VoicesAligned == Aligned(score)

\* No measure ever sounds longer than the meter allows, and no edit cuts a
\* triplet in two: room is made before a note is put in, and a triplet in the
\* way refuses it (transformScoreBalanced.ts).
BarsFit ==
    \A l \in Voices(score) : \A m \in DOMAIN score.lines[l] :
        /\ Sounds(score.lines[l][m].events) <= 3 * Capacity
        /\ WholeTriplets(score.lines[l][m].events)

Full(bar) == Sounds(bar.events) = 3 * Capacity /\ \A i \in DOMAIN bar.events : ~bar.events[i].tup

AllFull(lines) == \A l \in DOMAIN lines : \A m \in DOMAIN lines[l] : Full(lines[l][m])

Lengths(bar) == [i \in DOMAIN bar.events |->
                    [bar.events[i] EXCEPT !.id = NoId]]

\* A full measure without triplets is still full after any edit, with the same
\* notes when the edit was not of its notes; and where every measure is full,
\* those an edit brings in are too.  The edits that do not validate rely on it.
BarsKeepTheirTime ==
    [][/\ \A l \in Voices(score) \cap Voices(score') : \A m \in Bars(score), n \in Bars(score') :
            LET old == score.lines[l][m]
                new == score'.lines[l][n]
            IN  old.uid = new.uid =>
                  /\ Full(old) => Full(new)
                  /\ last' # "balanced" => Lengths(old) = Lengths(new)
       /\ AllFull(score.lines) /\ AllFull(clip.new) /\ last' # "model" => AllFull(score'.lines)]_vars

Stays(m) == UidOf(score, m) \in Uids(score')
SameBar(m, n) == UidOf(score, m) = UidOf(score', n)

\* When measures come, go or move, what stands at a measure that stays is still
\* there, at that measure; a volta or a note whose two ends stay is cut only by
\* a move; and a jump stays when its measure and those it refers to stay, if it
\* refers to no To Coda (one that does is dropped by every remap).
EntriesFollowTheirBars ==
    [][last' # "entry" =>
        /\ \A p \in score.points : Stays(p.at) =>
             \E q \in score'.points : q.id = p.id /\ SameBar(p.at, q.at)
        /\ \A r \in score.ranges : Stays(r.from) /\ Stays(r.to) /\ last' # "move" =>
             \E q \in score'.ranges : q.id = r.id /\ SameBar(r.from, q.from) /\ SameBar(r.to, q.to)
        /\ \A r \in score.ranges, q \in score'.ranges : q.id = r.id =>
             /\ Stays(r.from) => SameBar(r.from, q.from)
             /\ Stays(r.to) => SameBar(r.to, q.to)
        /\ \A j \in score.jumps, k \in score'.jumps : k.id = j.id /\ Stays(j.at) => SameBar(j.at, k.at)
        /\ \A j \in score.jumps :
             /\ Stays(j.at) /\ j.tocoda = 0 /\ last' # "move"
             /\ \A p \in score.points : p.id \in {j.segno, j.coda} => Stays(p.at)
             => \E k \in score'.jumps : k.id = j.id]_vars

Anchored(s, x) ==
    /\ Places(s, x.a) # {} /\ Places(s, x.b) # {}
    /\ FirstPlace(s, x.a)[1] = x.line /\ FirstPlace(s, x.b)[1] = x.line

\* every measure an end of x is found in stays (an id may be found twice: ids are
\* derived from the place for every proposal shown, and events move)
EndsStay(x) ==
    \A p \in Places(score, x.a) \union Places(score, x.b) : Stays(p[2])

\* An edit of measures or of entries never leaves a span on events that are not
\* there: a span with both its events stays on them, one that lost one goes,
\* one that lost none is kept, and a span pasted with its measures stands on
\* the pasted events.  (A balanced edit gives the event it touches no id, and a
\* voice goes without its spans: both are left out.)
SpansAnchored ==
    [][last' \notin {"balanced", "voice"} =>
        /\ \A x \in score.spans, y \in score'.spans :
             x.id = y.id /\ Anchored(score, x) => Anchored(score', y)
        /\ \A y \in score'.spans :
             y.id \notin IdsOf(score.spans) /\ y.line \in Voices(score') => Anchored(score', y)
        /\ \A x \in score.spans :
             Anchored(score, x) /\ EndsStay(x) /\ last' # "entry" => x.id \in IdsOf(score'.spans)]_vars
=============================================================================
