------------------------------ MODULE EdgeVision ------------------------------
(***************************************************************************)
(* From the boxes a detector finds in a frame to the intrusions an edge    *)
(* node announces: Tracker, EdgePipeline and GaugeProjector                *)
(* (edge/jetson_sim/vision) and the announcements of scenario_vision       *)
(* (edge/jetson_sim/edge_node.py).                                         *)
(*                                                                         *)
(* A box is the stretch [lo, hi] it covers across the track, in the units  *)
(* of HalfGauge, and how far along the track it stands.  All boxes have    *)
(* one height, and one step along the track moves a box by one unit of it: *)
(* boxes at neighbouring distances overlap, as they do in the image, and a *)
(* track may follow an object out of range.  That the image draws far      *)
(* objects smaller is left out.  The class and its votes change no         *)
(* announcement and are left out.  Time is in frames.                      *)
(***************************************************************************)
EXTENDS Integers, Sequences, FiniteSets

CONSTANTS Frames,        \* lists of boxes a frame may show, in detector order
          HalfGauge,     \* HALF_GAUGE_M
          MaxRange,      \* max_range_m
          Height,        \* the height of a box, in steps along the track
          WarmUp,        \* frames that warm the background subtractor up
          MaxMisses,     \* max_misses of the Tracker
          SustainAfter,  \* dwell that makes an onset sustained
          MaxTracks,     \* bound on the tracks ever opened
          MaxFrame       \* bound on time

Box == [lo : Int, hi : Int, lon : Int]

ASSUME VisionAssumption ==
    /\ Frames \subseteq Seq(Box)
    /\ \A boxes \in Frames : \A k \in DOMAIN boxes : boxes[k].lo < boxes[k].hi
    /\ {HalfGauge, MaxRange, MaxMisses, SustainAfter, MaxTracks, MaxFrame, WarmUp} \subseteq Nat
    /\ Height \in Nat \ {0}

VARIABLES
    now,        \* frames processed
    frame,      \* the boxes of the last one
    tracks,     \* Tracker._tracks: [ids alive -> Track], opened in the order of ids
    nextId,     \* Tracker._next
    announced,  \* [id -> "none", "onset", "sustained" or "cleared"]
    told,       \* history: [id -> the states published about it]
    unbroken    \* history: tracks seen intruding in every frame since their onset

visionVars == <<now, frame, tracks, nextId, announced, told, unbroken>>

TrackId == 1..MaxTracks
Smaller(a, b) == IF a < b THEN a ELSE b
Larger(a, b) == IF a < b THEN b ELSE a
Abs(x) == IF x < 0 THEN -x ELSE x

-----------------------------------------------------------------------------
\* iou, as the shared and the joint area of two boxes.
Shared(a, b) == Larger(0, Smaller(a.hi, b.hi) - Larger(a.lo, b.lo))
                * Larger(0, Height - Abs(a.lon - b.lon))
Joint(a, b) == Height * ((a.hi - a.lo) + (b.hi - b.lo)) - Shared(a, b)
Overlaps(a, b) == 10 * Shared(a, b) >= 3 * Joint(a, b)
CloserTo(box, a, b) == Shared(box, a) * Joint(box, b) >= Shared(box, b) * Joint(box, a)

\* Mutant: a box may be matched twice.
MutBestMatchTaken(track, boxes, free) ==
    LET near == {k \in DOMAIN boxes : Overlaps(track.box, boxes[k])}
        best == {k \in near : \A j \in near : CloserTo(track.box, boxes[k], boxes[j])}
    IN {k \in best : \A j \in best : j <= k}

\* The free box that matches a track best, the last of the list among equals,
\* as a set.
BestMatch(track, boxes, free) ==
    LET near == {k \in free : Overlaps(track.box, boxes[k])}
        best == {k \in near : \A j \in near : CloserTo(track.box, boxes[k], boxes[j])}
    IN {k \in best : \A j \in best : j <= k}

Seen(track, box, t) == [track EXCEPT !.box = box, !.last = t, !.misses = 0]
Missed(track) == [track EXCEPT !.misses = @ + 1]
Opened(box, t) == [box |-> box, first |-> t, last |-> t, misses |-> 0]

\* One turn of the loop over the tracks, oldest first: the box track id takes of
\* those the tracks before it left, as a set.
Associate(boxes, taken, id) ==
    IF id \in DOMAIN tracks
    THEN BestMatch(tracks[id], boxes, DOMAIN boxes \ UNION {taken[j] : j \in 1..(id - 1)})
    ELSE {}

Matches(boxes) == LET taken[id \in TrackId] == Associate(boxes, taken, id) IN taken
Unmatched(boxes, matches) == DOMAIN boxes \ UNION {matches[id] : id \in TrackId}

\* The box a track has in this frame, as a set: the one it matched or, of the
\* boxes left, each opens a track in its turn.
Takes(matches, left) ==
    [id \in TrackId |-> IF id < nextId THEN matches[id]
                   ELSE {k \in left : id - nextId = Cardinality({j \in left : j < k})}]

TrackAfter(boxes, taken, id, t) ==
    LET box == boxes[CHOOSE k \in taken : TRUE] IN
    IF taken = {} THEN Missed(tracks[id])
    ELSE IF id < nextId THEN Seen(tracks[id], box, t) ELSE Opened(box, t)

Retained(track) == track.misses <= MaxMisses

\* Tracker.update: the tracks it leaves.
Updated(boxes, takes, t) ==
    LET known == DOMAIN tracks \union {id \in TrackId : takes[id] # {}}
        after == [id \in known |-> TrackAfter(boxes, takes[id], id, t)]
    IN [id \in {i \in known : Retained(after[i])} |-> after[id]]

-----------------------------------------------------------------------------
\* nearest_lateral_m and gauge_margin_m.
NearestLateral(box) ==
    IF box.lo <= 0 /\ 0 <= box.hi THEN 0 ELSE Smaller(Abs(box.lo), Abs(box.hi))
GaugeMargin(box) == NearestLateral(box) - HalfGauge

\* _assess: only a box within the calibrated range is judged.
InRange(box) == 0 < box.lon /\ box.lon <= MaxRange
Intrudes(box) == InRange(box) /\ GaugeMargin(box) < 0

\* Mutant: the last box of a track out of sight is judged too.
MutAssessedCoasting(ts) == {id \in DOMAIN ts : InRange(ts[id].box)}

\* Only tracks seen in this frame are assessed.
Assessed(ts) == {id \in DOMAIN ts : ts[id].misses = 0 /\ InRange(ts[id].box)}
Intruding(ts) == {id \in Assessed(ts) : Intrudes(ts[id].box)}
DwellOf(track) == track.last - track.first

\* Mutant: a track is announced from its second frame on.
MutAnnouncedLate(ts, id) ==
    LET old == announced[id] IN
    IF id \in Intruding(ts)
    THEN IF old = "none" THEN IF DwellOf(ts[id]) > 0 THEN "onset" ELSE "none"
         ELSE IF old = "onset" /\ DwellOf(ts[id]) > SustainAfter THEN "sustained" ELSE old
    ELSE IF old \in {"onset", "sustained"} THEN "cleared" ELSE old

\* The state a track is given in this frame.
Announced(ts, id) ==
    LET old == announced[id] IN
    IF id \in Intruding(ts)
    THEN IF old = "none" THEN "onset"
         ELSE IF old = "onset" /\ DwellOf(ts[id]) > SustainAfter THEN "sustained" ELSE old
    ELSE IF old \in {"onset", "sustained"} THEN "cleared" ELSE old

\* A change is published, a release only if the track was assessed in this frame.
Published(ts, id) ==
    /\ Announced(ts, id) # announced[id]
    /\ Announced(ts, id) = "cleared" => id \in Assessed(ts)

\* The time given to the tracker.  In the warm-up it is that of the wall clock,
\* which the frame clock, started at 0 after it, does not come near.
FrameTime(n) == IF n <= WarmUp THEN MaxFrame + n ELSE n - WarmUp

\* process(frame) and the announcements that follow it, except in the warm-up:
\* that feeds the tracker and announces nothing.
Process(boxes) ==
    LET t == FrameTime(now + 1)
        matches == Matches(boxes)
        left == Unmatched(boxes, matches)
        seen == {id \in DOMAIN tracks' : tracks'[id].misses = 0 /\ Intrudes(tracks'[id].box)}
    IN
    /\ now < MaxFrame
    /\ nextId + Cardinality(left) <= MaxTracks + 1
    /\ now' = now + 1
    /\ frame' = boxes
    /\ tracks' = Updated(boxes, Takes(matches, left), t)
    /\ nextId' = nextId + Cardinality(left)
    /\ IF now < WarmUp THEN UNCHANGED <<announced, told>>
       ELSE /\ announced' = [id \in TrackId |-> Announced(tracks', id)]
            /\ told' = [id \in TrackId |-> IF Published(tracks', id)
                                       THEN Append(told[id], Announced(tracks', id))
                                       ELSE told[id]]
    /\ unbroken' = {id \in seen : announced[id] = "none" \/ id \in unbroken}

VisionInit ==
    /\ now = 0 /\ frame = <<>> /\ tracks = <<>> /\ nextId = 1
    /\ announced = [id \in TrackId |-> "none"]
    /\ told = [id \in TrackId |-> <<>>]
    /\ unbroken = {}

VisionNext == \E boxes \in Frames : Process(boxes)

VisionSpec == VisionInit /\ [][VisionNext]_visionVars

-----------------------------------------------------------------------------
Latest(s) == s[Len(s)]
State == {"onset", "sustained", "cleared"}

Track == [box : Box, first : Nat, last : Nat, misses : 0..MaxMisses]

VisionTypeOK ==
    /\ now \in Nat /\ nextId \in 1..(MaxTracks + 1)
    /\ frame \in Seq(Box)
    /\ DOMAIN tracks \subseteq TrackId /\ tracks \in [DOMAIN tracks -> Track]
    /\ announced \in [TrackId -> State \union {"none"}]
    /\ told \in [TrackId -> Seq(State)] /\ unbroken \subseteq TrackId

\* The tracks seen in the last frame.
Current == {id \in DOMAIN tracks : tracks[id].misses = 0}

\* Every box of a frame is carried by exactly one track seen in it, and every
\* such track by a box: association loses no object and doubles none, however
\* tracks compete for boxes (tracker.py:66-101).  No id is given out twice.
FrameCarried ==
    /\ VisionTypeOK
    /\ \A k \in DOMAIN frame : \E c \in Current : tracks[c].box = frame[k]
    /\ \A c \in Current : \E k \in DOMAIN frame : tracks[c].box = frame[k]
    /\ Cardinality(Current) = Len(frame)
    /\ \A id \in TrackId : id >= nextId => id \notin DOMAIN tracks /\ told[id] = <<>>

\* No object inside the gauge goes unannounced: once the warm-up is over,
\* whatever stands there in this frame belongs to a track whose onset was
\* published (edge_node.py:353-369).
IntrusionTold ==
    now > WarmUp => \A k \in DOMAIN frame : Intrudes(frame[k]) =>
        \E c \in Current : tracks[c].box = frame[k]
                           /\ \E j \in DOMAIN told[c] : told[c][j] = "onset"

\* The state a track is given fits what was seen of it.
TellsStory(id) ==
    told'[id] # told[id] =>
      CASE Latest(told'[id]) = "onset" -> told[id] = <<>>
        [] Latest(told'[id]) = "sustained" -> id \in unbroken \cap unbroken'
        [] Latest(told'[id]) = "cleared" ->
             /\ told[id] # <<>>
             /\ id \in DOMAIN tracks' /\ ~Intrudes(tracks'[id].box)
             /\ \E k \in DOMAIN frame' : tracks'[id].box = frame'[k]

\* What is published of a track tells its story: persistence only of an object
\* seen intruding in every frame since its onset, and a release only after an
\* onset and of an object seen outside the gauge in that very frame
\* (edge_node.py:352-378, pipeline.py:64-80).
StoryTrue == [][\A id \in TrackId : TellsStory(id)]_visionVars

\* edge_node.py:331-334: what is published is what the chain concluded, and the
\* states follow the persistence of the track.  Then the last word on a track
\* seen inside the gauge is never that it cleared.
ReentryTold ==
    \A c \in Current :
        Intrudes(tracks[c].box) => told[c] = <<>> \/ Latest(told[c]) # "cleared"
=============================================================================
