----------------------------- MODULE Priorities -----------------------------
(***************************************************************************)
(* Priorities of tasks: tasks/task_priority.rs and                         *)
(* engine/priority_dependency.rs.  Four bands of eight bits in one integer *)
(* that is compared as a whole; the lowest band falls with the distance to *)
(* the closest viewer.                                                     *)
(***************************************************************************)
EXTENDS Integers, FiniteSets, FiniteSetsExt

BandMax == 255
MaxLod == 24                        \* MAX_LOD
Band3Default == 10                  \* TASK_PRIORITY_BAND3_DEFAULT
InitialClosestDistanceSquared == 99999

BandWeight(band) == 256 ^ band

\* Mutant: the kind of the task weighs less than its LOD.
WholeLodFirst(b0, b1, b2, b3) ==
  b0 + b2 * BandWeight(1) + b1 * BandWeight(2) + b3 * BandWeight(3)

\* TaskPriority::new, and the band of a whole
Whole(b0, b1, b2, b3) ==
  b0 + b1 * BandWeight(1) + b2 * BandWeight(2) + b3 * BandWeight(3)

Band(whole, band) == (whole \div BandWeight(band)) % 256

\* set_band0 .. set_band3: the bits of the band are cleared, the value put there
WithBand(whole, band, value) ==
  whole + (value - Band(whole, band)) * BandWeight(band)

\* closest_distance_squared: without viewers the distance to the origin
ClosestDistanceSquared(viewers, position) ==
  IF viewers = {} THEN position * position
                  ELSE Min({(v - position) * (v - position) : v \in viewers}
                           \cup {InitialClosestDistanceSquared})

\* sqrt() as i32: rounded towards zero
Root(n) == CHOOSE r \in 0 .. 1000 : r * r <= n /\ (r + 1) * (r + 1) > n

Falloff(distance, lod) == distance \div (2 ^ (4 + lod))

\* PriorityDependency::evaluate
Evaluate(viewers, position, lod, band2) ==
  LET distance == Root(ClosestDistanceSquared(viewers, position)) IN
    Whole(Max({BandMax - Falloff(distance, lod), 0}), MaxLod - lod, band2, Band3Default)

IsTooFar(distanceSquared, dropDistanceSquared) == distanceSquared > dropDistanceSquared

-----------------------------------------------------------------------------
\* the order that the bands stand for: kind of task, then LOD, then nearness
Precedes(s, t) ==
  \/ s.band2 > t.band2
  \/ s.band2 = t.band2 /\ s.lod < t.lod

\* PrioritiesAreOrdered: comparing the packed integers compares the bands from the highest
\* down, so that no nearness outweighs a kind or a LOD; a task is never behind one of its kind
\* and LOD that is farther from all viewers; and a task that the cap of the distance makes too
\* far really is.
PrioritiesAreOrdered(viewers, s, t, drop) ==
  LET of(x) == Evaluate(viewers, x.position, x.lod, x.band2)
      square(x) == ClosestDistanceSquared(viewers, x.position)
      farther(v, x, y) == (x.position - v) * (x.position - v) >= (y.position - v) * (y.position - v) IN
    /\ Precedes(s, t) => of(s) > of(t)
    /\ /\ s.band2 = t.band2 /\ s.lod = t.lod
       /\ \A v \in IF viewers = {} THEN {0} ELSE viewers : farther(v, t, s)
       => of(s) >= of(t)
    /\ of(s) = Whole(Band(of(s), 0), MaxLod - s.lod, s.band2, Band3Default)
    /\ \A band \in 0 .. 3 : \A other \in 0 .. 3 : Band(WithBand(of(s), band, 7), other) =
                                IF other = band THEN 7 ELSE Band(of(s), other)
    /\ viewers # {} /\ IsTooFar(square(s), drop) =>
         \A v \in viewers : (s.position - v) * (s.position - v) > drop
=============================================================================
