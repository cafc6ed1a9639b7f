------------------------------ MODULE GridMap ------------------------------
(***************************************************************************)
(* The sliding occupancy map (plan_env/grid_map.cpp): a window of cells    *)
(* around the sensor kept in a ring buffer, a log-odds level per cell, and *)
(* the number of occupied cells that inflate each cell.  Positions are     *)
(* cells, log odds are whole steps above clamp_min_log_.  The callbacks    *)
(* leave points for the timer, which casts them from the last known        *)
(* sensor position.  All callbacks run on one executor thread.             *)
(***************************************************************************)
EXTENDS RayCaster, FiniteSets, FiniteSetsExt, SequencesExt

CONSTANTS
  Size,                 \* map_voxel_num_
  Radius2, ZUp, ZDown,  \* double_cylinder_radius_ squared and the z inflation, in cells
  HitStep, MissStep,    \* prob_hit_log_, -prob_miss_log_
  LogMax, LogOcc,       \* clamp_max_log_, min_occupancy_log_
  SlideThresh,          \* map_sliding_thresh_vox_
  UpdateRange,          \* local_update_range_
  MaxRay2,              \* max_ray_length_ squared
  Sources,              \* sensor_type_ and cloud_is_world_: what the map is fed with
  Positions,            \* where the sensor and the points may be
  MaxPoints,            \* points of a cloud
  StaleMarks,           \* addresses whose marks are 256 rounds old
  Edited,               \* whether setOccupancy and resetBuffer, which no code calls, are called
  RevModulus            \* map_revision_ is followed modulo this

ASSUME GridAssumption ==
  /\ Size \in [Axis -> Nat \ {0}]
  /\ {HitStep, MissStep, LogMax, SlideThresh, RevModulus} \subseteq Nat \ {0}
  /\ LogOcc \in 0..(LogMax - 1) /\ {Radius2, ZUp, ZDown, MaxPoints} \subseteq Nat
  /\ Edited \in BOOLEAN /\ Positions \subseteq Cell3 /\ Sources \subseteq {"world cloud", "cloud and pose", "depth"}

VARIABLES source,       \* the one of Sources that is configured
          grid,         \* origin index, levels and inflation counts
          sensor,       \* ray_pos_, has_ray_pose_
          proj_points,  \* what a timer has still to cast, or the depth image
          pending,      \* occ_need_update_, use_cloud_update_
          first_depth,  \* has_first_depth_
          revision      \* map_revision_

gridVars == <<source, grid, sensor, proj_points, pending, first_depth, revision>>

Unknown == -1           \* clamp_min_log_ - unknown_flag_
Addr == (0..(Size[1] - 1)) \X (0..(Size[2] - 1)) \X (0..(Size[3] - 1))

GridTypeOK ==
  /\ source \in Sources
  /\ grid.origin \in Cell3
  /\ grid.occ \in [Addr -> Unknown..LogMax] /\ grid.cnt \in [Addr -> Nat]
  /\ sensor \in [pos : Positions, known : BOOLEAN]
  /\ proj_points \in Seq(Positions) /\ pending \in [update : BOOLEAN, cloud : BOOLEAN]
  /\ first_depth \in BOOLEAN /\ revision \in 0..(RevModulus - 1)

-----------------------------------------------------------------------------
(* Cells, addresses and the window.                                        *)
Plus(a, b) == [i \in Axis |-> a[i] + b[i]]
Difference(a, b) == [i \in Axis |-> a[i] - b[i]]
Norm2(v) == v[1] * v[1] + v[2] * v[2] + v[3] * v[3]
Max2(a, b) == IF a < b THEN b ELSE a
Min2(a, b) == IF a < b THEN a ELSE b

MinIdx(origin) == [i \in Axis |-> origin[i] - Size[i] \div 2]
MaxIdx(origin) == [i \in Axis |-> MinIdx(origin)[i] + Size[i] - 1]
IsInMap(g, c) == \A i \in Axis : MinIdx(g.origin)[i] <= c[i] /\ c[i] <= MaxIdx(g.origin)[i]

ToAddress(c) == [i \in Axis |-> c[i] % Size[i]]

HashIdToGlobalIndex(g, a) ==
  LET low == MinIdx(g.origin) IN [i \in Axis |-> low[i] + ((a[i] - low[i]) % Size[i])]

BoundIndex(g, c) ==
  [i \in Axis |-> Max2(Min2(c[i], MaxIdx(g.origin)[i]), MinIdx(g.origin)[i])]

Occupied(level) == level > LogOcc
Level(g, c) == g.occ[ToAddress(c)]

InflateOffsets ==
  {d \in (-Radius2..Radius2) \X (-Radius2..Radius2) \X (-ZDown..ZUp) :
     d[1] * d[1] + d[2] * d[2] < Radius2}

(* Queries.                                                                *)
IsKnownFree(g, c)     == Level(g, BoundIndex(g, c)) >= 0 /\ g.cnt[ToAddress(BoundIndex(g, c))] = 0
IsKnownOccupied(g, c) == g.cnt[ToAddress(BoundIndex(g, c))] > 0
GetOccupancy(g, c) ==
  IF ~IsInMap(g, c) THEN -1 ELSE IF Occupied(Level(g, c)) THEN 1 ELSE 0
InflatedAt(g, c) ==
  IF ~IsInMap(g, c) THEN -1 ELSE IF g.cnt[ToAddress(c)] > 0 THEN 1 ELSE 0

(* The body is a cylinder in front of its centre and one behind it.        *)
GetInflateOccupancy(g, c, heading) ==
  LET front == InflatedAt(g, Plus(c, heading))
  IN  IF front # 0 THEN front ELSE InflatedAt(g, Difference(c, heading))

-----------------------------------------------------------------------------
(* Updates of the buffers.                                                 *)

UpdateInflation(g, c, delta, ignored) ==
  LET reached == {ToAddress(p) : p \in {q \in {Plus(c, d) : d \in InflateOffsets} : IsInMap(g, q)}}
  IN  [g EXCEPT !.cnt = [a \in Addr |-> IF a \in reached \ ignored
                                        THEN Max2(0, g.cnt[a] + delta) ELSE g.cnt[a]]]

ApplyOccupancyUpdate(g, c, level) ==
  LET a   == ToAddress(c)
      set == [g EXCEPT !.occ[a] = level]
      was == Occupied(g.occ[a])
  IN  IF ~IsInMap(g, c) THEN g
      ELSE IF was = Occupied(level) THEN set
      ELSE UpdateInflation(set, c, IF was THEN -1 ELSE 1, {})

EmptyGrid(origin) ==
  [origin |-> origin, occ |-> [a \in Addr |-> Unknown], cnt |-> [a \in Addr |-> 0]]

(* Cells that leave take their inflation with them.                        *)
WithoutInflationOf(g, addrs, ignored) ==
  FoldSet(LAMBDA a, h : IF Occupied(h.occ[a])
                        THEN UpdateInflation(h, HashIdToGlobalIndex(g, a), -1, ignored) ELSE h,
          g, addrs)

(* The slabs that leave the window, by address.                            *)
Cleared(g, shift) ==
  {a \in Addr : LET c == HashIdToGlobalIndex(g, a)
                IN  \E i \in Axis : \/ c[i] < MinIdx(g.origin)[i] + shift[i]
                                    \/ c[i] > MaxIdx(g.origin)[i] + shift[i]}

(* Faulty variant: the slab at the low end is cleared whichever way the    *)
(* window moves.                                                           *)
SlidLow(g, center) ==
  LET shift   == Difference(center, g.origin)
      cleared == Cleared(g, [i \in Axis |-> Dist(shift[i])])
      kept    == WithoutInflationOf(g, cleared, cleared)
  IN  IF \A i \in Axis : Dist(shift[i]) < SlideThresh THEN g
      ELSE IF \E i \in Axis : Dist(shift[i]) >= Size[i] THEN EmptyGrid(center)
      ELSE [origin |-> center,
            occ |-> [a \in Addr |-> IF a \in cleared THEN Unknown ELSE kept.occ[a]],
            cnt |-> [a \in Addr |-> IF a \in cleared THEN 0 ELSE kept.cnt[a]]]

(* Faulty variant: the window moves before the inflation is withdrawn, so  *)
(* that the addresses already stand for the cells that enter.              *)
SlidMovedFirst(g, center) ==
  LET shift   == Difference(center, g.origin)
      cleared == Cleared(g, shift)
      kept    == WithoutInflationOf([g EXCEPT !.origin = center], cleared, cleared)
  IN  IF \A i \in Axis : Dist(shift[i]) < SlideThresh THEN g
      ELSE IF \E i \in Axis : Dist(shift[i]) >= Size[i] THEN EmptyGrid(center)
      ELSE [origin |-> center,
            occ |-> [a \in Addr |-> IF a \in cleared THEN Unknown ELSE kept.occ[a]],
            cnt |-> [a \in Addr |-> IF a \in cleared THEN 0 ELSE kept.cnt[a]]]

(* updateSlidingMap.                                                       *)
Slid(g, center) ==
  LET shift   == Difference(center, g.origin)
      cleared == Cleared(g, shift)
      kept    == WithoutInflationOf(g, cleared, cleared)
  IN  IF \A i \in Axis : Dist(shift[i]) < SlideThresh THEN g
      ELSE IF \E i \in Axis : Dist(shift[i]) >= Size[i] THEN EmptyGrid(center)
      ELSE [origin |-> center,
            occ |-> [a \in Addr |-> IF a \in cleared THEN Unknown ELSE kept.occ[a]],
            cnt |-> [a \in Addr |-> IF a \in cleared THEN 0 ELSE kept.cnt[a]]]

(* resetBuffer of a box.                                                   *)
ResetBox(g, low, high) ==
  LET box == {a \in Addr : LET c == HashIdToGlobalIndex(g, a)
                           IN  \A i \in Axis : BoundIndex(g, low)[i] <= c[i]
                                            /\ c[i] <= BoundIndex(g, high)[i]}
  IN  [WithoutInflationOf(g, box, {}) EXCEPT
         !.occ = [a \in Addr |-> IF a \in box THEN Unknown ELSE @[a]]]

-----------------------------------------------------------------------------
(* One round of raycasting.                                                *)
Center == [i \in Axis |-> Parts \div 2]
WithinRay(c, pos) == Norm2(Difference(c, pos)) <= MaxRay2

(* The last cell towards p that is in the window and within the ray.       *)
Clip(g, pos, p) ==
  LET line == Append(RayCells(pos, Center, p), p)
      good == {n \in 1..Len(line) : IsInMap(g, line[n]) /\ WithinRay(line[n], pos)}
  IN  IF good = {} THEN pos ELSE line[Max(good)]

NoTally(marks) ==
  [all |-> [a \in Addr |-> 0], hit |-> [a \in Addr |-> 0], ended |-> marks, crossed |-> marks]

(* setCacheOccupancy.                                                      *)
SetCache(g, t, c, hit) ==
  IF ~IsInMap(g, c) THEN t
  ELSE [t EXCEPT !.all[ToAddress(c)] = @ + 1,
                 !.hit[ToAddress(c)] = IF hit THEN @ + 1 ELSE @]

(* A ray counts misses from its end towards the sensor, up to and with the *)
(* first cell another ray of the round has crossed.                        *)
Crossed(g, t, line) ==
  LET met  == {n \in 1..Len(line) : IsInMap(g, line[n]) /\ ToAddress(line[n]) \in t.crossed}
      last == IF met = {} THEN Len(line) ELSE Min(met)
      run  == SubSeq(line, 1, last)
      cnt  == FoldLeft(LAMBDA s, c : SetCache(g, s, c, FALSE), t, run)
  IN  [cnt EXCEPT !.crossed = @ \cup {ToAddress(run[n]) : n \in {m \in 1..last : IsInMap(g, run[m])}}]

TallyPoint(g, pos, t, p) ==
  LET hit == IsInMap(g, p) /\ WithinRay(p, pos)
      end == IF hit THEN p ELSE Clip(g, pos, p)
      one == SetCache(g, t, end, hit)
  IN  IF IsInMap(g, end) /\ ToAddress(end) \in t.ended THEN one
      ELSE Crossed(g, [one EXCEPT !.ended = IF IsInMap(g, end) THEN @ \cup {ToAddress(end)} ELSE @],
                   RayCells(end, Center, pos))

InLocal(g, pos, c) ==
  \A i \in Axis : BoundIndex(g, Difference(pos, UpdateRange))[i] <= c[i]
               /\ c[i] <= BoundIndex(g, Plus(pos, UpdateRange))[i]

Fused(g, pos, t, a) ==
  LET c    == HashIdToGlobalIndex(g, a)
      step == IF t.hit[a] >= t.all[a] - t.hit[a] THEN HitStep ELSE -MissStep
      here == IF InLocal(g, pos, c) THEN g ELSE ApplyOccupancyUpdate(g, c, 0)
  IN  IF t.all[a] = 0 \/ (step > 0 /\ g.occ[a] = LogMax) THEN g
      ELSE ApplyOccupancyUpdate(here, c, Min2(Max2(0, Max2(0, here.occ[a]) + step), LogMax))

(* Unknown counts as the minimum: what separates them crosses no           *)
(* threshold.                                                              *)
RaycastProcess(g, pos, pts, marks) ==
  LET slid == Slid(g, pos)
      t    == FoldLeft(LAMBDA s, p : TallyPoint(slid, pos, s, p), NoTally(marks), pts)
  IN  IF pts = << >> THEN g ELSE FoldSet(LAMBDA a, h : Fused(h, pos, t, a), slid, Addr)

-----------------------------------------------------------------------------
Revised(n) == revision' = (revision + n) % RevModulus
SlideTo(pos) == grid' = Slid(grid, pos) /\ Revised(IF Slid(grid, pos) = grid THEN 0 ELSE 1)

GridInit ==
  /\ source \in Sources
  /\ grid = EmptyGrid(<<0, 0, 0>>)
  /\ sensor \in [pos : {<<0, 0, 0>>}, known : {FALSE}]
  /\ proj_points = << >> /\ pending = [update |-> FALSE, cloud |-> FALSE]
  /\ first_depth = FALSE /\ revision = 1 % RevModulus

(* The points of a cloud that are near enough to be hits or too far to be  *)
(* anything but free rays.                                                 *)
Usable(pos, p) == (\A i \in Axis : Dist(p[i] - pos[i]) <= UpdateRange[i]) \/ ~WithinRay(p, pos)
Clouds == UNION {[1..n -> Positions] : n \in 0..MaxPoints}

(* cloudCallback from the position pos; an empty cloud ends before the     *)
(* window slides and leaves the points of an earlier cloud pending.        *)
CloudCallback(pos, cloud) ==
  LET used == SelectSeq(cloud, LAMBDA p : Usable(pos, p))
  IN  IF cloud = << >> THEN UNCHANGED <<grid, revision, proj_points, pending>>
      ELSE /\ SlideTo(pos) /\ proj_points' = used
           /\ pending' = IF used = << >> THEN pending ELSE [update |-> TRUE, cloud |-> TRUE]

(* A world cloud whose sensor pose TF knows at its stamp; any other cloud  *)
(* is dropped.                                                             *)
WorldCloudCallback ==
  /\ source = "world cloud"
  /\ \E pos \in Positions, cloud \in Clouds :
       sensor' = [pos |-> pos, known |-> TRUE] /\ CloudCallback(pos, cloud)
  /\ UNCHANGED <<source, first_depth>>

(* A cloud and a pose whose stamps and frames agree.  sensorPoseCallback   *)
(* slides the window; it ignores a pose without a rotation, and the cloud  *)
(* is then taken from the last one.                                        *)
LidarCloudPoseCallback ==
  /\ source = "cloud and pose"
  /\ \E pos \in Positions, cloud \in Clouds :
       \/ /\ sensor' = [pos |-> pos, known |-> TRUE]
          /\ IF cloud = << >> THEN SlideTo(pos) /\ UNCHANGED <<proj_points, pending>>
             ELSE CloudCallback(pos, cloud)
       \/ sensor.known /\ CloudCallback(sensor.pos, cloud) /\ UNCHANGED sensor
  /\ UNCHANGED <<source, first_depth>>

(* The image is kept; the timer projects it from the pose known then.      *)
DepthPoseCallback ==
  /\ source = "depth"
  /\ \E pos \in Positions, image \in Clouds :
       /\ SlideTo(pos) /\ proj_points' = image
       /\ sensor' = [pos |-> pos, known |-> sensor.known \/ IsInMap(grid', pos)]
       /\ pending' = [update |-> IsInMap(grid', pos), cloud |-> FALSE]
  /\ UNCHANGED <<source, first_depth>>

UpdateOccupancyCallback ==
  /\ pending.update
  /\ first_depth' = (first_depth \/ ~pending.cloud)
  /\ LET pts == IF pending.cloud \/ first_depth THEN proj_points ELSE << >>
     IN  /\ \E marks \in StaleMarks : grid' = RaycastProcess(grid, sensor.pos, pts, marks)
         /\ Revised(IF grid'.origin = grid.origin THEN 1 ELSE 2)
  /\ proj_points' = << >> /\ pending' = [update |-> FALSE, cloud |-> FALSE]
  /\ UNCHANGED <<source, sensor>>

SetOccupancy ==
  /\ Edited
  /\ \E c \in Positions, level \in {0, LogMax} :
       /\ IsInMap(grid, c)
       /\ grid' = ApplyOccupancyUpdate(grid, c, level)
  /\ Revised(1) /\ UNCHANGED <<source, sensor, proj_points, pending, first_depth>>

ResetBuffer ==
  /\ Edited
  /\ \/ grid' = EmptyGrid(grid.origin)
     \/ \E low, high \in Positions : grid' = ResetBox(grid, low, high)
  /\ Revised(1) /\ UNCHANGED <<source, sensor, proj_points, pending, first_depth>>

GridNext ==
  \/ WorldCloudCallback \/ LidarCloudPoseCallback \/ DepthPoseCallback
  \/ UpdateOccupancyCallback \/ SetOccupancy \/ ResetBuffer

GridSpec == GridInit /\ [][GridNext]_gridVars

-----------------------------------------------------------------------------
(* Properties.                                                             *)

Window(g) == {HashIdToGlobalIndex(g, a) : a \in Addr}
Inflating(g, c) == {q \in Window(g) : Occupied(Level(g, q)) /\ Difference(c, q) \in InflateOffsets}

(* Wherever the sensor goes next, what the map knows of the cells that     *)
(* stay in the window is kept, and nothing is known of those that enter it *)
(* (an empty map has nothing to keep).                                     *)
SlideKeepsOverlap ==
  grid # EmptyGrid(grid.origin) => \A pos \in Positions \ {grid.origin} :
    LET n == Slid(grid, pos)
    IN  \A c \in Window(n) :
          Level(n, c) = IF c \in Window(grid) THEN Level(grid, c) ELSE Unknown

(* No obstacle stays in the collision layer when the cells that caused it  *)
(* are free, forgotten or out of the window.                               *)
NoGhostInflation ==
  \A c \in Window(grid) :
    grid.cnt[ToAddress(c)] > 0 => grid.cnt[ToAddress(c)] <= Cardinality(Inflating(grid, c))

(* "Queries inflated occupancy for the double-cylinder body model [...]    *)
(* 0 free, 1 occupied" and "Tests for observed, inflation-free space": a   *)
(* body with its front or its rear on an occupied cell is not free, nor is *)
(* that cell known to be free.                                             *)
ObstaclesBlock ==
  \A c \in {q \in Window(grid) : GetOccupancy(grid, q) = 1} :
    /\ ~IsKnownFree(grid, c) /\ IsKnownOccupied(grid, c)
    /\ \A h \in {<<1, 0, 0>>, <<0, 1, 0>>, <<1, 1, 0>>} :
         /\ GetInflateOccupancy(grid, Difference(c, h), h) # 0
         /\ GetInflateOccupancy(grid, Plus(c, h), h) # 0
=============================================================================
