------------------------------ MODULE DynAStar ------------------------------
(***************************************************************************)
(* The A* search of path_searching/dyn_a_star.cpp: steps lead to the eight *)
(* neighbours in x and y, at the height of the plane through both ends.    *)
(* Indices and heights are rounded as the code does it, towards zero.  The *)
(* node pool outlives a search; a node belongs to the search whose number  *)
(* it carries.  A cell is entered with a heading, and the inflated map is  *)
(* read in front of it and behind it.  The map does not change while a     *)
(* search runs; the deadline may pass at any step of it.                   *)
(***************************************************************************)
EXTENDS Integers, Sequences, FiniteSets, SequencesExt, Functions

CONSTANTS
  PoolSize,             \* POOL_SIZE_
  MapCells,             \* the cells of the pool that lie in the map
  MaxExpansions,        \* max_expansions_
  Offsets,              \* double_cylinder_offset_, in cells
  Worlds,               \* sets of inflated cells
  Requests,             \* from start_pt to end_pt, in half steps
  MaxRounds             \* searches

ASSUME SearchAssumption ==
  /\ PoolSize \in (Nat \ {0}) \X (Nat \ {0}) \X (Nat \ {0})
  /\ MaxExpansions \in Nat \ {0} /\ MaxRounds \in Nat /\ Offsets \subseteq Nat
  /\ Requests \subseteq Int \X Int \X Int

VARIABLES world, offset,
          nodes,        \* GridNodeMap_
          open,         \* openSet_
          lowered,      \* a cost fell in the queue, which is not reordered
          search,       \* the request, the status and gridPath_
          rounds        \* rounds_

starVars == <<world, offset, nodes, open, lowered, search, rounds>>

Pool == (0..(PoolSize[1] - 1)) \X (0..(PoolSize[2] - 1)) \X (0..(PoolSize[3] - 1))
Inner(c) == \A i \in 1..3 : 1 <= c[i] /\ c[i] < PoolSize[i] - 1
NoCell == <<-1, -1, -1>>
Centre == <<PoolSize[1] \div 2, PoolSize[2] \div 2, PoolSize[3] \div 2>>

SearchHeadings == ((-1..1) \X (-1..1)) \ {<<0, 0>>}
Shift(c, h, n) == <<c[1] + n * h[1], c[2] + n * h[2], c[3]>>
Size2(n) == IF n < 0 THEN -n ELSE n
Way(n) == IF n > 0 THEN 1 ELSE IF n < 0 THEN -1 ELSE 0
Opposite(d) == <<-d[1], -d[2], -d[3]>>

(* The heading of a line, to the nearest of eight; atan2(0, 0) is 0.       *)
Yaw(d) ==
  LET Counts(a, b) == IF 2 * Size2(a) < Size2(b) THEN 0 ELSE Way(a)
  IN  IF d[1] = 0 /\ d[2] = 0 THEN <<1, 0>> ELSE <<Counts(d[1], d[2]), Counts(d[2], d[1])>>

(* A cast to int: a fraction is cut off towards zero.                      *)
Cut(a, b) == IF a < 0 THEN -((-a) \div b) ELSE a \div b

(* The index of a point given in quarter steps from center_.               *)
Coord2Index(p) ==
  <<Cut(p[1] + 2, 4) + Centre[1], Cut(p[2] + 2, 4) + Centre[2], Cut(p[3] + 2, 4) + Centre[3]>>

NewNode == [rounds |-> 0, state |-> "undefined", g |-> 0, f |-> 0, from |-> NoCell]
Returned == {"success", "init_err", "search_err", "deadline_exceeded", "resource_limit"}

StarInit ==
  /\ world \in Worlds /\ offset \in Offsets
  /\ nodes = [c \in Pool |-> NewNode] /\ open = {} /\ lowered = FALSE /\ rounds = 0
  /\ search = [status |-> "idle", start |-> NoCell, end |-> NoCell, line |-> <<0, 0, 0>>,
               expanded |-> 0, path |-> << >>]

(* checkOccupancy: outside the map, free, or occupied.                     *)
Reading(c) == IF c \notin MapCells THEN -1 ELSE IF c \in world THEN 1 ELSE 0
CheckOccupancy(c, h) ==
  IF Reading(Shift(c, h, offset)) # 0 THEN Reading(Shift(c, h, offset))
  ELSE Reading(Shift(c, h, -offset))

(* getDiagHeu: steps of lengths 1, sqrt 2 and sqrt 3 count 5, 7 and 9.     *)
(* The length of one step is measured with it too.                         *)
DiagHeu(a, b) ==
  LET dx == Size2(a[1] - b[1])
      dy == Size2(a[2] - b[2])
      dz == Size2(a[3] - b[3])
      most == IF dx >= dy /\ dx >= dz THEN dx ELSE IF dy >= dz THEN dy ELSE dz
  IN  2 * (dx + dy + dz) + 3 * most

(* fScore, the heuristic weighted by the tie breaker 1.0001.               *)
Total(g, c, e) == 10000 * g + 10001 * DiagHeu(c, e)

Ended(status) == search' = [search EXCEPT !.status = status]

-----------------------------------------------------------------------------
(* A request: gridPath_ is emptied before anything else.  The ends lie on  *)
(* either side of center_.                                                 *)
AstarSearch ==
  /\ search.status = "idle" \/ search.status \in Returned
  /\ rounds < MaxRounds
  /\ world' \in Worlds
  /\ \E d \in Requests, expired \in BOOLEAN :
       LET start == Coord2Index(Opposite(d))
           end   == Coord2Index(d)
       IN  /\ search' = [status |-> IF expired THEN "deadline_exceeded"
                           ELSE IF {start, end} \subseteq Pool /\ d # <<0, 0, 0>>
                                THEN "adjust start" ELSE "init_err",
                         start |-> start, end |-> end, line |-> d, expanded |-> 0, path |-> << >>]
           /\ rounds' = IF expired THEN rounds ELSE rounds + 1
  /\ open' = {} /\ lowered' = FALSE
  /\ UNCHANGED <<offset, nodes>>

(* The cells a step along a line may lead to.                              *)
Beyond(c, d) ==
  {<<c[1] + a, c[2] + b, c[3] + e>> :
      a \in {0, Way(d[1])}, b \in {0, Way(d[2])}, e \in {0, Way(d[3])}} \ {c}

(* An end in an obstacle, or outside the map, is moved away from the other *)
(* end until it is free.                                                   *)
MoveEnd(c, d, next, Put(_)) ==
  IF CheckOccupancy(c, Yaw(search.line)) = 0 THEN search' = [search EXCEPT !.status = next]
  ELSE \E b \in Beyond(c, d) :
         IF b \in Pool /\ CheckOccupancy(b, Yaw(search.line)) # -1 THEN search' = Put(b)
         ELSE Ended("init_err")

AdjustStart ==
  /\ search.status = "adjust start"
  /\ MoveEnd(search.start, Opposite(search.line), "adjust end",
             LAMBDA b : [search EXCEPT !.start = b])
  /\ UNCHANGED <<world, offset, nodes, open, lowered, rounds>>

AdjustEnd ==
  /\ search.status = "adjust end"
  /\ MoveEnd(search.end, search.line, "begin", LAMBDA b : [search EXCEPT !.end = b])
  /\ UNCHANGED <<world, offset, nodes, open, lowered, rounds>>

Begin ==
  /\ search.status = "begin" /\ Ended("searching")
  /\ nodes' = [nodes EXCEPT ![search.start] =
       [rounds |-> rounds, state |-> "open", g |-> 0,
        f |-> Total(0, search.start, search.end), from |-> NoCell]]
  /\ open' = {search.start}
  /\ UNCHANGED <<world, offset, lowered, rounds>>

-----------------------------------------------------------------------------
(* interpolateZIndexOnSearchPlane, with the way along the line measured in *)
(* len2-ths of it.                                                         *)
Height(x, y) ==
  LET s == search.start
      e == search.end
      len2  == (e[1] - s[1]) * (e[1] - s[1]) + (e[2] - s[2]) * (e[2] - s[2])
      along == (x - s[1]) * (e[1] - s[1]) + (y - s[2]) * (e[2] - s[2])
      at    == IF along < 0 THEN 0 ELSE IF along > len2 THEN len2 ELSE along
      z     == (s[3] - Centre[3]) * len2 + at * (e[3] - s[3])
  IN  IF len2 = 0 THEN s[3] ELSE Cut(2 * z + len2, 2 * len2) + Centre[3]

OnPlane(x, y) == <<x, y, Height(x, y)>>
Neighbors(c) == {OnPlane(c[1] + h[1], c[2] + h[2]) : h \in SearchHeadings}
Heading(c, n) == <<n[1] - c[1], n[2] - c[2]>>

(* Faulty variant: a node of any earlier search has been explored.         *)
ExploredEver(n) == nodes[n].rounds > 0

Explored(n) == nodes[n].rounds = rounds

(* Faulty variant: the map is read for the heading of the request.         *)
AdmitsOnLine(c, n) == CheckOccupancy(n, Yaw(search.line)) = 0

Admits(c, n) == CheckOccupancy(n, Heading(c, n)) = 0

Reached(c, n) ==
  LET g == nodes[c].g + DiagHeu(c, n)
  IN  [rounds |-> rounds, state |-> IF Explored(n) THEN nodes[n].state ELSE "open",
       g |-> g, f |-> Total(g, n, search.end), from |-> c]

(* The node of a neighbour n once it has been looked at from c.  It is     *)
(* marked with the search before the map is read: one met first on a       *)
(* blocked heading is not new when it is met again.                        *)
Visited(c, n) ==
  IF ~Inner(n) \/ (Explored(n) /\ nodes[n].state = "closed") THEN nodes[n]
  ELSE IF ~Admits(c, n) THEN [nodes[n] EXCEPT !.rounds = rounds]
  ELSE IF ~Explored(n) \/ Reached(c, n).g < nodes[n].g THEN Reached(c, n)
  ELSE nodes[n]

(* retrievePath, from the goal back to the start, and getPath's reversal.  *)
CameFrom == [c \in Pool \cup {NoCell} |-> IF c = NoCell THEN NoCell ELSE nodes[c].from]
RetrievePath(c) ==
  LET back[n \in 0..Cardinality(Pool)] == IF n = 0 THEN c ELSE CameFrom[back[n - 1]]
      steps == CHOOSE n \in 0..Cardinality(Pool) : back[n] # NoCell /\ back[n + 1] = NoCell
  IN  [k \in 1..(steps + 1) |-> back[steps + 1 - k]]

(* The top of the queue: a node of least cost, or any node once the heap   *)
(* is out of order.                                                        *)
Top(c) == c \in open /\ (lowered \/ \A o \in open : nodes[c].f <= nodes[o].f)

Expand ==
  /\ search.status = "searching"
  /\ search.expanded < MaxExpansions
  /\ \E c \in open :
       /\ Top(c)
       /\ IF c = search.end
          THEN /\ search' = [search EXCEPT !.status = "success", !.path = RetrievePath(c)]
               /\ open' = open \ {c} /\ UNCHANGED <<nodes, lowered>>
          ELSE /\ nodes' = [n \in Pool |->
                    IF n = c THEN [nodes[c] EXCEPT !.state = "closed"]
                    ELSE IF n \in Neighbors(c) THEN Visited(c, n) ELSE nodes[n]]
               /\ open' = (open \ {c}) \cup
                    {n \in Neighbors(c) \cap Pool : Inner(n) /\ ~Explored(n) /\ Admits(c, n)}
               /\ lowered' = (lowered \/ \E n \in open \ {c} : nodes'[n].g < nodes[n].g)
               /\ search' = [search EXCEPT !.expanded = @ + 1]
  /\ UNCHANGED <<world, offset, rounds>>

(* The expansion limit, or the search's own limit of 200 ms, which is      *)
(* looked at after each expansion, the last one too.                       *)
ResourceLimit ==
  /\ search.status = "searching" /\ search.expanded > 0
  /\ Ended("resource_limit") /\ UNCHANGED <<world, offset, nodes, open, lowered, rounds>>

DeadlinePasses ==
  /\ search.status \in {"adjust start", "adjust end", "begin", "searching"}
  /\ Ended("deadline_exceeded") /\ UNCHANGED <<world, offset, nodes, open, lowered, rounds>>

Exhausted ==
  /\ search.status = "searching" /\ open = {}
  /\ Ended("search_err") /\ UNCHANGED <<world, offset, nodes, open, lowered, rounds>>

StarNext ==
  \/ AstarSearch \/ AdjustStart \/ AdjustEnd \/ Begin
  \/ Expand \/ ResourceLimit \/ DeadlinePasses \/ Exhausted

StarSpec == StarInit /\ [][StarNext]_starVars

-----------------------------------------------------------------------------
(* Properties.                                                             *)

Enters(a, b) == b \in Neighbors(a) /\ CheckOccupancy(b, Heading(a, b)) = 0

(* A path is returned only with success; it leads from the adjusted start  *)
(* to the adjusted end by steps to neighbouring cells of the plane, each   *)
(* free for the heading it is entered with, whatever earlier searches left *)
(* in the pool.                                                            *)
SearchSound ==
  LET p == search.path
  IN  IF search.status # "success" THEN p = << >>
      ELSE /\ p[1] = search.start /\ p[Len(p)] = search.end
           /\ \A n \in 1..(Len(p) - 1) : Enters(p[n], p[n + 1])

(* Where a step over the ground leads: to the plane, and in the column of  *)
(* the end to the end itself, whatever height the plane has there.         *)
Footing(x, y) ==
  IF <<x, y>> = <<search.end[1], search.end[2]>> THEN search.end ELSE OnPlane(x, y)
StepsOver(b) == {Footing(b[1] + h[1], b[2] + h[2]) : h \in SearchHeadings}

(* A set of cells around the start that no step over the ground leaves,    *)
(* without the end.                                                        *)
CutOff ==
  LET footings == {Footing(c[1], c[2]) : c \in Pool}
  IN  \E S \in SUBSET {c \in footings : Inner(c) /\ c # search.end} :
        \A b \in S \cup {search.start} : \A c \in StepsOver(b) :
          Inner(c) /\ CheckOccupancy(c, Heading(b, c)) = 0 => c \in S \cup {search.start}

(* The ends are in different columns, and the end is not below the centre: *)
(* there the plane, as it is rounded, meets the end.                       *)
PlaneMeetsEnd ==
  /\ <<search.start[1], search.start[2]>> # <<search.end[1], search.end[2]>>
  /\ search.end[3] >= Centre[3]

(* Where the heading does not matter and the plane meets the end, a search *)
(* fails only if no path is there, whatever earlier searches left in the   *)
(* pool.  For an end below the centre it fails always: NeverDownhill.      *)
FailsOnlyWhenCutOff ==
  search.status = "search_err" /\ offset = 0 /\ PlaneMeetsEnd => CutOff

(* An end below the centre, as on a descent of three steps and more, is    *)
(* found only where the search begins (dyn_a_star.cpp:241-242, 291).       *)
NeverDownhill ==
  search.status = "success" /\ search.end[3] < Centre[3] => search.start = search.end
=============================================================================
