----------------------------- MODULE MCGridMap -----------------------------
(* The occupancy map alone, fed with world clouds of two points and edited *)
(* by nobody; a window of three cells by two, which the sensor's way and   *)
(* the points leave by one cell.                                           *)
EXTENDS GridMap

MCSize == <<3, 2, 1>>
MCUpdateRange == <<1, 1, 0>>
MCPositions == {<<x, 0, 0>> : x \in 0..2}
MCStaleMarks == {{}}
=============================================================================
