----------------------------- MODULE MCSegments -----------------------------
(***************************************************************************)
(* Segments for TLC: an address space of 32 bytes, blocks aligned to 4,    *)
(* and files of one or two segments, in either order, some with zeroes     *)
(* past their file bytes, one of alignment 8, one that starts unaligned.   *)
(***************************************************************************)
EXTENDS Segments

MCSegment(v, s, f, a) == [vaddr_req |-> v, size |-> s, file_size |-> f, alignment |-> a]

MCPair(v, w) ==
  {<<MCSegment(v, s, f, a), MCSegment(w, t, g, b)>> :
     s \in {2, 3}, f \in {0, 2}, a \in {1, 8}, t \in {1, 4}, g \in {0, 1}, b \in {2, 8}}

\* The pair that starts at 26 ends at the address before the last: most blocks
\* lie below what it asked for.
MCLayouts ==
  {<<MCSegment(v, s, f, 4)>> : v \in {0, 5, 20}, s \in {0, 1, 4}, f \in {0}}
    \cup MCPair(0, 4) \cup MCPair(8, 0) \cup MCPair(3, 8) \cup MCPair(20, 26)

ASSUME MCAssumption == AlignmentsNest
=============================================================================
