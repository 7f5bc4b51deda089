----------------------------- MODULE Transvoxel -----------------------------
(***************************************************************************)
(* The smooth meshers: cells of eight samples (meshers/transvoxel/         *)
(* regular.rs) and the seams towards a neighbour of half the resolution    *)
(* (transition.rs), with the reuse of vertices (structures.rs).            *)
(*                                                                         *)
(* A vertex is kept as the place it has: <<p, q>> for one between the      *)
(* points p and q, <<p, p>> for one on p.  Where between them it is, its   *)
(* normal and the secondary positions are left out: they are functions of  *)
(* the samples around p and q alone.  A sample is negative in the solid.   *)
(***************************************************************************)
EXTENDS Integers, Sequences, FiniteSets, SequencesExt

-----------------------------------------------------------------------------
(* The tables (regular_tables.rs, transition_tables.rs), packed: the       *)
(* vertices of a case name edges, unused entries are left out.  Sequences  *)
(* count from 1, cases, classes and vertices from 0.                       *)

\* The edges of a cell that vertices lie on: from corner, to corner, reuse
\* direction, reuse slot.
RegularEdges ==
  <<
    <<4,6,1,1>>, <<2,6,1,3>>, <<4,5,2,2>>, <<1,5,2,3>>, <<0,4,3,3>>, <<1,3,4,1>>, <<2,3,4,2>>,
    <<0,2,5,1>>, <<0,1,6,2>>, <<5,7,8,1>>, <<6,7,8,2>>, <<3,7,8,3>>
  >>

RegularCellClass ==
  <<
    0, 1, 1, 3, 1, 3, 2, 4, 1, 2, 3, 4, 3, 4, 4, 3, 1, 3, 2, 4, 2, 4, 6, 12, 2, 5, 5, 11, 5, 10,
    7, 4, 1, 2, 3, 4, 2, 5, 5, 10, 2, 6, 4, 12, 5, 7, 11, 4, 3, 4, 4, 3, 5, 11, 7, 4, 5, 7, 10, 4,
    8, 14, 14, 3, 1, 2, 2, 5, 3, 4, 5, 11, 2, 6, 5, 7, 4, 12, 10, 4, 3, 4, 5, 10, 4, 3, 7, 4, 5,
    7, 8, 14, 11, 4, 14, 3, 2, 6, 5, 7, 5, 7, 8, 14, 6, 9, 7, 15, 7, 15, 14, 13, 4, 12, 11, 4, 10,
    4, 14, 3, 7, 15, 14, 13, 14, 13, 2, 1, 1, 2, 2, 5, 2, 5, 6, 7, 3, 5, 4, 10, 4, 11, 12, 4, 2,
    5, 6, 7, 6, 7, 9, 15, 5, 8, 7, 14, 7, 14, 15, 13, 3, 5, 4, 11, 5, 8, 7, 14, 4, 7, 3, 4, 10,
    14, 4, 3, 4, 10, 12, 4, 7, 14, 15, 13, 11, 14, 4, 3, 14, 2, 13, 1, 3, 5, 5, 8, 4, 10, 7, 14,
    4, 7, 11, 14, 3, 4, 4, 3, 4, 11, 7, 14, 12, 4, 15, 13, 10, 14, 14, 2, 4, 3, 13, 1, 4, 7, 10,
    14, 11, 14, 14, 2, 12, 15, 4, 13, 4, 13, 3, 1, 3, 4, 4, 3, 4, 3, 13, 1, 4, 13, 3, 1, 3, 1, 1,
    0
  >>

\* The triangles of a class, as its vertices three by three.
RegularCellData ==
  <<
    <<>>, <<0,1,2>>, <<0,1,2,3,4,5>>, <<0,1,2,0,2,3>>, <<0,1,4,1,3,4,1,2,3>>,
    <<0,1,2,0,2,3,4,5,6>>, <<0,1,2,3,4,5,6,7,8>>, <<0,1,4,1,3,4,1,2,3,5,6,7>>,
    <<0,1,2,0,2,3,4,5,6,4,6,7>>, <<0,1,2,3,4,5,6,7,8,9,10,11>>, <<0,4,5,0,1,4,1,3,4,1,2,3>>,
    <<0,5,4,0,4,1,1,4,3,1,3,2>>, <<0,4,5,0,3,4,0,1,3,1,2,3>>, <<0,1,2,0,2,3,0,3,4,0,4,5>>,
    <<0,1,2,0,2,3,0,3,4,0,4,5,0,5,6>>, <<0,4,5,0,3,4,0,1,3,1,2,3,6,7,8>>
  >>

\* The edges of the vertices of a case.
RegularVertexData0 ==
  <<
    <<>>, <<9,8,5>>, <<9,4,6>>, <<8,5,4,6>>, <<8,7,2>>, <<5,9,7,2>>, <<9,4,6,8,7,2>>,
    <<7,2,5,4,6>>, <<6,12,7>>, <<9,8,5,7,6,12>>, <<9,4,12,7>>, <<8,5,4,12,7>>, <<8,6,12,2>>,
    <<6,12,2,5,9>>, <<9,4,12,2,8>>, <<5,4,12,2>>, <<5,1,3>>, <<9,8,1,3>>, <<9,4,6,5,1,3>>,
    <<4,6,8,1,3>>, <<8,7,2,5,1,3>>, <<1,3,9,7,2>>, <<5,1,3,9,4,6,8,7,2>>, <<7,2,1,3,4,6>>,
    <<7,6,12,5,1,3>>, <<9,8,1,3,7,6,12>>, <<7,9,4,12,5,1,3>>, <<7,12,4,3,1,8>>,
    <<8,6,12,2,5,1,3>>, <<6,12,2,1,3,9>>, <<9,4,12,2,8,5,1,3>>, <<3,4,12,2,1>>, <<4,3,10>>,
    <<9,8,5,4,3,10>>, <<6,9,3,10>>, <<3,10,6,8,5>>, <<8,7,2,4,3,10>>, <<9,7,2,5,4,3,10>>,
    <<9,3,10,6,8,7,2>>, <<7,2,5,3,10,6>>, <<7,6,12,4,3,10>>, <<9,8,5,7,6,12,4,3,10>>,
    <<12,7,9,3,10>>, <<8,5,3,10,12,7>>, <<8,6,12,2,4,3,10>>, <<6,12,2,5,9,4,3,10>>,
    <<8,2,12,10,3,9>>, <<10,12,2,5,3>>, <<4,5,1,10>>, <<9,8,1,10,4>>, <<5,1,10,6,9>>,
    <<6,8,1,10>>, <<4,5,1,10,8,7,2>>, <<2,7,9,4,10,1>>, <<5,1,10,6,9,8,7,2>>, <<2,1,10,6,7>>,
    <<4,5,1,10,7,6,12>>, <<9,8,1,10,4,7,6,12>>, <<5,1,10,12,7,9>>, <<7,8,1,10,12>>,
    <<4,5,1,10,8,6,12,2>>, <<9,6,12,2,1,10,4>>, <<9,5,1,10,12,2,8>>, <<2,1,10,12>>
  >>

RegularVertexData1 ==
  <<
    <<2,11,1>>, <<9,8,5,2,11,1>>, <<9,4,6,2,11,1>>, <<8,5,4,6,2,11,1>>, <<8,7,11,1>>,
    <<5,9,7,11,1>>, <<8,7,11,1,9,4,6>>, <<1,11,7,6,4,5>>, <<6,12,7,2,11,1>>,
    <<9,8,5,7,6,12,2,11,1>>, <<9,4,12,7,2,11,1>>, <<8,5,4,12,7,2,11,1>>, <<11,1,8,6,12>>,
    <<9,6,12,11,1,5>>, <<9,4,12,11,1,8>>, <<1,5,4,12,11>>, <<5,2,11,3>>, <<2,11,3,9,8>>,
    <<5,2,11,3,9,4,6>>, <<2,11,3,4,6,8>>, <<8,7,11,3,5>>, <<9,7,11,3>>, <<8,7,11,3,5,9,4,6>>,
    <<6,7,11,3,4>>, <<5,2,11,3,7,6,12>>, <<2,11,3,9,8,7,6,12>>, <<5,2,11,3,7,9,4,12>>,
    <<8,2,11,3,4,12,7>>, <<5,3,11,12,6,8>>, <<12,11,3,9,6>>, <<8,9,4,12,11,3,5>>, <<4,12,11,3>>,
    <<4,3,10,2,11,1>>, <<9,8,5,4,3,10,2,11,1>>, <<9,3,10,6,2,11,1>>, <<3,10,6,8,5,2,11,1>>,
    <<7,11,1,8,4,3,10>>, <<5,9,7,11,1,4,3,10>>, <<7,11,1,8,9,3,10,6>>, <<5,3,10,6,7,11,1>>,
    <<7,6,12,4,3,10,2,11,1>>, <<9,8,5,7,6,12,4,3,10,2,11,1>>, <<12,7,9,3,10,2,11,1>>,
    <<7,8,5,3,10,12,2,11,1>>, <<11,1,8,6,12,4,3,10>>, <<9,6,12,11,1,5,4,3,10>>,
    <<12,11,1,8,9,3,10>>, <<5,3,10,12,11,1>>, <<10,4,5,2,11>>, <<11,10,4,9,8,2>>,
    <<11,2,5,9,6,10>>, <<11,10,6,8,2>>, <<8,7,11,10,4,5>>, <<4,9,7,11,10>>, <<5,8,7,11,10,6,9>>,
    <<6,7,11,10>>, <<10,4,5,2,11,7,6,12>>, <<10,4,9,8,2,11,7,6,12>>, <<10,12,7,9,5,2,11>>,
    <<8,2,11,10,12,7>>, <<11,10,4,5,8,6,12>>, <<9,6,12,11,10,4>>, <<9,5,8,12,11,10>>, <<12,11,10>>
  >>

RegularVertexData2 ==
  <<
    <<12,10,11>>, <<9,8,5,12,10,11>>, <<9,4,6,12,10,11>>, <<8,5,4,6,12,10,11>>,
    <<8,7,2,12,10,11>>, <<9,7,2,5,12,10,11>>, <<9,4,6,8,7,2,12,10,11>>, <<7,2,5,4,6,12,10,11>>,
    <<6,10,11,7>>, <<7,6,10,11,9,8,5>>, <<10,11,7,9,4>>, <<5,4,10,11,7,8>>, <<2,8,6,10,11>>,
    <<10,6,9,5,2,11>>, <<2,8,9,4,10,11>>, <<11,2,5,4,10>>, <<5,1,3,12,10,11>>,
    <<9,8,1,3,12,10,11>>, <<9,4,6,5,1,3,12,10,11>>, <<4,6,8,1,3,12,10,11>>,
    <<8,7,2,5,1,3,12,10,11>>, <<1,3,9,7,2,12,10,11>>, <<9,4,6,8,7,2,5,1,3,12,10,11>>,
    <<6,7,2,1,3,4,12,10,11>>, <<7,6,10,11,5,1,3>>, <<9,8,1,3,7,6,10,11>>, <<10,11,7,9,4,5,1,3>>,
    <<4,10,11,7,8,1,3>>, <<2,8,6,10,11,5,1,3>>, <<2,1,3,9,6,10,11>>, <<8,9,4,10,11,2,5,1,3>>,
    <<2,1,3,4,10,11>>, <<4,3,11,12>>, <<4,3,11,12,9,8,5>>, <<6,9,3,11,12>>, <<8,6,12,11,3,5>>,
    <<4,3,11,12,8,7,2>>, <<9,7,2,5,12,4,3,11>>, <<6,9,3,11,12,8,7,2>>, <<6,7,2,5,3,11,12>>,
    <<4,3,11,7,6>>, <<4,3,11,7,6,9,8,5>>, <<9,3,11,7>>, <<5,3,11,7,8>>, <<8,6,4,3,11,2>>,
    <<6,4,3,11,2,5,9>>, <<8,9,3,11,2>>, <<5,3,11,2>>, <<11,12,4,5,1>>, <<8,1,11,12,4,9>>,
    <<5,1,11,12,6,9>>, <<12,6,8,1,11>>, <<11,12,4,5,1,8,7,2>>, <<1,11,12,4,9,7,2>>,
    <<11,12,6,9,5,1,8,7,2>>, <<6,7,2,1,11,12>>, <<5,4,6,7,11,1>>, <<4,9,8,1,11,7,6>>,
    <<1,11,7,9,5>>, <<8,1,11,7>>, <<11,2,8,6,4,5,1>>, <<9,6,4,2,1,11>>, <<9,5,1,11,2,8>>,
    <<2,1,11>>
  >>

RegularVertexData3 ==
  <<
    <<2,12,10,1>>, <<12,10,1,2,9,8,5>>, <<12,10,1,2,9,4,6>>, <<6,8,5,4,2,12,10,1>>,
    <<12,10,1,8,7>>, <<9,7,12,10,1,5>>, <<12,10,1,8,7,9,4,6>>, <<7,12,10,1,5,4,6>>,
    <<7,6,10,1,2>>, <<7,6,10,1,2,9,8,5>>, <<1,10,4,9,7,2>>, <<7,8,5,4,10,1,2>>, <<6,10,1,8>>,
    <<9,6,10,1,5>>, <<4,10,1,8,9>>, <<4,10,1,5>>, <<3,5,2,12,10>>, <<9,3,10,12,2,8>>,
    <<3,5,2,12,10,9,4,6>>, <<3,4,6,8,2,12,10>>, <<7,12,10,3,5,8>>, <<10,3,9,7,12>>,
    <<3,5,8,7,12,10,6,9,4>>, <<7,12,10,3,4,6>>, <<6,10,3,5,2,7>>, <<2,7,6,10,3,9,8>>,
    <<10,3,5,2,7,9,4>>, <<8,2,7,4,10,3>>, <<5,8,6,10,3>>, <<6,10,3,9>>, <<8,9,4,10,3,5>>,
    <<4,10,3>>, <<1,2,12,4,3>>, <<1,2,12,4,3,9,8,5>>, <<9,3,1,2,12,6>>, <<3,1,2,12,6,8,5>>,
    <<8,1,3,4,12,7>>, <<1,5,9,7,12,4,3>>, <<12,6,9,3,1,8,7>>, <<7,12,6,5,3,1>>, <<6,4,3,1,2,7>>,
    <<1,2,7,6,4,3,9,8,5>>, <<2,7,9,3,1>>, <<7,8,5,3,1,2>>, <<3,1,8,6,4>>, <<6,4,3,1,5,9>>,
    <<9,3,1,8>>, <<5,3,1>>, <<5,2,12,4>>, <<8,2,12,4,9>>, <<9,5,2,12,6>>, <<8,2,12,6>>,
    <<7,12,4,5,8>>, <<9,7,12,4>>, <<5,8,7,12,6,9>>, <<6,7,12>>, <<6,4,5,2,7>>, <<2,7,6,4,9,8>>,
    <<5,2,7,9>>, <<8,2,7>>, <<8,6,4,5>>, <<9,6,4>>, <<9,5,8>>, <<>>
  >>

\* 64 cases each
RegularVertexData == <<RegularVertexData0, RegularVertexData1, RegularVertexData2, RegularVertexData3>>

\* The samples of a transition cell are 0 to 8 row by row, 9 to 12 the corners again.
TransitionEdges ==
  <<
    <<0,3,1,5>>, <<3,6,1,6>>, <<9,11,1,9>>, <<0,1,2,3>>, <<1,2,2,4>>, <<9,10,2,8>>, <<3,4,4,3>>,
    <<4,5,4,4>>, <<1,4,4,5>>, <<4,7,4,6>>, <<6,7,8,3>>, <<7,8,8,4>>, <<2,5,8,5>>, <<5,8,8,6>>,
    <<11,12,8,8>>, <<10,12,8,9>>
  >>

TransitionCellClass ==
  <<
    0, 1, 2, 4, 1, 5, 4, 4, 2, 7, 9, 12, 4, 11, 5, 5, 1, 8, 7, 13, 5, 15, 11, 11, 4, 13, 12, 28,
    4, 11, 5, 5, 2, 7, 9, 12, 7, 16, 12, 12, 9, 18, 21, 26, 12, 25, 16, 16, 4, 13, 12, 28, 11, 29,
    15, 15, 5, 27, 16, 44, 5, 15, 11, 11, 1, 5, 7, 11, 8, 15, 13, 11, 7, 16, 18, 25, 13, 29, 27,
    15, 5, 15, 16, 29, 15, 30, 29, 33, 11, 29, 25, 50, 11, 33, 15, 20, 4, 11, 12, 15, 13, 29, 28,
    15, 12, 25, 26, 49, 28, 50, 44, 39, 4, 11, 12, 15, 11, 33, 15, 22, 5, 15, 16, 39, 5, 20, 11,
    10, 2, 4, 9, 5, 7, 11, 12, 5, 9, 12, 21, 16, 12, 15, 16, 11, 7, 13, 18, 27, 16, 29, 25, 15,
    12, 28, 26, 44, 12, 15, 16, 11, 9, 12, 21, 16, 18, 25, 26, 16, 21, 26, 35, 48, 26, 49, 48, 25,
    12, 28, 26, 44, 25, 50, 49, 39, 16, 44, 48, 41, 16, 39, 25, 36, 4, 4, 12, 5, 13, 11, 28, 5,
    12, 12, 26, 16, 28, 15, 44, 11, 11, 11, 25, 15, 29, 33, 50, 20, 15, 15, 49, 39, 15, 22, 39,
    10, 5, 5, 16, 11, 27, 15, 44, 11, 16, 16, 48, 25, 44, 39, 41, 36, 5, 5, 16, 11, 15, 20, 39,
    10, 11, 11, 25, 36, 11, 10, 36, 3, 3, 6, 10, 11, 6, 14, 11, 11, 10, 17, 20, 15, 11, 23, 5, 5,
    6, 19, 17, 24, 14, 31, 23, 43, 11, 24, 15, 54, 11, 43, 5, 5, 10, 17, 22, 15, 17, 32, 15, 15,
    20, 34, 33, 29, 15, 45, 11, 11, 11, 24, 15, 55, 23, 46, 12, 12, 5, 47, 11, 53, 5, 38, 4, 4, 6,
    14, 17, 23, 19, 31, 24, 43, 17, 32, 34, 45, 24, 46, 47, 38, 14, 31, 32, 46, 31, 51, 46, 42,
    23, 46, 45, 40, 43, 42, 38, 37, 11, 23, 15, 12, 24, 46, 55, 12, 15, 45, 29, 16, 54, 40, 53, 7,
    11, 43, 15, 12, 43, 42, 12, 9, 5, 38, 11, 7, 5, 37, 4, 2, 10, 11, 20, 5, 17, 23, 15, 5, 22,
    15, 33, 11, 15, 12, 11, 4, 17, 24, 34, 47, 32, 46, 45, 38, 15, 55, 29, 53, 15, 12, 11, 4, 20,
    15, 33, 11, 34, 45, 29, 11, 33, 29, 30, 15, 29, 16, 15, 5, 15, 54, 29, 53, 45, 40, 16, 7, 11,
    53, 15, 52, 11, 7, 5, 1, 11, 11, 15, 5, 24, 43, 54, 5, 15, 15, 29, 11, 55, 12, 53, 4, 23, 43,
    45, 38, 46, 42, 40, 37, 12, 12, 16, 7, 12, 9, 7, 2, 5, 5, 11, 4, 47, 38, 53, 4, 11, 11, 15, 5,
    53, 7, 52, 1, 5, 5, 11, 4, 38, 37, 7, 2, 4, 4, 5, 1, 4, 2, 1, 0
  >>

\* The cases whose class has the bit 0x80.
FlippedCases ==
  {
    3, 9, 11, 12, 19, 22, 29, 30, 31, 35, 36, 43, 44, 46, 48, 49, 50, 51, 53, 59, 62, 66, 71, 76,
    77, 83, 87, 88, 90, 93, 94, 95, 97, 103, 105, 111, 116, 117, 118, 119, 120, 121, 122, 124,
    125, 126, 127, 133, 135, 139, 140, 143, 144, 150, 151, 157, 158, 159, 165, 167, 172, 176, 178,
    179, 184, 189, 192, 194, 196, 199, 200, 202, 204, 206, 209, 212, 213, 215, 217, 219, 221, 223,
    225, 226, 227, 229, 231, 233, 236, 241, 245, 246, 247, 248, 249, 253, 255, 259, 265, 267, 268,
    271, 275, 278, 285, 287, 291, 292, 295, 300, 303, 304, 305, 306, 307, 309, 310, 314, 315, 316,
    317, 318, 322, 327, 332, 333, 335, 339, 344, 346, 353, 355, 359, 361, 362, 363, 370, 372, 374,
    375, 379, 380, 382, 383, 389, 396, 397, 398, 399, 400, 406, 410, 412, 413, 415, 419, 421, 422,
    425, 426, 427, 429, 430, 431, 432, 435, 438, 439, 442, 444, 446, 447, 448, 450, 451, 452, 455,
    456, 457, 459, 460, 462, 465, 467, 468, 472, 473, 474, 477, 478, 479, 483, 487, 488, 490, 491,
    492, 493, 495, 496, 497, 498, 500, 503, 504, 505, 506, 507, 509, 510, 511
  }

TransitionCellData0 ==
  <<
    <<>>, <<0,1,3,1,2,3>>, <<0,1,2>>, <<0,1,2,0,2,3>>, <<0,1,4,1,3,4,1,2,3>>,
    <<0,1,5,1,2,5,2,4,5,2,3,4>>, <<0,1,3,1,2,3,4,5,6,4,6,7>>, <<0,1,3,1,2,3,4,5,6>>,
    <<0,1,3,1,2,3,4,5,7,5,6,7>>, <<0,1,2,3,4,5>>, <<0,1,3,0,3,4,1,2,3>>,
    <<0,1,6,1,2,6,2,5,6,2,3,5,3,4,5>>, <<0,1,4,1,3,4,1,2,3,5,6,7>>,
    <<0,1,4,1,3,4,1,2,3,5,6,8,6,7,8>>
  >>

TransitionCellData1 ==
  <<
    <<0,1,5,1,2,5,2,4,5,2,3,4,6,7,8,6,8,9>>, <<0,1,7,1,2,7,2,3,7,3,6,7,3,4,6,4,5,6>>,
    <<0,1,5,1,2,5,2,4,5,2,3,4,6,7,8>>, <<0,1,3,1,2,3,4,5,7,4,7,8,5,6,7>>,
    <<0,1,3,1,2,3,4,5,6,7,8,9>>, <<0,1,3,1,2,3,4,5,7,5,6,7,8,9,10,8,10,11>>,
    <<0,1,3,1,2,3,0,3,4,0,4,5>>, <<0,1,2,3,4,5,6,7,8>>, <<0,1,4,0,4,5,1,3,4,1,2,3>>,
    <<0,1,8,1,7,8,1,2,7,2,3,7,3,4,7,4,5,7,5,6,7>>,
    <<0,1,6,1,2,6,2,5,6,2,3,5,3,4,5,7,8,10,8,9,10>>, <<0,1,6,1,2,6,2,5,6,2,3,5,3,4,5,7,8,9>>,
    <<0,1,4,1,3,4,1,2,3,5,6,7,8,9,10>>, <<0,1,5,1,2,5,2,4,5,2,3,4,6,7,9,7,8,9>>
  >>

TransitionCellData2 ==
  <<
    <<0,1,4,1,3,4,1,2,3,5,6,9,6,8,9,6,7,8>>, <<0,1,8,1,2,8,2,3,8,3,7,8,3,4,7,4,5,7,5,6,7>>,
    <<0,1,7,1,6,7,1,2,6,2,5,6,2,4,5,2,3,4>>,
    <<0,1,7,1,2,7,2,3,7,3,6,7,3,4,6,4,5,6,8,9,10,8,10,11>>,
    <<0,1,5,1,2,5,2,4,5,2,3,4,6,9,10,6,7,9,7,8,9>>, <<0,1,6,1,3,6,1,2,3,3,4,6,4,5,6>>,
    <<0,1,3,1,2,3,4,5,9,5,8,9,5,6,8,6,7,8>>, <<0,1,2,3,4,5,6,7,8,9,10,11>>,
    <<1,2,4,2,3,4,0,1,7,1,4,7,4,6,7,4,5,6>>, <<0,4,5,0,1,4,1,3,4,1,2,3>>,
    <<0,1,4,1,3,4,1,2,3,0,4,7,4,6,7,4,5,6>>, <<1,2,3,1,3,4,1,4,5,0,1,8,1,5,8,5,7,8,5,6,7>>,
    <<0,1,3,1,2,3,4,5,9,5,8,9,5,6,8,6,7,8>>,
    <<0,1,5,1,2,5,2,4,5,2,3,4,6,7,11,7,10,11,7,8,10,8,9,10>>
  >>

TransitionCellData3 ==
  <<
    <<0,1,8,1,2,8,2,7,8,2,3,7,3,6,7,3,4,6,4,5,6>>, <<0,1,4,1,3,4,1,2,3,0,4,8,4,7,8,4,5,7,5,6,7>>,
    <<0,1,5,1,2,5,2,4,5,2,3,4,6,7,10,7,9,10,7,8,9>>,
    <<0,1,9,1,2,9,2,8,9,2,3,8,3,7,8,3,4,7,4,6,7,4,5,6>>,
    <<0,1,7,1,6,7,1,2,6,2,5,6,2,3,5,3,4,5,0,7,10,7,9,10,7,8,9>>,
    <<0,1,5,1,4,5,1,2,4,2,3,4,6,7,9,7,8,9>>, <<0,1,5,1,2,5,2,4,5,2,3,4,6,7,8,9,10,11>>,
    <<0,1,7,1,2,7,2,3,7,3,6,7,3,4,6,4,5,6,8,9,10>>,
    <<1,2,3,1,3,4,1,4,6,4,5,6,0,1,9,1,6,9,6,8,9,6,7,8>>,
    <<0,1,9,1,8,9,1,2,8,2,11,8,2,3,11,3,4,11,4,5,11,5,10,11,5,6,10,6,9,10,6,7,9,7,0,9>>,
    <<0,1,2,0,2,3,0,6,7,0,3,6,1,4,5,1,5,2>>, <<0,1,4,1,3,4,1,2,3,2,5,6,2,6,3,0,7,8,0,4,7>>,
    <<0,1,5,1,4,5,1,2,4,2,3,4,3,6,7,3,7,4,0,8,9,0,5,8>>,
    <<0,1,5,1,4,5,1,2,4,2,3,4,2,6,3,3,6,7,0,8,9,0,5,8>>
  >>

TransitionCellData ==
  TransitionCellData0 \o TransitionCellData1 \o TransitionCellData2 \o TransitionCellData3

TransitionVertexData0 ==
  <<
    <<>>, <<4,1,3,6>>, <<4,5,9>>, <<1,9,5,6,3>>, <<13,5,6,16>>, <<13,5,4,1,3,16>>,
    <<13,9,4,6,16>>, <<13,9,1,3,16>>, <<13,14,8>>, <<1,4,6,3,14,13,8>>, <<13,14,8,4,5,9>>,
    <<1,9,5,6,3,14,13,8>>, <<5,8,14,16,6>>, <<14,8,5,4,1,3,16>>, <<14,8,9,4,6,16>>,
    <<14,8,9,1,3,16>>, <<12,14,16,15>>, <<4,1,3,6,12,14,16,15>>, <<12,14,16,15,4,5,9>>,
    <<1,9,5,6,3,14,12,15,16>>, <<12,14,13,5,6,15>>, <<12,14,13,5,4,1,3,15>>,
    <<4,9,13,14,12,15,6>>, <<12,14,13,9,1,3,15>>, <<12,8,13,16,15>>, <<12,8,13,16,15,4,1,3,6>>,
    <<12,8,13,16,15,4,5,9>>, <<12,8,13,16,15,5,9,1,3,6>>, <<12,8,5,6,15>>, <<1,4,5,8,12,15,3>>,
    <<4,9,8,12,15,6>>, <<1,9,8,12,15,3>>
  >>

TransitionVertexData1 ==
  <<
    <<12,11,10>>, <<4,1,3,6,12,11,10>>, <<4,5,9,12,11,10>>, <<1,9,5,6,3,11,12,10>>,
    <<5,13,16,6,11,12,10>>, <<13,5,4,1,3,16,12,11,10>>, <<13,9,4,6,16,12,11,10>>,
    <<13,9,1,3,16,12,11,10>>, <<12,11,10,13,14,8>>, <<4,1,3,6,12,11,10,13,14,8>>,
    <<12,11,10,13,14,8,4,5,9>>, <<1,9,5,6,3,14,13,8,11,12,10>>, <<5,8,14,16,6,11,12,10>>,
    <<14,8,5,4,1,3,16,12,11,10>>, <<4,9,8,14,16,6,11,12,10>>, <<14,8,9,1,3,16,12,11,10>>,
    <<14,10,11,15,16>>, <<14,10,11,15,16,1,4,6,3>>, <<14,10,11,15,16,5,4,9>>,
    <<1,9,5,6,3,14,10,11,15,16>>, <<11,10,14,13,5,6,15>>, <<1,4,5,13,14,10,11,15,3>>,
    <<11,10,14,13,9,4,6,15>>, <<11,10,14,13,9,1,3,15>>, <<11,10,8,13,16,15>>,
    <<11,10,8,13,16,15,4,1,3,6>>, <<11,10,8,13,16,15,4,5,9>>, <<13,8,10,11,15,16,1,9,5,6,3>>,
    <<11,10,8,5,6,15>>, <<11,10,8,5,4,1,3,15>>, <<4,9,8,10,11,15,6>>, <<11,10,8,9,1,3,15>>
  >>

TransitionVertexData2 ==
  <<
    <<2,11,15,3>>, <<4,1,2,11,15,6>>, <<11,2,3,15,5,4,9>>, <<5,9,1,2,11,15,6>>,
    <<13,5,6,16,2,11,15,3>>, <<13,5,4,1,2,11,15,16>>, <<13,9,4,6,16,2,11,15,3>>,
    <<11,2,1,9,13,16,15>>, <<2,11,15,3,13,14,8>>, <<4,1,2,11,15,6,13,14,8>>,
    <<2,11,15,3,13,14,8,4,5,9>>, <<5,9,1,2,11,15,6,13,14,8>>, <<5,8,14,16,6,11,2,3,15>>,
    <<11,2,1,4,5,8,14,16,15>>, <<14,8,9,4,6,16,2,11,15,3>>, <<14,8,9,1,2,11,15,16>>,
    <<2,11,12,14,16,3>>, <<4,1,2,11,12,14,16,6>>, <<2,11,12,14,16,3,4,5,9>>,
    <<14,12,11,2,1,9,5,6,16>>, <<2,11,12,14,13,5,6,3>>, <<2,11,12,14,13,5,4,1>>,
    <<2,11,12,14,13,9,4,6,3>>, <<1,9,13,14,12,11,2>>, <<13,8,12,11,2,3,16>>,
    <<4,1,2,11,12,8,13,16,6>>, <<13,8,12,11,2,3,16,5,4,9>>, <<5,9,1,2,11,12,8,13,16,6>>,
    <<2,11,12,8,5,6,3>>, <<5,8,12,11,2,1,4>>, <<4,9,8,12,11,2,3,6>>, <<11,2,1,9,8,12>>
  >>

TransitionVertexData3 ==
  <<
    <<2,10,12,15,3>>, <<12,10,2,1,4,6,15>>, <<2,10,12,15,3,4,5,9>>, <<5,9,1,2,10,12,15,6>>,
    <<2,10,12,15,3,13,5,6,16>>, <<13,5,4,1,2,10,12,15,16>>, <<13,9,4,6,16,2,10,12,15,3>>,
    <<12,10,2,1,9,13,16,15>>, <<2,10,12,15,3,13,14,8>>, <<12,10,2,1,4,6,15,14,13,8>>,
    <<2,10,12,15,3,13,14,8,4,5,9>>, <<5,9,1,2,10,12,15,6,13,14,8>>, <<2,10,12,15,3,14,8,5,6,16>>,
    <<14,8,5,4,1,2,10,12,15,16>>, <<14,8,9,4,6,16,2,10,12,15,3>>, <<12,10,2,1,9,8,14,16,15>>,
    <<2,10,14,16,3>>, <<4,1,2,10,14,16,6>>, <<2,10,14,16,3,4,5,9>>, <<5,9,1,2,10,14,16,6>>,
    <<5,13,14,10,2,3,6>>, <<14,10,2,1,4,5,13>>, <<4,9,13,14,10,2,3,6>>, <<1,9,13,14,10,2>>,
    <<13,8,10,2,3,16>>, <<13,8,10,2,1,4,6,16>>, <<13,8,10,2,3,16,5,4,9>>,
    <<5,9,1,2,10,8,13,16,6>>, <<5,8,10,2,3,6>>, <<1,4,5,8,10,2>>, <<4,9,8,10,2,3,6>>,
    <<1,9,8,10,2>>
  >>

TransitionVertexData4 ==
  <<
    <<2,1,7>>, <<4,7,2,3,6>>, <<4,5,9,2,1,7>>, <<5,9,7,2,3,6>>, <<13,5,6,16,2,1,7>>,
    <<2,7,4,5,13,16,3>>, <<13,9,4,6,16,2,1,7>>, <<2,7,9,13,16,3>>, <<2,1,7,13,14,8>>,
    <<4,7,2,3,6,13,14,8>>, <<13,14,8,4,5,9,2,1,7>>, <<2,7,9,5,6,3,14,13,8>>,
    <<5,8,14,16,6,1,2,7>>, <<14,8,5,4,7,2,3,16>>, <<14,8,9,4,6,16,2,1,7>>, <<2,7,9,8,14,16,3>>,
    <<14,12,15,16,1,2,7>>, <<4,7,2,3,6,12,14,16,15>>, <<12,14,16,15,4,5,9,2,1,7>>,
    <<5,9,7,2,3,6,12,14,16,15>>, <<12,14,13,5,6,15,2,1,7>>, <<12,14,13,5,4,7,2,3,15>>,
    <<4,9,13,14,12,15,6,1,2,7>>, <<2,7,9,13,14,12,15,3>>, <<12,8,13,16,15,2,1,7>>,
    <<4,7,2,3,6,12,8,13,16,15>>, <<12,8,13,16,15,4,5,9,2,1,7>>, <<5,9,7,2,3,6,12,8,13,16,15>>,
    <<12,8,5,6,15,2,1,7>>, <<2,7,4,5,8,12,15,3>>, <<4,9,8,12,15,6,1,2,7>>, <<2,7,9,8,12,15,3>>
  >>

TransitionVertexData5 ==
  <<
    <<2,1,7,12,11,10>>, <<4,7,2,3,6,12,11,10>>, <<4,5,9,2,1,7,12,11,10>>,
    <<5,9,7,2,3,6,12,11,10>>, <<13,5,6,16,2,1,7,12,11,10>>, <<2,7,4,5,13,16,3,11,12,10>>,
    <<13,9,4,6,16,2,1,7,12,11,10>>, <<2,7,9,13,16,3,11,12,10>>, <<2,1,7,12,11,10,13,14,8>>,
    <<4,7,2,3,6,12,11,10,13,14,8>>, <<4,5,9,2,1,7,12,11,10,13,14,8>>,
    <<5,9,7,2,3,6,12,11,10,13,14,8>>, <<5,8,14,16,6,11,12,10,1,2,7>>,
    <<14,8,5,4,7,2,3,16,12,11,10>>, <<14,8,9,4,6,16,2,1,7,12,11,10>>,
    <<14,8,9,7,2,3,16,12,11,10>>, <<14,10,11,15,16,1,2,7>>, <<4,7,2,3,6,11,10,14,16,15>>,
    <<14,10,11,15,16,1,2,7,5,4,9>>, <<2,7,9,5,6,3,14,10,11,15,16>>, <<11,10,14,13,5,6,15,2,1,7>>,
    <<11,10,14,13,5,4,7,2,3,15>>, <<11,10,14,13,9,4,6,15,2,1,7>>, <<11,10,14,13,9,7,2,3,15>>,
    <<13,8,10,11,15,16,1,2,7>>, <<11,10,8,13,16,15,4,7,2,3,6>>, <<11,10,8,13,16,15,4,5,9,2,1,7>>,
    <<11,10,8,13,16,15,5,9,7,2,3,6>>, <<11,10,8,5,6,15,2,1,7>>, <<2,7,4,5,8,10,11,15,3>>,
    <<11,10,8,9,4,6,15,2,1,7>>, <<11,10,8,9,7,2,3,15>>
  >>

TransitionVertexData6 ==
  <<
    <<11,7,1,3,15>>, <<4,7,11,15,6>>, <<11,7,1,3,15,5,4,9>>, <<5,9,7,11,15,6>>,
    <<11,7,1,3,15,5,13,16,6>>, <<13,5,4,7,11,15,16>>, <<13,9,4,6,16,1,7,11,15,3>>,
    <<11,7,9,13,16,15>>, <<11,7,1,3,15,14,13,8>>, <<4,7,11,15,6,13,14,8>>,
    <<11,7,1,3,15,5,4,9,14,13,8>>, <<5,9,7,11,15,6,13,14,8>>, <<5,8,14,16,6,11,7,1,3,15>>,
    <<14,8,5,4,7,11,15,16>>, <<4,9,8,14,16,6,11,7,1,3,15>>, <<14,8,9,7,11,15,16>>,
    <<1,7,11,12,14,16,3>>, <<14,12,11,7,4,6,16>>, <<1,7,11,12,14,16,3,4,5,9>>,
    <<5,9,7,11,12,14,16,6>>, <<5,13,14,12,11,7,1,3,6>>, <<11,7,4,5,13,14,12>>,
    <<1,7,11,12,14,13,9,4,6,3>>, <<14,12,11,7,9,13>>, <<1,7,11,12,8,13,16,3>>,
    <<13,8,12,11,7,4,6,16>>, <<1,7,11,12,8,13,16,3,4,5,9>>, <<13,8,12,11,7,9,5,6,16>>,
    <<1,7,11,12,8,5,6,3>>, <<11,7,4,5,8,12>>, <<1,7,11,12,8,9,4,6,3>>, <<11,7,9,8,12>>
  >>

TransitionVertexData7 ==
  <<
    <<1,7,10,12,15,3>>, <<12,10,7,4,6,15>>, <<12,10,7,1,3,15,5,4,9>>, <<12,10,7,9,5,6,15>>,
    <<1,7,10,12,15,3,13,5,6,16>>, <<12,10,7,4,5,13,16,15>>, <<1,7,10,12,15,3,13,9,4,6,16>>,
    <<12,10,7,9,13,16,15>>, <<1,7,10,12,15,3,13,14,8>>, <<12,10,7,4,6,15,14,13,8>>,
    <<1,7,10,12,15,3,13,14,8,4,5,9>>, <<5,9,7,10,12,15,6,13,14,8>>,
    <<12,10,7,1,3,15,5,8,14,16,6>>, <<14,8,5,4,7,10,12,15,16>>, <<14,8,9,4,6,16,1,7,10,12,15,3>>,
    <<14,8,9,7,10,12,15,16>>, <<1,7,10,14,16,3>>, <<14,10,7,4,6,16>>, <<1,7,10,14,16,3,4,5,9>>,
    <<5,9,7,10,14,16,6>>, <<1,7,10,14,13,5,6,3>>, <<5,13,14,10,7,4>>, <<4,9,13,14,10,7,1,3,6>>,
    <<14,10,7,9,13>>, <<13,8,10,7,1,3,16>>, <<13,8,10,7,4,6,16>>, <<1,7,10,8,13,16,3,4,5,9>>,
    <<5,9,7,10,8,13,16,6>>, <<1,7,10,8,5,6,3>>, <<5,8,10,7,4>>, <<1,7,10,8,9,4,6,3>>, <<9,8,10,7>>
  >>

TransitionVertexData8 ==
  <<
    <<9,8,10,7>>, <<4,1,3,6,7,9,8,10>>, <<5,8,10,7,4>>, <<1,7,10,8,5,6,3>>,
    <<13,5,6,16,9,8,10,7>>, <<13,5,4,1,3,16,9,8,10,7>>, <<13,8,10,7,4,6,16>>,
    <<13,8,10,7,1,3,16>>, <<14,10,7,9,13>>, <<1,4,6,3,13,9,7,10,14>>, <<5,13,14,10,7,4>>,
    <<1,7,10,14,13,5,6,3>>, <<5,9,7,10,14,16,6>>, <<14,10,7,9,5,4,1,3,16>>, <<14,10,7,4,6,16>>,
    <<1,7,10,14,16,3>>, <<12,14,16,15,8,10,7,9>>, <<4,1,3,6,12,14,16,15,7,9,8,10>>,
    <<12,14,16,15,5,8,10,7,4>>, <<1,7,10,8,5,6,3,14,12,15,16>>, <<12,14,13,5,6,15,8,10,7,9>>,
    <<12,14,13,5,4,1,3,15,9,8,10,7>>, <<4,7,10,8,13,14,12,15,6>>, <<12,14,13,8,10,7,1,3,15>>,
    <<12,10,7,9,13,16,15>>, <<12,10,7,9,13,16,15,4,1,3,6>>, <<12,10,7,4,5,13,16,15>>,
    <<12,10,7,1,5,13,3,6,16,15>>, <<12,10,7,9,5,6,15>>, <<1,4,5,9,7,10,12,15,3>>,
    <<12,10,7,4,6,15>>, <<1,7,10,12,15,3>>
  >>

TransitionVertexData9 ==
  <<
    <<11,7,9,8,12>>, <<4,1,3,6,11,7,9,8,12>>, <<11,7,4,5,8,12>>, <<1,7,11,12,8,5,6,3>>,
    <<5,13,16,6,12,8,9,7,11>>, <<13,5,4,1,3,16,11,7,9,8,12>>, <<13,8,12,11,7,4,6,16>>,
    <<1,7,11,12,8,13,16,3>>, <<14,12,11,7,9,13>>, <<4,1,3,6,11,7,9,13,14,12>>,
    <<11,7,4,5,13,14,12>>, <<5,13,14,12,11,7,1,3,6>>, <<5,9,7,11,12,14,16,6>>,
    <<14,12,11,7,9,5,4,1,3,16>>, <<14,12,11,7,4,6,16>>, <<1,7,11,12,14,16,3>>,
    <<14,8,9,7,11,15,16>>, <<14,8,9,7,11,15,16,1,4,6,3>>, <<14,8,5,4,7,11,15,16>>,
    <<14,8,5,1,7,11,6,3,15,16>>, <<11,7,9,8,14,13,5,6,15>>, <<1,4,5,13,14,8,9,7,11,15,3>>,
    <<4,7,11,15,6,13,14,8>>, <<11,7,1,3,15,14,13,8>>, <<11,7,9,13,16,15>>,
    <<11,7,9,13,16,15,4,1,3,6>>, <<13,5,4,7,11,15,16>>, <<1,7,11,13,5,15,16,6,3>>,
    <<5,9,7,11,15,6>>, <<1,4,5,9,7,11,15,3>>, <<4,7,11,15,6>>, <<11,7,1,3,15>>
  >>

TransitionVertexData10 ==
  <<
    <<2,11,15,3,10,7,9,8>>, <<4,1,2,11,15,6,7,9,8,10>>, <<11,2,3,15,4,7,10,8,5>>,
    <<5,8,10,7,1,2,11,15,6>>, <<13,5,6,16,2,11,15,3,9,8,10,7>>, <<13,5,4,1,2,11,15,16,7,9,8,10>>,
    <<13,8,10,7,4,6,16,2,11,15,3>>, <<11,2,1,7,10,8,13,16,15>>, <<2,11,15,3,14,10,7,9,13>>,
    <<4,1,2,11,15,6,14,10,7,9,13>>, <<2,11,15,3,14,10,7,4,5,13>>, <<5,13,14,10,7,1,2,11,15,6>>,
    <<5,9,7,10,14,16,6,11,2,3,15>>, <<11,2,1,4,5,9,7,10,14,16,15>>, <<14,10,7,4,6,16,2,11,15,3>>,
    <<11,2,1,7,10,14,16,15>>, <<2,11,12,14,16,3,10,7,9,8>>, <<4,1,2,11,12,14,16,6,10,7,9,8>>,
    <<2,11,12,14,16,3,5,8,10,7,4>>, <<14,12,11,2,1,7,10,8,5,6,16>>,
    <<2,11,12,14,13,5,6,3,8,10,7,9>>, <<4,1,2,11,12,14,13,5,7,9,8,10>>,
    <<2,11,12,14,13,8,10,7,4,6,3>>, <<1,2,11,12,14,13,8,10,7>>, <<13,9,7,10,12,11,2,3,16>>,
    <<4,1,2,11,12,10,7,9,13,16,6>>, <<13,5,4,7,10,12,11,2,3,16>>, <<5,13,16,6,1,2,11,12,10,7>>,
    <<2,11,12,10,7,9,5,6,3>>, <<5,4,1,2,11,12,10,7,9>>, <<2,11,12,10,7,4,6,3>>, <<2,11,12,10,7,1>>
  >>

TransitionVertexData11 ==
  <<
    <<2,7,9,8,12,15,3>>, <<12,8,9,7,2,1,4,6,15>>, <<2,7,4,5,8,12,15,3>>, <<12,8,5,6,15,2,1,7>>,
    <<2,7,9,8,12,15,3,13,5,6,16>>, <<13,5,4,1,2,7,9,8,12,15,16>>, <<2,7,4,13,8,12,6,16,15,3>>,
    <<12,8,13,16,15,2,1,7>>, <<2,7,9,13,14,12,15,3>>, <<12,14,13,9,7,2,1,4,6,15>>,
    <<12,14,13,5,4,7,2,3,15>>, <<12,14,13,5,6,15,2,1,7>>, <<2,7,9,5,14,12,6,16,15,3>>,
    <<14,12,15,16,5,4,1,2,7,9>>, <<2,7,4,14,12,6,16,15,3>>, <<14,12,15,16,1,2,7>>,
    <<2,7,9,8,14,16,3>>, <<4,1,2,7,9,8,14,16,6>>, <<14,8,5,4,7,2,3,16>>, <<5,8,14,16,6,1,2,7>>,
    <<5,13,14,8,9,7,2,3,6>>, <<14,13,5,4,1,2,7,9,8>>, <<4,7,2,3,6,13,14,8>>, <<2,1,7,13,14,8>>,
    <<2,7,9,13,16,3>>, <<4,1,2,7,9,13,16,6>>, <<2,7,4,5,13,16,3>>, <<13,5,6,16,2,1,7>>,
    <<5,9,7,2,3,6>>, <<4,1,2,7,9,5>>, <<4,7,2,3,6>>, <<2,1,7>>
  >>

TransitionVertexData12 ==
  <<
    <<1,9,8,10,2>>, <<4,9,8,10,2,3,6>>, <<1,4,5,8,10,2>>, <<5,8,10,2,3,6>>,
    <<13,5,6,16,1,9,8,10,2>>, <<2,10,8,9,4,5,13,16,3>>, <<13,8,10,2,1,4,6,16>>,
    <<13,8,10,2,3,16>>, <<1,9,13,14,10,2>>, <<4,9,13,14,10,2,3,6>>, <<14,10,2,1,4,5,13>>,
    <<5,13,14,10,2,3,6>>, <<5,9,1,2,10,14,16,6>>, <<2,10,14,16,3,4,5,9>>, <<4,1,2,10,14,16,6>>,
    <<2,10,14,16,3>>, <<14,12,15,16,2,10,8,9,1>>, <<4,9,8,10,2,3,6,12,14,16,15>>,
    <<12,14,16,15,5,8,10,2,1,4>>, <<5,8,10,2,3,6,12,14,16,15>>, <<12,14,13,5,6,15,1,9,8,10,2>>,
    <<12,14,13,5,4,9,8,10,2,3,15>>, <<4,1,2,10,8,13,14,12,15,6>>, <<12,14,13,8,10,2,3,15>>,
    <<12,10,2,1,9,13,16,15>>, <<4,9,13,12,10,2,16,15,3,6>>, <<13,5,4,1,2,10,12,15,16>>,
    <<12,10,2,5,13,3,6,16,15>>, <<5,9,1,2,10,12,15,6>>, <<2,10,12,15,3,4,5,9>>,
    <<12,10,2,1,4,6,15>>, <<2,10,12,15,3>>
  >>

TransitionVertexData13 ==
  <<
    <<11,2,1,9,8,12>>, <<4,9,8,12,11,2,3,6>>, <<5,8,12,11,2,1,4>>, <<2,11,12,8,5,6,3>>,
    <<13,5,6,16,1,9,8,12,11,2>>, <<2,11,12,8,9,4,5,13,16,3>>, <<4,1,2,11,12,8,13,16,6>>,
    <<13,8,12,11,2,3,16>>, <<1,9,13,14,12,11,2>>, <<2,11,12,14,13,9,4,6,3>>,
    <<2,11,12,14,13,5,4,1>>, <<2,11,12,14,13,5,6,3>>, <<14,12,11,2,1,9,5,6,16>>,
    <<2,11,12,14,16,3,4,5,9>>, <<4,1,2,11,12,14,16,6>>, <<2,11,12,14,16,3>>,
    <<14,8,9,1,2,11,15,16>>, <<4,9,8,14,11,2,16,15,3,6>>, <<11,2,1,4,5,8,14,16,15>>,
    <<14,8,5,2,11,6,3,15,16>>, <<11,2,1,9,8,14,13,5,6,15>>, <<11,2,3,15,14,13,5,4,9,8>>,
    <<4,1,2,11,15,6,13,14,8>>, <<2,11,15,3,13,14,8>>, <<11,2,1,9,13,16,15>>,
    <<4,9,13,11,2,16,15,3,6>>, <<13,5,4,1,2,11,15,16>>, <<5,13,11,2,16,15,3,6>>,
    <<5,9,1,2,11,15,6>>, <<11,2,3,15,5,4,9>>, <<4,1,2,11,15,6>>, <<2,11,15,3>>
  >>

TransitionVertexData14 ==
  <<
    <<11,10,8,9,1,3,15>>, <<4,9,8,10,11,15,6>>, <<11,10,8,5,4,1,3,15>>, <<11,10,8,5,6,15>>,
    <<11,10,8,9,1,3,15,5,13,16,6>>, <<13,5,4,9,8,10,11,15,16>>, <<13,8,10,11,1,4,15,3,6,16>>,
    <<11,10,8,13,16,15>>, <<11,10,14,13,9,1,3,15>>, <<11,10,14,13,9,4,6,15>>,
    <<1,4,5,13,14,10,11,15,3>>, <<11,10,14,13,5,6,15>>, <<5,9,1,11,10,14,3,15,16,6>>,
    <<14,10,11,15,16,5,4,9>>, <<11,10,14,4,1,16,6,3,15>>, <<14,10,11,15,16>>,
    <<1,9,8,10,11,12,14,16,3>>, <<14,12,11,10,8,9,4,6,16>>, <<1,4,5,8,10,11,12,14,16,3>>,
    <<14,12,11,10,8,5,6,16>>, <<5,13,14,12,11,10,8,9,1,3,6>>, <<11,12,14,13,5,4,9,8,10>>,
    <<1,4,6,3,11,12,14,13,8,10>>, <<12,14,13,8,10,11>>, <<13,9,1,3,16,12,11,10>>,
    <<13,9,4,6,16,12,11,10>>, <<13,5,4,1,3,16,12,11,10>>, <<5,13,16,6,11,12,10>>,
    <<1,9,5,6,3,11,12,10>>, <<4,5,9,12,11,10>>, <<4,1,3,6,12,11,10>>, <<12,11,10>>
  >>

TransitionVertexData15 ==
  <<
    <<1,9,8,12,15,3>>, <<4,9,8,12,15,6>>, <<1,4,5,8,12,15,3>>, <<12,8,5,6,15>>,
    <<1,9,8,12,15,3,13,5,6,16>>, <<13,5,4,9,8,12,15,16>>, <<13,8,12,1,4,15,3,6,16>>,
    <<12,8,13,16,15>>, <<12,14,13,9,1,3,15>>, <<4,9,13,14,12,15,6>>, <<12,14,13,5,4,1,3,15>>,
    <<12,14,13,5,6,15>>, <<5,9,1,12,14,3,15,16,6>>, <<12,14,16,15,4,5,9>>,
    <<1,4,14,12,6,16,15,3>>, <<12,14,16,15>>, <<14,8,9,1,3,16>>, <<14,8,9,4,6,16>>,
    <<14,8,5,4,1,3,16>>, <<5,8,14,16,6>>, <<5,13,14,8,9,1,3,6>>, <<13,5,4,9,8,14>>,
    <<1,4,6,3,14,13,8>>, <<13,14,8>>, <<13,9,1,3,16>>, <<13,9,4,6,16>>, <<13,5,4,1,3,16>>,
    <<13,5,6,16>>, <<1,9,5,6,3>>, <<4,5,9>>, <<4,1,3,6>>, <<>>
  >>

\* 32 cases each
TransitionVertexData ==
  <<
    TransitionVertexData0, TransitionVertexData1, TransitionVertexData2, TransitionVertexData3,
    TransitionVertexData4, TransitionVertexData5, TransitionVertexData6, TransitionVertexData7,
    TransitionVertexData8, TransitionVertexData9, TransitionVertexData10, TransitionVertexData11,
    TransitionVertexData12, TransitionVertexData13, TransitionVertexData14, TransitionVertexData15
  >>

-----------------------------------------------------------------------------
(* Cells.                                                                  *)

\* the corner i of a cell at pos
Corner(pos, i) == <<pos[1] + (i % 2), pos[2] + ((i \div 2) % 2), pos[3] + i \div 4>>

Sign(s) == IF s < 0 THEN 1 ELSE 0

NoVertex == -1

\* A mesh under construction: the places of its vertices, its triangles as
\* triples of indices into them, and the reuse cache.
EmptyMesh == [places |-> <<>>, triangles |-> <<>>, cache |-> <<>>]

\* what the cache has in a slot: the last value written there
CachedAt(mesh, key) == IF key \in DOMAIN mesh.cache THEN mesh.cache[key] ELSE NoVertex

Cache(mesh, key, vertex) ==
  [mesh EXCEPT !.cache = [k \in DOMAIN mesh.cache \cup {key} |->
                            IF k = key THEN vertex ELSE mesh.cache[k]]]

AddVertex(mesh, place) == [mesh EXCEPT !.places = Append(@, place)]

\* the place of a vertex on the edge from p to q with samples s and t
Place(p, q, s, t) == IF t = 0 THEN <<q, q>> ELSE IF s = 0 THEN <<p, p>> ELSE <<p, q>>

\* the triangles of three vertices each, in the order the class names them
Triangles(vertices, corners) ==
  [i \in 1 .. Len(corners) \div 3 |->
     <<vertices[corners[3 * i - 2] + 1], vertices[corners[3 * i - 1] + 1], vertices[corners[3 * i] + 1]>>]

-----------------------------------------------------------------------------
(* Regular cells.  The cache has two decks, for even and odd z.            *)

CaseCode(corners) ==
  corners[0] + 2 * corners[1] + 4 * corners[2] + 8 * corners[3] + 16 * corners[4]
    + 32 * corners[5] + 64 * corners[6] + 128 * corners[7]

DeckSlot(pos, slot) == <<pos[1], pos[2], pos[3] % 2, slot>>

\* Mutant: one deck for all z.
OneDeckSlot(pos, slot) == <<pos[1], pos[2], 0, slot>>

\* the cell before pos in the directions of a reuse code
Previous(pos, dir) == <<pos[1] - (dir % 2), pos[2] - ((dir \div 2) % 2), pos[3] - ((dir \div 4) % 2)>>

\* A code of 8 and more is for the cells to come; the others need a cell before this one.
ReuseDirections(pos) ==
  {dir \in 0 .. 7 : \A axis \in 1 .. 3 : (dir \div (2 ^ (axis - 1))) % 2 = 1 => pos[axis] > 0}

\* acc: the mesh and the vertices of the cell so far
RegularVertex(acc, pos, sample, code) ==
  LET e == RegularEdges[code]
      p == Corner(pos, e[1])
      q == Corner(pos, e[2])
      place == Place(p, q, sample[p], sample[q])
      inside == place[1] # place[2]
      old == IF inside /\ e[3] \in ReuseDirections(pos)
             THEN CachedAt(acc.mesh, DeckSlot(Previous(pos, e[3]), e[4])) ELSE NoVertex
      new == Len(acc.mesh.places) + 1
      added == AddVertex(acc.mesh, place)
  IN  IF old # NoVertex THEN [acc EXCEPT !.vertices = Append(@, old)]
      ELSE [vertices |-> Append(acc.vertices, new),
            mesh |-> IF inside
                     THEN IF e[3] >= 8 THEN Cache(added, DeckSlot(pos, e[4]), new) ELSE added
                     ELSE IF place[1] = q /\ e[2] = 7 THEN Cache(added, DeckSlot(pos, 0), new) ELSE added]

RegularCell(mesh, pos, sample) ==
  LET case == CaseCode([i \in 0 .. 7 |-> Sign(sample[Corner(pos, i)])])
      acc == FoldLeft(LAMBDA a, code : RegularVertex(a, pos, sample, code),
                      [mesh |-> mesh, vertices |-> <<>>],
                      RegularVertexData[(case \div 64) + 1][(case % 64) + 1])
  IN  IF case \in {0, 255} THEN mesh
      ELSE [acc.mesh EXCEPT
              !.triangles = @ \o Triangles(acc.vertices, RegularCellData[RegularCellClass[case + 1] + 1])]

\* x runs fastest, then y, then z
CellAt(cells, n) == <<n % cells[1], (n \div cells[1]) % cells[2], n \div (cells[1] * cells[2])>>

\* the mesh of a block of cells[1] by cells[2] by cells[3] cells
BuildRegularMesh(cells, sample) ==
  FoldLeft(LAMBDA mesh, n : RegularCell(mesh, CellAt(cells, n - 1), sample),
           EmptyMesh, [n \in 1 .. cells[1] * cells[2] * cells[3] |-> n])

-----------------------------------------------------------------------------
(* Transition cells, on the face `dir` of a block: -X, +X, -Y, +Y, -Z, +Z. *)

FaceToBlock(x, y, z, dir, cells) ==
  CASE dir = 0 -> <<z, x, y>>
    [] dir = 1 -> <<cells[1] - z, y, x>>
    [] dir = 2 -> <<y, z, x>>
    [] dir = 3 -> <<x, cells[2] - z, y>>
    [] dir = 4 -> <<x, y, z>>
    [] dir = 5 -> <<y, x, cells[3] - z>>

\* the axes x and y of a face are these of the block
FaceAxes(dir) == <<<<2, 3>>, <<3, 2>>, <<3, 1>>, <<1, 3>>, <<1, 2>>, <<2, 1>>>>[dir + 1]

\* The sample i of the cell at <<x, y>>: nine in full resolution, then the four corners again.
FullSample(i) == IF i <= 8 THEN i ELSE <<0, 2, 6, 8>>[i - 8]

FacePoint(x, y, i, dir, cells) ==
  FaceToBlock(x + (FullSample(i) % 3), y + (FullSample(i) \div 3), 0, dir, cells)

\* the samples in the order of the bits of the case
CaseOrder == <<0, 1, 2, 5, 8, 7, 6, 3, 4>>

TransitionCase(sign) ==
  FoldLeft(LAMBDA code, k : code + sign[CaseOrder[k]] * 2 ^ (k - 1), 0, <<1, 2, 3, 4, 5, 6, 7, 8, 9>>)

\* Vertices of the half resolution do not move with those of the full one: their places differ.
TransitionVertex(acc, x, y, dir, cells, sample, code) ==
  LET e == TransitionEdges[code]
      p == FacePoint(x, y, e[1], dir, cells)
      q == FacePoint(x, y, e[2], dir, cells)
      place == Place(p, q, sample[p], sample[q])
      fullRes == e[1] < 9 \/ e[2] < 9
  IN  [vertices |-> Append(acc.vertices, Len(acc.mesh.places) + 1),
       mesh |-> AddVertex(acc.mesh, <<place, IF fullRes THEN "full" ELSE "half">>)]

\* Mutant: the winding of the other half of the cases.
WoundAsListed(case, triangle) == triangle

Wound(case, triangle) ==
  IF case \in FlippedCases THEN triangle ELSE <<triangle[3], triangle[2], triangle[1]>>

VertexDataOf(case) == TransitionVertexData[(case \div 32) + 1][(case % 32) + 1]

\* No vertex is ever reused: cells are two apart, their cache entries are looked for one apart.
TransitionCell(mesh, x, y, dir, cells, sample) ==
  LET sign == [i \in 0 .. 8 |-> Sign(sample[FacePoint(x, y, i, dir, cells)])]
      case == TransitionCase(sign)
      acc == FoldLeft(LAMBDA a, code : TransitionVertex(a, x, y, dir, cells, sample, code),
                      [mesh |-> mesh, vertices |-> <<>>], VertexDataOf(case))
      listed == Triangles(acc.vertices, TransitionCellData[TransitionCellClass[case + 1] + 1])
  IN  IF case \in {0, 511} THEN mesh
      ELSE [acc.mesh EXCEPT !.triangles = @ \o [i \in DOMAIN listed |-> Wound(case, listed[i])]]

BuildTransitionMesh(cells, sample, dir) ==
  LET width == cells[FaceAxes(dir)[1]] \div 2
      height == cells[FaceAxes(dir)[2]] \div 2
  IN  FoldLeft(LAMBDA mesh, n : TransitionCell(mesh, 2 * ((n - 1) % width), 2 * ((n - 1) \div width),
                                               dir, cells, sample),
               EmptyMesh, [n \in 1 .. width * height |-> n])

-----------------------------------------------------------------------------
(* Properties.                                                             *)

\* the edges of the triangles of a mesh, each as <<triangle, from, to>>
EdgesOf(mesh) ==
  {<<t, k, mesh.places[mesh.triangles[t][k]], mesh.places[mesh.triangles[t][(k % 3) + 1]]>> :
     t \in DOMAIN mesh.triangles, k \in 1 .. 3}

\* as many edges of E from a to b as from b to a
Balanced(E, a, b) ==
  Cardinality({e \in E : e[3] = a /\ e[4] = b}) = Cardinality({e \in E : e[3] = b /\ e[4] = a})

\* A place is on the faces both its points are on.
OnFace(place, cells, dir) ==
  LET axis == dir \div 2 + 1
      at == IF dir % 2 = 0 THEN 0 ELSE cells[axis]
  IN  place[1][axis] = at /\ place[2][axis] = at

Inside(cells, a, b) == \A dir \in 0 .. 5 : ~(OnFace(a, cells, dir) /\ OnFace(b, cells, dir))

\* "smooth surface mesh" (regular.rs:4): no holes, the triangles of all cells
\* fit together but for the border of the block.
SurfaceIsClosed(cells, mesh) ==
  LET E == EdgesOf(mesh)
  IN  \A e \in E : Inside(cells, e[3], e[4]) => Balanced(E, e[3], e[4])

\* The vertices are the sign changes between neighbouring points.  Each is there
\* once for all the cells around it, but on the faces of the block where x, y or z
\* is 0 (no cell before them keeps it) and on points (samples of zero).
VerticesAreCrossings(cells, sample, mesh) ==
  LET Points == {<<x, y, z>> : x \in 0 .. cells[1], y \in 0 .. cells[2], z \in 0 .. cells[3]}
      Neighbours == {pair \in Points \X Points :
                       \E axis \in 1 .. 3 : pair[2] = [pair[1] EXCEPT ![axis] = @ + 1]}
      Crossings == {Place(pair[1], pair[2], sample[pair[1]], sample[pair[2]]) : pair \in
                      {n \in Neighbours : Sign(sample[n[1]]) # Sign(sample[n[2]])}}
      shared(place) == place[1] # place[2] /\ \A dir \in {0, 2, 4} : ~OnFace(place, cells, dir)
  IN  /\ ToSet(mesh.places) = Crossings
      /\ \A i, j \in DOMAIN mesh.places :
           i # j /\ mesh.places[i] = mesh.places[j] => ~shared(mesh.places[i])

RegularMeshIsExact(in) ==
  LET mesh == BuildRegularMesh(in.cells, in.sample)
  IN  SurfaceIsClosed(in.cells, mesh) /\ VerticesAreCrossings(in.cells, in.sample, mesh)

\* The cells of the neighbour behind the face, twice as large: they share the
\* points of the face with even coordinates, behind which there is air.
NeighbourEdges(in) ==
  LET axis == in.dir \div 2 + 1
      coarse == [i \in 1 .. 3 |-> IF i = axis THEN 1 ELSE in.cells[i] \div 2]
      shared == IF in.dir % 2 = 0 THEN 1 ELSE 0
      fine(p) == [i \in 1 .. 3 |-> IF i # axis THEN 2 * p[i] ELSE IF in.dir % 2 = 0 THEN 0 ELSE in.cells[i]]
      Points == {<<x, y, z>> : x \in 0 .. coarse[1], y \in 0 .. coarse[2], z \in 0 .. coarse[3]}
      mesh == BuildRegularMesh(coarse, [p \in Points |-> IF p[axis] = shared THEN in.sample[fine(p)] ELSE 1])
      onFace(place) == place[1][axis] = shared /\ place[2][axis] = shared
      moved(place) == <<<<fine(place[1]), fine(place[2])>>, "half">>
  IN  {<<e[1], e[2] + 6, moved(e[3]), moved(e[4])>> : e \in {d \in EdgesOf(mesh) : onFace(d[3]) /\ onFace(d[4])}}

\* the edges of the block's own cells on the face
OwnEdges(in) ==
  {<<e[1], e[2] + 3, <<e[3], "full">>, <<e[4], "full">>>> :
     e \in {d \in EdgesOf(BuildRegularMesh(in.cells, in.sample)) :
              OnFace(d[3], in.cells, in.dir) /\ OnFace(d[4], in.cells, in.dir)}}

\* "stitches a high-resolution block to its low-resolution neighbour so the
\* rendered surface stays watertight across LOD boundaries" (transition.rs:5-7):
\* with the cells on both sides the seam is closed, but for the border of the face.
SeamIsClosed(in) ==
  LET E == EdgesOf(BuildTransitionMesh(in.cells, in.sample, in.dir)) \cup OwnEdges(in) \cup NeighbourEdges(in)
      onBorder(a, b) == \E dir \in (0 .. 5) \ {in.dir} : OnFace(a[1], in.cells, dir) /\ OnFace(b[1], in.cells, dir)
  IN  \A e \in E : ~onBorder(e[3], e[4]) => Balanced(E, e[3], e[4])

=============================================================================
