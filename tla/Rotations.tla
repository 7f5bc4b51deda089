------------------------------ MODULE Rotations ------------------------------
(***************************************************************************)
(* Rotations by quarter turns and flat arrays: math/vector3.rs (rotations, *)
(* indices), math/ortho_basis.rs (the 24 orthogonal bases and their names) *)
(* and storage/funcs.rs (arrays turned by a basis).  A vector is a triple; *)
(* in the tables a unit vector is written as its axis, 1 to 3, signed.     *)
(***************************************************************************)
EXTENDS Integers, Sequences, FiniteSets, Folds

Axes == 1 .. 3
Abs(n) == IF n < 0 THEN -n ELSE n
Sign(n) == IF n < 0 THEN -1 ELSE 1
Unit(a) == [d \in Axes |-> IF d = Abs(a) THEN Sign(a) ELSE 0]
Basis(row) == [d \in Axes |-> Unit(row[d])]
Identity == Basis(<<1, 2, 3>>)

Dot(v, w) == v[1] * w[1] + v[2] * w[2] + v[3] * w[3]
IsUnitVector(v) == Abs(v[1]) + Abs(v[2]) + Abs(v[3]) = 1

\* rotate_x_90_ccw and the five others, chosen by rotate_90
Rotate90(v, axis, clockwise) ==
  CASE axis = 1 -> IF clockwise THEN <<v[1], v[3], -v[2]>> ELSE <<v[1], -v[3], v[2]>>
    [] axis = 2 -> IF clockwise THEN <<-v[3], v[2], v[1]>> ELSE <<v[3], v[2], -v[1]>>
    [] OTHER    -> IF clockwise THEN <<v[2], -v[1], v[3]>> ELSE <<-v[2], v[1], v[3]>>
BasisRotate90(b, axis, clockwise) == [d \in Axes |-> Rotate90(b[d], axis, clockwise)]

\* Rust's % takes the sign of the dividend
Remainder(a, b) == Sign(a) * (Abs(a) % b)

\* the nine matrices of from_axis_turns; four turns, which -4 makes, are the identity too
TurnRows == << << <<1, -3, 2>>, <<1, -2, -3>>, <<1, 3, -2>> >>,
               << <<3, 2, -1>>, <<-1, 2, -3>>, <<-3, 2, 1>> >>,
               << <<-2, 1, 3>>, <<-1, -2, 3>>, <<2, -1, 3>> >> >>
PositiveTurns(turns) == IF turns >= 0 THEN Remainder(turns, 4) ELSE 4 - Remainder(-turns, 4)
FromAxisTurns(axis, turns) ==
  IF PositiveTurns(turns) \in 1 .. 3 THEN Basis(TurnRows[axis][PositiveTurns(turns)]) ELSE Identity

IsOrthonormal(b) == \A d, e \in Axes : IF d = e THEN IsUnitVector(b[d]) ELSE Dot(b[d], b[e]) = 0
Transposed(b) == [d \in Axes |-> [e \in Axes |-> b[e][d]]]
Inverted(b) == Transposed(b)
Xform(b, p) == [d \in Axes |-> p[1] * b[1][d] + p[2] * b[2][d] + p[3] * b[3][d]]
Mul(b, other) == [d \in Axes |-> Xform(b, other[d])]

\* ORTHO_BASES, in the order of Godot's GridMap
OrthoRows == <<
  <<1, 2, 3>>,  <<-2, 1, 3>>,  <<-1, -2, 3>>,  <<2, -1, 3>>,
  <<1, -3, 2>>, <<3, 1, 2>>,   <<-1, 3, 2>>,   <<-3, -1, 2>>,
  <<1, -2, -3>>, <<2, 1, -3>>, <<-1, 2, -3>>,  <<-2, -1, -3>>,
  <<1, 3, -2>>, <<-3, 1, -2>>, <<-1, -3, -2>>, <<3, -1, -2>>,
  <<3, 2, -1>>, <<-2, 3, -1>>, <<-3, -2, -1>>, <<2, -3, -1>>,
  <<3, -2, 1>>, <<2, 3, 1>>,   <<-3, 2, 1>>,   <<-2, -3, 1>> >>
OrthoBases == [i \in 0 .. 23 |-> Basis(OrthoRows[i + 1])]
IndexOf(b) == IF \E i \in 0 .. 23 : OrthoBases[i] = b
                THEN CHOOSE i \in 0 .. 23 : OrthoBases[i] = b ELSE -1

\* ROTATION_NAMES: the rotations a name lists, first to last, with their angles
RotationNames == <<
  << >>, << <<3, 270>> >>, << <<3, 180>> >>, << <<3, 90>> >>,
  << <<1, 270>> >>, << <<1, 270>>, <<2, 270>> >>, << <<1, 270>>, <<2, 180>> >>, << <<1, 270>>, <<2, 90>> >>,
  << <<3, 180>>, <<2, 180>> >>, << <<3, 90>>, <<2, 180>> >>, << <<2, 180>> >>, << <<3, 270>>, <<2, 180>> >>,
  << <<1, 90>> >>, << <<1, 90>>, <<2, 90>> >>, << <<1, 90>>, <<2, 180>> >>, << <<1, 90>>, <<2, 270>> >>,
  << <<2, 270>> >>, << <<3, 270>>, <<2, 270>> >>, << <<3, 180>>, <<2, 270>> >>, << <<3, 90>>, <<2, 270>> >>,
  << <<3, 180>>, <<2, 90>> >>, << <<3, 90>>, <<2, 90>> >>, << <<2, 90>> >>, << <<3, 270>>, <<2, 90>> >> >>

-----------------------------------------------------------------------------
\* Flat arrays: y innermost

ZxyIndex(p, size) == p[2] + size[2] * (p[1] + size[1] * p[3])
ZyxIndex(p, size) == p[1] + size[1] * (p[2] + size[2] * p[3])
FromZxyIndex(i, size) == <<(i \div size[2]) % size[1], i % size[2], i \div (size[1] * size[2])>>
Volume(size) == size[1] * size[2] * size[3]
CellsOf(size) == {<<x, y, z>> : x \in 0 .. size[1] - 1, y \in 0 .. size[2] - 1, z \in 0 .. size[3] - 1}

\* get_3d_array_transform_origin: the axis each source axis lands on
Lands(b, d) == CHOOSE e \in Axes : b[d][e] # 0 /\ \A f \in 1 .. e - 1 : b[d][f] = 0
TransformedSize(b, size) == [e \in Axes |-> size[CHOOSE d \in Axes : Lands(b, d) = e]]
TransformOrigin(b, size) ==
  [d \in Axes |-> IF b[Lands(b, d)][d] < 0 THEN TransformedSize(b, size)[d] - 1 ELSE 0]

\* transform_3d_array_zxy: where a source cell is written
TransformedCell(b, size, p) == [d \in Axes |-> TransformOrigin(b, size)[d] + Xform(b, p)[d]]
TransformedIndex(b, size, p) == ZxyIndex(TransformedCell(b, size, p), TransformedSize(b, size))

-----------------------------------------------------------------------------
Describes(name, b) ==
  b = MapThenFoldSet(LAMBDA i, acc : Mul(FromAxisTurns(name[i][1], (360 - name[i][2]) \div 90), acc),
                     Identity, LAMBDA i : i, LAMBDA S : CHOOSE i \in S : \A j \in S : j <= i,
                     DOMAIN name)

\* BasesAreRotations: the table lists the 24 rotations, closed under composition, with the
\* transpose as inverse; every name in it describes the basis at its index; turns about an
\* axis, negative ones too, add up, and one turn is rotate_90 clockwise.
BasesAreRotations(i, j, turns) ==
  /\ IsOrthonormal(OrthoBases[i]) /\ IndexOf(OrthoBases[i]) = i
  /\ Mul(OrthoBases[i], Inverted(OrthoBases[i])) = Identity
  /\ IndexOf(Mul(OrthoBases[i], OrthoBases[j])) # -1
  /\ Describes(RotationNames[i + 1], OrthoBases[i])
  /\ \A axis \in Axes :
       /\ Mul(FromAxisTurns(axis, turns), FromAxisTurns(axis, j)) = FromAxisTurns(axis, turns + j)
       /\ Mul(FromAxisTurns(axis, 1), OrthoBases[i]) = BasisRotate90(OrthoBases[i], axis, TRUE)
       /\ BasisRotate90(BasisRotate90(OrthoBases[i], axis, TRUE), axis, FALSE) = OrthoBases[i]

\* a basis that sends the three axes around in a circle
IsCyclic(b) == \A d \in Axes : Lands(b, d) # d /\ Lands(b, Lands(b, d)) # d

\* ArraysKeepTheirCells: an index names one cell, both ways, and an array turned by a basis
\* holds every cell of the source once, inside its bounds.  Bases that send the axes around in
\* a circle are left out: the origin of an axis is taken from the wrong row there.
ArraysKeepTheirCells(i, size) ==
  LET b == OrthoBases[i] IN
    /\ \A p \in CellsOf(size) : FromZxyIndex(ZxyIndex(p, size), size) = p
    /\ {ZxyIndex(p, size) : p \in CellsOf(size)} = 0 .. Volume(size) - 1
    /\ {ZyxIndex(p, size) : p \in CellsOf(size)} = 0 .. Volume(size) - 1
    /\ ~ IsCyclic(b) =>
         /\ {TransformedCell(b, size, p) : p \in CellsOf(size)} = CellsOf(TransformedSize(b, size))
         /\ {TransformedIndex(b, size, p) : p \in CellsOf(size)} = 0 .. Volume(size) - 1
=============================================================================
