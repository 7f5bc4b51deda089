---------------------------- MODULE GraphRuntime ----------------------------
(***************************************************************************)
(* Procedural graphs (generators/graph/runtime.rs, generator_graph.rs):    *)
(* the interpreter, the compiled graph with the prefix of nodes that is    *)
(* kept from slice to slice, and the analysis of ranges (math/interval.rs) *)
(* that fills a block at once when it finds a single value.                *)
(*                                                                         *)
(* A graph is a sequence of nodes [kind, ports, params]; the place of a    *)
(* node is its id.  A port is <<id, output>>, or << >> if unconnected.     *)
(* Numbers are integers, with rounding where the code divides or takes a   *)
(* root: both are monotone, like those of f32.  The kind Hard stands for   *)
(* noise, curves, powers and the others that the analysis gives up on.     *)
(***************************************************************************)
EXTENDS Integers, Sequences, FiniteSets, SequencesExt

Lesser(a, b) == IF a < b THEN a ELSE b
Greater(a, b) == IF a > b THEN a ELSE b
Magnitude(a) == Greater(a, -a)

Unconnected == <<>>
Connected(node) == SelectSeq(node.ports, LAMBDA p : p # Unconnected)
IsOutput(node) == node.kind = "OutputSdf"

-----------------------------------------------------------------------------
(* The order of evaluation: depth first, outputs last.                     *)

RECURSIVE Visit(_, _, _, _)
Visit(graph, id, onStack, acc) ==
  IF acc.error # "none" \/ id \in ToSet(acc.order) THEN acc
  ELSE IF id \in onStack THEN [acc EXCEPT !.error = "cycle"]
  ELSE IF id \notin DOMAIN graph THEN [acc EXCEPT !.error = "dangling"]
  ELSE LET below == FoldLeft(LAMBDA a, p : Visit(graph, p[1], onStack \cup {id}, a),
                             acc, Connected(graph[id]))
       IN  IF below.error # "none" THEN below ELSE [below EXCEPT !.order = Append(@, id)]

TopologicalOrder(graph) ==
  LET ids == [i \in DOMAIN graph |-> i]
      roots == SelectSeq(ids, LAMBDA i : ~ IsOutput(graph[i]))
               \o SelectSeq(ids, LAMBDA i : IsOutput(graph[i]))
  IN  FoldLeft(LAMBDA a, i : Visit(graph, i, {}, a), [order |-> <<>>, error |-> "none"], roots)

-----------------------------------------------------------------------------
(* What the nodes compute.                                                 *)

\* the greatest r with r * r <= n
Root(n) == CHOOSE r \in 0 .. n : r * r <= n /\ (r + 1) * (r + 1) > n
SquareRoot(n) == IF n <= 0 THEN 0 ELSE Root(n)
Quotient(a, b) == IF b > 0 THEN a \div b ELSE (-a) \div (-b)
OrZero(a, b) == IF b = 0 THEN 0 ELSE Quotient(a, b)
LengthOf(v) == SquareRoot(FoldLeft(LAMBDA s, c : s + c * c, 0, v))
ClampTo(v, lo, hi) == Lesser(Greater(v, lo), hi)
Noise(in) == ((in[1] * in[1] + 2 * in[2]) % 5) - 2
Sine(v) == <<0, 1, 0, -1>>[(v % 4) + 1]

\* The kinds that both paths compute alike, over the values of their ports.
Common(node, in) ==
  CASE node.kind = "Constant" -> node.params[1]
    [] node.kind = "Add" -> in[1] + in[2]
    [] node.kind \in {"Subtract", "SdfPlane"} -> in[1] - in[2]
    [] node.kind = "Multiply" -> in[1] * in[2]
    [] node.kind = "Divide" -> OrZero(in[1], in[2])
    [] node.kind \in {"Min", "SdfUnion"} -> Lesser(in[1], in[2])
    [] node.kind = "Max" -> Greater(in[1], in[2])
    [] node.kind = "SdfSubtract" -> Greater(in[1], -in[2])
    [] node.kind = "Abs" -> Magnitude(in[1])
    [] node.kind = "Sqrt" -> SquareRoot(in[1])
    [] node.kind = "Sin" -> Sine(in[1])
    [] node.kind = "Hard" -> Noise(in)
    [] node.kind = "Remap" ->
         LET fromSpan == node.params[2] - node.params[1]
         IN  IF fromSpan = 0 THEN 0
             ELSE node.params[3] + Quotient(in[1] - node.params[1], fromSpan) * (node.params[4] - node.params[3])
    [] node.kind = "Distance2D" -> LengthOf(<<in[3] - in[1], in[4] - in[2]>>)
    [] node.kind = "Mix" -> in[1] * (1 - in[3]) + in[2] * in[3]
    [] node.kind = "Clamp" -> ClampTo(in[1], Lesser(in[2], in[3]), Greater(in[2], in[3]))
    [] node.kind = "OutputSdf" -> in[1]

At(node, pos) == CASE node.kind = "InputX" -> pos.x [] node.kind = "InputY" -> pos.y [] node.kind = "InputZ" -> pos.z
IsInput(node) == node.kind \in {"InputX", "InputY", "InputZ"}

\* The interpreter: outputs 0 and up of a node.
Outside(d) == LengthOf([i \in 1 .. 3 |-> Greater(d[i], 0)])
Interpreted(node, in, pos) ==
  IF IsInput(node) THEN <<At(node, pos)>>
  ELSE CASE node.kind = "Normalize3D" ->
              LET len == LengthOf(in) IN [i \in 1 .. 4 |-> IF i = 4 THEN len ELSE OrZero(in[i], len)]
         [] node.kind = "SdfSphere" -> <<LengthOf(SubSeq(in, 1, 3)) - in[4]>>
         [] node.kind = "SdfBox" ->
              LET d == [i \in 1 .. 3 |-> Magnitude(in[i]) - node.params[i]]
              IN  <<Outside(d) + Lesser(Greater(d[1], Greater(d[2], d[3])), 0)>>
         [] node.kind \notin {"Normalize3D", "SdfSphere", "SdfBox"} -> <<Common(node, in)>>

\* The compiled path: output 0 only.
Compiled(node, in, pos) ==
  IF IsInput(node) THEN At(node, pos)
  ELSE CASE node.kind = "Normalize3D" -> OrZero(in[1], LengthOf(in))
         [] node.kind = "SdfSphere" -> LengthOf(SubSeq(in, 1, 3)) - Greater(in[4], 0)
         [] node.kind = "SdfBox" ->
              LET d == [i \in 1 .. 3 |-> Magnitude(in[i]) - node.params[i]]
              IN  Greater(d[1], Greater(d[2], d[3]))
         [] node.kind \notin {"Normalize3D", "SdfSphere", "SdfBox"} -> Common(node, in)

-----------------------------------------------------------------------------
(* The interpreter: every node of the order, for each slice.               *)

PortDefault(node, i) == IF node.kind = "SdfSphere" /\ i = 4 THEN 1 ELSE 0

\* the value of a port in the scratch, whose sinks are not stored
ValueAt(graph, scratch, node, i) ==
  LET p == node.ports[i]
  IN  IF p = Unconnected \/ p[1] \notin DOMAIN scratch THEN PortDefault(node, i)
      ELSE IF IsOutput(graph[p[1]]) \/ p[2] + 1 > Len(scratch[p[1]]) THEN PortDefault(node, i)
      ELSE scratch[p[1]][p[2] + 1]

Generate(graph, order, pos) ==
  FoldLeft(LAMBDA scratch, id :
             LET in == [i \in DOMAIN graph[id].ports |-> ValueAt(graph, scratch, graph[id], i)]
             IN  [k \in DOMAIN scratch \cup {id} |-> IF k = id THEN Interpreted(graph[id], in, pos) ELSE scratch[k]],
           [k \in {} |-> <<>>], order)

-----------------------------------------------------------------------------
(* The compiled graph.                                                     *)

\* the nodes that depend on y, over the places of the order
InnerNodes(graph, order) ==
  FoldLeft(LAMBDA inner, id :
             IF graph[id].kind = "InputY" \/ \E p \in ToSet(Connected(graph[id])) : p[1] \in inner
             THEN inner \cup {id} ELSE inner,
           {}, order)

\* Mutant: as many nodes as do not depend on y, wherever they are.
PrefixCount(graph, order) == Len(order) - Cardinality(InnerNodes(graph, order))

PrefixLen(graph, order) ==
  LET inner == InnerNodes(graph, order)
  IN  IF inner = {} THEN Len(order)
      ELSE (CHOOSE n \in DOMAIN order : order[n] \in inner /\ \A m \in 1 .. n - 1 : order[m] \notin inner) - 1

\* the value of a port in the dense scratch
Val(scratch, port) == IF port = Unconnected \/ port[2] # 0 THEN 0 ELSE scratch[port[1]]

GenerateSlice(graph, order, pos, scratch, xzPrefixCached) ==
  FoldLeft(LAMBDA buffers, n :
             LET id == order[n]
                 in == [i \in DOMAIN graph[id].ports |-> Val(buffers, graph[id].ports[i])]
             IN  IF xzPrefixCached /\ n <= PrefixLen(graph, order) THEN buffers
                 ELSE [buffers EXCEPT ![id] = Compiled(graph[id], in, pos)],
           scratch, [n \in DOMAIN order |-> n])

-----------------------------------------------------------------------------
(* Ranges: <<min, max>> with infinities and what is not a number.          *)

Inf == 100000
NotANumber == 1000000
Finite(a) == a # NotANumber /\ Magnitude(a) < Inf
Saturated(a) == IF a >= Inf THEN Inf ELSE IF a <= -Inf THEN -Inf ELSE a

Plus(a, b) ==
  IF NotANumber \in {a, b} \/ {a, b} = {Inf, -Inf} THEN NotANumber
  ELSE IF Finite(a) /\ Finite(b) THEN a + b
  ELSE IF Finite(a) THEN b ELSE a
Minus(a) == IF a = NotANumber THEN a ELSE -a
Sign(a) == IF a > 0 THEN 1 ELSE IF a < 0 THEN -1 ELSE 0
Times(a, b) ==
  IF NotANumber \in {a, b} \/ (0 \in {a, b} /\ ~ (Finite(a) /\ Finite(b))) THEN NotANumber
  ELSE IF Finite(a) /\ Finite(b) THEN Saturated(a * b) ELSE Sign(a) * Sign(b) * Inf
\* a divisor is never 0 here
Over(a, b) ==
  IF NotANumber \in {a, b} \/ ~ (Finite(a) \/ Finite(b)) THEN NotANumber
  ELSE IF ~ Finite(b) THEN 0 ELSE IF Finite(a) THEN Quotient(a, b) ELSE Sign(a) * Sign(b) * Inf

\* f32::min and f32::max of four, which pass over what is not a number
Extremes(S) ==
  LET numbers == S \ {NotANumber}
  IN  IF numbers = {} THEN <<NotANumber, NotANumber>>
      ELSE <<CHOOSE a \in numbers : \A b \in numbers : a <= b, CHOOSE a \in numbers : \A b \in numbers : a >= b>>

Single(v) == <<v, v>>
Infinity == <<-Inf, Inf>>
IsSingle(r) == r[1] = r[2] /\ r[1] # NotANumber
InRange(r, v) == NotANumber \notin {r[1], r[2]} /\ r[1] <= v /\ v <= r[2]
\* min and max of math/funcs.rs: the second, unless the first compares
FMin(a, b) == IF NotANumber \notin {a, b} /\ a < b THEN a ELSE b
FMax(a, b) == IF NotANumber \notin {a, b} /\ a > b THEN a ELSE b
FAbs(a) == IF a = NotANumber THEN a ELSE Magnitude(a)
Sum2(r, s) == <<Plus(r[1], s[1]), Plus(r[2], s[2])>>
Negated(r) == <<Minus(r[2]), Minus(r[1])>>
Difference(r, s) == Sum2(r, Negated(s))
Product(r, s) == Extremes({Times(a, b) : a \in {r[1], r[2]}, b \in {s[1], s[2]}})
Ratio(r, s) ==
  IF s = Single(0) THEN Single(0)
  ELSE IF InRange(s, 0) THEN Infinity
  ELSE Extremes({Over(a, b) : a \in {r[1], r[2]}, b \in {s[1], s[2]}})
LeastOf(r, s) == [i \in 1 .. 2 |-> FMin(r[i], s[i])]
GreatestOf(r, s) == [i \in 1 .. 2 |-> FMax(r[i], s[i])]
AbsOf(r) ==
  <<IF InRange(r, 0) THEN 0 ELSE FMin(FAbs(r[1]), FAbs(r[2])), FMax(FAbs(r[1]), FAbs(r[2]))>>
RootOf(r) == [i \in 1 .. 2 |-> IF Finite(r[i]) THEN SquareRoot(r[i]) ELSE FMax(r[i], 0)]
Squared(r) ==
  IF NotANumber \notin {r[1], r[2]} /\ r[1] < 0 /\ r[2] > 0
  THEN <<0, FMax(Times(r[1], r[1]), Times(r[2], r[2]))>>
  ELSE IF r[2] <= 0 THEN <<Times(r[2], r[2]), Times(r[1], r[1])>>
  ELSE <<Times(r[1], r[1]), Times(r[2], r[2])>>
LengthRange(rs) == RootOf(FoldLeft(LAMBDA s, r : Sum2(s, Squared(r)), Single(0), rs))
SinOf(r) == IF IsSingle(r) THEN Single(Sine(r[1])) ELSE <<-1, 1>>

ClampOf(r, lo, hi) ==
  IF IsSingle(lo) /\ IsSingle(hi) THEN [i \in 1 .. 2 |-> FMin(FMax(r[i], lo[1]), hi[1])]
  ELSE IF NotANumber \in {r[1], r[2], lo[1], lo[2], hi[1], hi[2]} THEN <<lo[1], hi[2]>>
  ELSE IF r[1] >= lo[2] /\ r[2] <= hi[1] THEN r
  ELSE IF r[1] >= hi[2] THEN Single(hi[2])
  ELSE IF r[2] <= lo[1] THEN Single(lo[1])
  ELSE <<lo[1], hi[2]>>

LerpTo(a, b, t) == Plus(a, Times(t, Plus(b, Minus(a))))
LerpOf(r, s, t) ==
  IF IsSingle(t) THEN <<LerpTo(r[1], s[1], t[1]), LerpTo(r[2], s[2], t[1])>>
  ELSE Extremes({LerpTo(a, b, u) : a \in {r[1], r[2]}, b \in {s[1], s[2]}, u \in {t[1], t[2]}})

\* the range of a node, over those of its ports and of the position
RangeOf(node, in, box) ==
  CASE IsInput(node) -> At(node, box)
    [] node.kind = "Constant" -> Single(node.params[1])
    [] node.kind = "Add" -> Sum2(in[1], in[2])
    [] node.kind \in {"Subtract", "SdfPlane"} -> Difference(in[1], in[2])
    [] node.kind = "Multiply" -> Product(in[1], in[2])
    [] node.kind = "Divide" -> Ratio(in[1], in[2])
    [] node.kind \in {"Min", "SdfUnion"} -> LeastOf(in[1], in[2])
    [] node.kind = "Max" -> GreatestOf(in[1], in[2])
    [] node.kind = "SdfSubtract" -> GreatestOf(in[1], Negated(in[2]))
    [] node.kind = "Abs" -> AbsOf(in[1])
    [] node.kind = "Sqrt" -> RootOf(in[1])
    [] node.kind = "Sin" -> SinOf(in[1])
    [] node.kind \in {"Hard", "Normalize3D", "SdfBox"} -> Infinity
    [] node.kind = "Remap" ->
         LET from == Single(node.params[1])
         IN  LerpOf(Single(node.params[3]), Single(node.params[4]),
                    Ratio(Difference(in[1], from), Difference(Single(node.params[2]), from)))
    [] node.kind = "Distance2D" -> LengthRange(<<Difference(in[3], in[1]), Difference(in[4], in[2])>>)
    [] node.kind = "Mix" -> LerpOf(in[1], in[2], in[3])
    [] node.kind = "Clamp" -> ClampOf(in[1], in[2], in[3])
    [] node.kind = "SdfSphere" -> Difference(LengthRange(SubSeq(in, 1, 3)), in[4])
    [] node.kind = "OutputSdf" -> in[1]

AnalyzeRanges(graph, order, box) ==
  FoldLeft(LAMBDA ranges, id :
             LET port(i) == graph[id].ports[i]
                 in == [i \in DOMAIN graph[id].ports |->
                          IF port(i) = Unconnected THEN Single(0) ELSE ranges[port(i)[1]]]
             IN  [ranges EXCEPT ![id] = RangeOf(graph[id], in, box)],
           [id \in DOMAIN graph |-> Infinity], order)

-----------------------------------------------------------------------------
(* Blocks: [origin, size, stride], with what is written at each position,  *)
(* or the default.                                                         *)

BlockCells(block) == [x : 0 .. block.size - 1, y : 0 .. block.size - 1, z : 0 .. block.size - 1]
World(block, p) == [c \in {"x", "y", "z"} |-> block.origin[c] + p[c] * block.stride]
BoxOf(block) ==
  [c \in {"x", "y", "z"} |-> <<block.origin[c], block.origin[c] + (block.size - 1) * block.stride>>]

Default == 77
Outputs(graph, order) == SelectSeq(order, LAMBDA id : IsOutput(graph[id]))

GenerateBlockWithGraph(graph, block) ==
  LET sorted == TopologicalOrder(graph)
      sinks == Outputs(graph, sorted.order)
  IN  [p \in BlockCells(block) |->
         IF sorted.error # "none" \/ sinks = <<>> THEN Default
         ELSE Generate(graph, sorted.order, World(block, p))[sinks[1]][1]]

\* the slices of a column, each with the buffers of the one before
Column(graph, order, block, x, z) ==
  FoldLeft(LAMBDA slices, y :
             Append(slices, GenerateSlice(graph, order, World(block, [x |-> x, y |-> y, z |-> z]),
                                          IF y = 0 THEN [id \in DOMAIN graph |-> Default] ELSE slices[y], y > 0)),
           <<>>, [n \in 1 .. block.size |-> n - 1])

SdfRange(graph, order, box) ==
  LET sinks == Outputs(graph, order)
  IN  IF sinks = <<>> THEN Infinity ELSE AnalyzeRanges(graph, order, box)[Last(sinks)]

GenerateBlockWithCompiledGraph(graph, order, block) ==
  LET sinks == Outputs(graph, order)
      range == SdfRange(graph, order, BoxOf(block))
      columns == [x, z \in 0 .. block.size - 1 |-> Column(graph, order, block, x, z)]
  IN  [p \in BlockCells(block) |->
         IF sinks = <<>> THEN Default
         ELSE IF IsSingle(range) THEN range[1]
         ELSE columns[p.x, p.z][p.y + 1][sinks[1]]]

\* A graph that does not compile is left to the interpreter.
GenerateBlock(graph, block) ==
  LET sorted == TopologicalOrder(graph)
  IN  IF sorted.error # "none" THEN GenerateBlockWithGraph(graph, block)
      ELSE GenerateBlockWithCompiledGraph(graph, sorted.order, block)

-----------------------------------------------------------------------------
(* Properties.                                                             *)

\* The order has every node once, after those it reads; there is none exactly if a port
\* dangles or a node depends on itself.
Edges(graph) == {<<p[1], id>> : <<p, id>> \in {e \in UNION {Range(graph[i].ports) \X {i} : i \in DOMAIN graph} : e[1] # Unconnected}}
OrderIsTopological(graph) ==
  LET sorted == TopologicalOrder(graph)
      before == [i \in DOMAIN sorted.order |-> ToSet(SubSeq(sorted.order, 1, i - 1))]
  IN  IF sorted.error = "none"
      THEN /\ ToSet(sorted.order) = DOMAIN graph
           /\ Len(sorted.order) = Len(graph)
           /\ \A i \in DOMAIN sorted.order : \A p \in ToSet(Connected(graph[sorted.order[i]])) : p[1] \in before[i]
      ELSE \/ \E e \in Edges(graph) : e[1] \notin DOMAIN graph
           \/ \E S \in SUBSET DOMAIN graph : S # {} /\ \A i \in S : \E p \in ToSet(Connected(graph[i])) : p[1] \in S

\* Where the compiled path is known to differ: other outputs than the first, sinks that
\* are read, more than one sink, a sphere without radius or with a negative one, boxes;
\* and where a range is too small: spans of nothing, bounds that are no numbers in order,
\* weights outside 0 to 1.  (Where a range is none, a build with assertions panics.)
Constant(graph, port) ==
  IF port = Unconnected THEN 0 ELSE IF graph[port[1]].kind = "Constant" THEN graph[port[1]].params[1] ELSE NotANumber
Tame(graph) ==
  /\ Cardinality({i \in DOMAIN graph : IsOutput(graph[i])}) <= 1
  /\ \A i \in DOMAIN graph :
       LET node == graph[i] value(k) == Constant(graph, node.ports[k])
       IN  /\ \A p \in ToSet(Connected(node)) : p[2] = 0 /\ ~ IsOutput(graph[p[1]])
           /\ node.kind # "SdfBox"
           /\ node.kind = "SdfSphere" => node.ports[4] # Unconnected /\ value(4) >= 0 /\ Finite(value(4))
           /\ node.kind = "Remap" => node.params[1] # node.params[2]
           /\ node.kind = "Clamp" => value(2) <= value(3) /\ Finite(value(3))
           /\ node.kind = "Mix" => value(3) \in {0, 1}

RangesAreOrdered(graph, block) ==
  \A r \in ToSet(AnalyzeRanges(graph, TopologicalOrder(graph).order, BoxOf(block))) :
    NotANumber \notin ToSet(r) /\ r[1] <= r[2]

\* "Equivalent to generate_block_with_graph" (generator_graph.rs:190): whatever is kept from
\* slice to slice, and although a block of a single value is filled without looking.
CompiledAgrees(graph, block) ==
  GenerateBlock(graph, block) = GenerateBlockWithGraph(graph, block)

\* "conservative": every value of a node is in its range.
RangesAreSound(graph, block) ==
  LET sorted == TopologicalOrder(graph)
      ranges == AnalyzeRanges(graph, sorted.order, BoxOf(block))
  IN  sorted.error = "none" =>
        \A p \in BlockCells(block) :
          LET values == Generate(graph, sorted.order, World(block, p))
          IN  \A id \in DOMAIN graph : InRange(ranges[id], values[id][1])

GraphIsExact(graph, block) ==
  /\ OrderIsTopological(graph)
  /\ TopologicalOrder(graph).error # "none" => CompiledAgrees(graph, block)
  /\ TopologicalOrder(graph).error = "none" /\ Tame(graph) /\ RangesAreOrdered(graph, block) =>
       CompiledAgrees(graph, block) /\ RangesAreSound(graph, block)

=============================================================================
