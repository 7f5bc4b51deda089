-------------------------- MODULE ExpressionParser --------------------------
(***************************************************************************)
(* The parser of expressions (string/expression_parser.rs): operators on a *)
(* stack with a precedence that parentheses raise, calls by recursion, and *)
(* constants folded at the end; and the node of a graph that evaluates the *)
(* tree for its ports (generators/graph/expression_node.rs).               *)
(*                                                                         *)
(* A text is a sequence of tokens, a tree a tuple that begins with its     *)
(* kind.  Numbers are integers and no text divides by a number that folds  *)
(* to 0 (an infinity when folded, 0 when evaluated).  Texts like "(1) 2",  *)
(* which leave an operand over, are not read: assertions panic on them.    *)
(***************************************************************************)
EXTENDS Integers, Sequences, FiniteSets, SequencesExt

Number(n) == <<"number", n>>
Name(x) == <<"name", x>>
Operator(o) == <<"op", o>>
Open == <<"open", "(">>
Close == <<"close", ")">>
Comma == <<"comma", ",">>

Variable(x) == <<"variable", x>>
Operation(o, l, r) == <<"operator", o, l, r>>
Call(f, args) == <<"function", f, args>>

\* the functions the caller registers: their arities
Functions1 == {"abs"}
Functions2 == {"min"}
ArgumentCount(f) == IF f \in Functions1 THEN 1 ELSE 2

MaxPrecedence == 100
OpPrecedence(o) == CASE o \in {"+", "-"} -> 1 [] o \in {"*", "/"} -> 2 [] o = "^" -> 3

-----------------------------------------------------------------------------
(* Parsing.  s: the two stacks, what parentheses add, whether the last     *)
(* token was an operand, the last comma or parenthesis, the place and the  *)
(* error; a run ends early where an argument does.                         *)

Failed(s, error) == [s EXCEPT !.error = error, !.done = TRUE]

PopOperator(s) ==
  LET n == Len(s.operands)
  IN  IF n < 2 THEN Failed(s, "MissingOperandArguments")
      ELSE [s EXCEPT !.operations = Front(@),
                     !.operands = Append(SubSeq(@, 1, n - 2), Operation(Last(s.operations).op, @[n - 1], @[n]))]

RECURSIVE PopFrom(_, _)
PopFrom(s, precedence) ==
  IF s.error = "none" /\ s.operations # <<>> /\ precedence <= Last(s.operations).precedence
  THEN PopFrom(PopOperator(s), precedence) ELSE s

\* Mutant: operators of one precedence bind to the right.
RECURSIVE PopAbove(_, _)
PopAbove(s, precedence) ==
  IF s.error = "none" /\ s.operations # <<>> /\ precedence < Last(s.operations).precedence
  THEN PopAbove(PopOperator(s), precedence) ELSE s
PushOperatorRight(s, o) ==
  LET precedence == s.base + OpPrecedence(o)
      popped == PopAbove(s, precedence)
  IN  IF popped.error # "none" THEN popped
      ELSE [popped EXCEPT !.operations = Append(@, [precedence |-> precedence, op |-> o])]

PushOperator(s, o) ==
  LET precedence == s.base + OpPrecedence(o)
      popped == PopFrom(s, precedence)
  IN  IF popped.error # "none" THEN popped
      ELSE [popped EXCEPT !.operations = Append(@, [precedence |-> precedence, op |-> o])]

PushOperand(s, node) ==
  IF s.previous THEN Failed(s, "MultipleOperands") ELSE [s EXCEPT !.operands = Append(@, node)]

\* an open parenthesis with a variable on the stack is a call of it
IsCall(s) == s.operands # <<>> /\ Last(s.operands)[1] = "variable"

CloseParenthesis(s, inArgumentList) ==
  IF s.base >= MaxPrecedence THEN [s EXCEPT !.base = @ - MaxPrecedence, !.last = Close]
  ELSE IF inArgumentList THEN [s EXCEPT !.last = Close, !.done = TRUE]
  ELSE Failed(s, "UnexpectedToken")

Start(pos) ==
  [operations |-> <<>>, operands |-> <<>>, base |-> 0, previous |-> FALSE, last |-> Open,
   pos |-> pos, error |-> "none", done |-> FALSE]

RECURSIVE Run(_, _, _), ParseFunction(_, _, _, _)

ParseExpression(text, pos, inArgumentList) ==
  LET end == Run(text, inArgumentList, Start(pos))
  IN  IF end.error # "none" THEN end
      ELSE IF end.base # 0 THEN Failed(end, "UnclosedParenthesis")
      ELSE PopFrom(end, 0)

\* a call of f, over the arguments read so far
ParseFunction(text, s, f, args) ==
  IF f \notin Functions1 \cup Functions2 THEN Failed(s, "UnknownFunction")
  ELSE IF Len(args) = ArgumentCount(f)
  THEN IF s.last # Close THEN Failed(s, "TooManyArguments")
       ELSE [s EXCEPT !.operands = Append(Front(@), Call(f, args))]
  ELSE LET arg == ParseExpression(text, s.pos, TRUE)
           next == [s EXCEPT !.pos = arg.pos, !.last = IF arg.last # Open THEN arg.last ELSE @]
       IN  IF arg.error # "none" THEN Failed(s, arg.error)
           ELSE IF arg.operands = <<>> THEN Failed(s, "ExpectedArgument")
           ELSE IF next.last = Close /\ Len(args) + 1 < ArgumentCount(f) THEN Failed(s, "TooFewArguments")
           ELSE ParseFunction(text, next, f, Append(args, Last(arg.operands)))

Step(text, inArgumentList, s) ==
  LET token == text[s.pos]
      s1 == [s EXCEPT !.pos = @ + 1]
      called == ParseFunction(text, [s1 EXCEPT !.last = Open], Last(s.operands)[2], <<>>)
      s2 == CASE token = Comma -> IF inArgumentList THEN [s1 EXCEPT !.last = Comma, !.done = TRUE]
                                  ELSE Failed(s1, "UnexpectedToken")
              [] token[1] = "op" -> PushOperator(s1, token[2])
              [] token[1] = "number" -> PushOperand(s1, token)
              [] token[1] = "name" -> PushOperand(s1, Variable(token[2]))
              [] token = Open -> IF IsCall(s) THEN [called EXCEPT !.last = s.last]
                                 ELSE [s1 EXCEPT !.base = @ + MaxPrecedence]
              [] token = Close -> CloseParenthesis(s1, inArgumentList)
  IN  [s2 EXCEPT !.previous = token[1] \in {"number", "name"}]

Run(text, inArgumentList, s) ==
  IF s.done \/ s.pos > Len(text) THEN s ELSE Run(text, inArgumentList, Step(text, inArgumentList, s))

-----------------------------------------------------------------------------
(* Folding and evaluation.                                                 *)

RECURSIVE PowerOf(_, _)
PowerOf(a, n) == IF n <= 0 THEN 1 ELSE a * PowerOf(a, n - 1)
Apply(o, l, r) ==
  CASE o = "+" -> l + r [] o = "-" -> l - r [] o = "*" -> l * r
    [] o = "/" -> IF r = 0 THEN 0 ELSE IF r > 0 THEN l \div r ELSE (-l) \div (-r)
    [] o = "^" -> PowerOf(l, r)
CallOf(f, values) ==
  IF f = "abs" THEN IF values[1] < 0 THEN -values[1] ELSE values[1]
  ELSE IF values[1] < values[2] THEN values[1] ELSE values[2]

RECURSIVE PrecomputeConstants(_)
PrecomputeConstants(node) ==
  CASE node[1] \in {"number", "variable"} -> node
    [] node[1] = "operator" ->
         LET l == PrecomputeConstants(node[3]) r == PrecomputeConstants(node[4])
         IN  IF l[1] = "number" /\ r[1] = "number" THEN Number(Apply(node[2], l[2], r[2]))
             ELSE Operation(node[2], l, r)
    [] node[1] = "function" ->
         LET args == [i \in DOMAIN node[3] |-> PrecomputeConstants(node[3][i])]
         IN  IF \A i \in DOMAIN args : args[i][1] = "number"
             THEN Number(CallOf(node[2], [i \in DOMAIN args |-> args[i][2]]))
             ELSE Call(node[2], args)

Parse(text) ==
  LET s == ParseExpression(text, 1, FALSE)
  IN  IF s.error # "none" \/ s.operands = <<>> THEN [error |-> s.error, root |-> <<>>]
      ELSE [error |-> "none", root |-> PrecomputeConstants(Last(s.operands))]

\* ports: from each variable to its port; the first of a name counts
RECURSIVE EvalNode(_, _, _)
EvalNode(node, ports, inputs) ==
  CASE node[1] = "number" -> node[2]
    [] node[1] = "variable" ->
         LET named == SelectSeq(ports, LAMBDA p : p.name = node[2])
         IN  IF named = <<>> \/ named[1].port \notin DOMAIN inputs THEN 0 ELSE inputs[named[1].port]
    [] node[1] = "operator" ->
         Apply(node[2], EvalNode(node[3], ports, inputs), EvalNode(node[4], ports, inputs))
    [] node[1] = "function" ->
         CallOf(node[2], [i \in DOMAIN node[3] |-> EvalNode(node[3][i], ports, inputs)])

\* the inputs are listed in the order of the variables
EvaluateSlice(node, ports, slices) ==
  [i \in DOMAIN slices[1] |->
     EvalNode(node, ports, [p \in DOMAIN ports |->
                              IF ports[p].port \in DOMAIN slices THEN slices[ports[p].port][i] ELSE 0])]

RECURSIVE FindVariables(_, _)
FindVariables(node, found) ==
  CASE node[1] = "number" -> found
    [] node[1] = "variable" -> IF node[2] \in ToSet(found) THEN found ELSE Append(found, node[2])
    [] node[1] = "operator" -> FindVariables(node[4], FindVariables(node[3], found))
    [] node[1] = "function" -> FoldLeft(LAMBDA f, a : FindVariables(a, f), found, node[3])

\* tree_to_string: each operation in parentheses
RECURSIVE TreeToString(_)
TreeToString(node) ==
  CASE node[1] = "number" -> <<node>>
    [] node[1] = "variable" -> <<Name(node[2])>>
    [] node[1] = "operator" ->
         <<Open>> \o TreeToString(node[3]) \o <<Operator(node[2])>> \o TreeToString(node[4]) \o <<Close>>
    [] node[1] = "function" ->
         LET args == [i \in DOMAIN node[3] |-> TreeToString(node[3][i])]
         IN  <<Name(node[2]), Open>> \o
             (IF Len(args) = 1 THEN args[1] ELSE args[1] \o <<Comma>> \o args[2]) \o <<Close>>

-----------------------------------------------------------------------------
(* Properties.                                                             *)

\* What a person would write: no parentheses but where precedence, and the order from left
\* to right among equals, asks for them.
RECURSIVE Written(_)
Grouped(child, needed) == IF needed THEN <<Open>> \o Written(child) \o <<Close>> ELSE Written(child)
Written(node) ==
  IF node[1] = "operator"
  THEN LET weaker(c, least) == c[1] = "operator" /\ OpPrecedence(c[2]) < least
           own == OpPrecedence(node[2])
       IN  Grouped(node[3], weaker(node[3], own)) \o <<Operator(node[2])>>
           \o Grouped(node[4], weaker(node[4], own + 1))
  ELSE IF node[1] = "function"
  THEN <<Name(node[2]), Open>> \o Written(node[3][1])
       \o (IF Len(node[3]) = 1 THEN <<>> ELSE <<Comma>> \o Written(node[3][2])) \o <<Close>>
  ELSE TreeToString(node)

RECURSIVE Nodes(_)
Nodes(node) ==
  {node} \cup (CASE node[1] = "operator" -> Nodes(node[3]) \cup Nodes(node[4])
                 [] node[1] = "function" -> UNION {Nodes(node[3][i]) : i \in DOMAIN node[3]}
                 [] OTHER -> {})

\* A group after an operator whose left operand is a bare variable is read as its arguments.
TakenForACall(tree, First(_)) ==
  \E n \in Nodes(tree) : n[1] = "operator" /\ n[3][1] = "variable" /\ First(n) = Open

\* A tree is read back from both forms of its text, but for the groups that are taken for
\* calls, which are refused; without calls, a text with a parenthesis too few is refused
\* (expression_parser.rs: parse, tree_to_string).
WithoutToken(text, i) == SubSeq(text, 1, i - 1) \o SubSeq(text, i + 1, Len(text))
Unbalanced(text) == {WithoutToken(text, i) : i \in {k \in DOMAIN text : text[k] \in {Open, Close}}}
ReadBack(tree) ==
  LET rightOf(n) == IF n[4][1] = "operator" THEN Open ELSE TreeToString(n[4])[1]
      groupOf(n) == Grouped(n[4], n[4][1] = "operator" /\ OpPrecedence(n[4][2]) < OpPrecedence(n[2]) + 1)[1]
      texts == {[text |-> TreeToString(tree), refused |-> TakenForACall(tree, rightOf)],
                [text |-> Written(tree), refused |-> TakenForACall(tree, groupOf)]}
      wrong == IF \E n \in Nodes(tree) : n[1] = "function" THEN {}
               ELSE {[text |-> text, refused |-> TRUE] : text \in Unbalanced(TreeToString(tree))}
  IN  \A given \in texts \cup wrong : \A read \in {Parse(given.text)} :
        IF given.refused THEN read.error # "none" /\ (given \in texts => read.error = "UnknownFunction")
        ELSE read = [error |-> "none", root |-> PrecomputeConstants(tree)]

\* Folding changes no value, slices are evaluated like single inputs where each variable
\* has the port of its place, and the variables found are those that matter.
FoldingKeepsValues(tree, slices) ==
  \A folded \in {PrecomputeConstants(tree)}, found \in {FindVariables(tree, <<>>)} :
    LET ports == [i \in DOMAIN found |-> [name |-> found[i], port |-> i]]
        at(i) == [p \in DOMAIN slices |-> slices[p][i]]
    IN  /\ \A i \in DOMAIN slices[1] : \A value \in {EvalNode(tree, ports, at(i))} :
             EvalNode(folded, ports, at(i)) = value /\ EvaluateSlice(folded, ports, slices)[i] = value
        /\ ToSet(found) = {n[2] : n \in {m \in Nodes(tree) : m[1] = "variable"}}
        /\ IsInjective(found)

ExpressionIsExact(tree) ==
  /\ ReadBack(tree)
  /\ FoldingKeepsValues(tree, <<<<1, -2>>, <<3, 2>>>>)

=============================================================================
