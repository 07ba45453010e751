---------------------------- MODULE Expressions ----------------------------
(* python_expression_dsl: the grammar (parser.py), the trees it builds      *)
(* (ast.py), and the visitor that evaluates them (evaluator.py), which keeps*)
(* the object that a dotted name has led to while it visits the rest.       *)
(*                                                                          *)
(* An expression is a sequence of tokens, and a value is a name for an      *)
(* object or the operation on values that gives it: what numbers come to is *)
(* left out.  Both a tree and a value are [op, args].                       *)
EXTENDS Integers, Sequences, FiniteSets
LOCAL INSTANCE FiniteSetsExt
LOCAL INSTANCE SequencesExt

CONSTANTS
  Scripts,    \* the expressions there are
  Contexts,   \* what names mean: a set of functions from names to values
  Fields,     \* the attributes of those values that are objects
  Unsafe,     \* the functions of classes that are not safe
  Builtins    \* BUILTIN_FUNCTIONS

VARIABLES
  script,     \* the expression that is evaluated, again and again
  scope,      \* _current_scope
  rooted,     \* whether there is a _root_dot_node
  result,     \* of the last evaluation, with its context
  erred      \* history: an evaluation has raised

dslVars == <<script, scope, rooted, result, erred>>

Node(op, args) == [op |-> op, args |-> args]
Leaf(t) == Node(t, <<>>)
Nowhere == Leaf("None")

RECURSIVE Parts(_)
Parts(tree) == {tree} \cup UNION {Parts(tree.args[i]) : i \in DOMAIN tree.args}

-----------------------------------------------------------------------------
(* The grammar, from what binds least to what binds most.  What an operator *)
(* gives is the tree and the place behind it, which is 0 if nothing matches.*)

Infix == <<{"or"}, {"and"}, {}, {"<", "==", "in"}, {"+", "-"}, {"*", "/"}, {"**"}>>
Inversion == 3
Power == 7
Atom == 8
Keywords == {"not", "(", ")", "[", "]", ".", ","} \cup UNION {Infix[k] : k \in 1..Power}
IsName(t) == t \notin Keywords /\ t \notin {"1", "2"}

TokenAt(s, i) == IF i \in DOMAIN s THEN s[i] ELSE "end"
Match(tree, next) == [tree |-> tree, next |-> next]
NoMatch == Match(Nowhere, 0)

RECURSIVE Parsed(_, _, _), More(_, _, _), Arguments(_, _)

\* ZeroOrMore(operator + operand), with _parse_binary_expression.
More(k, s, left) ==
  IF TokenAt(s, left.next) \notin Infix[k] THEN left
  ELSE LET right == Parsed(IF k = Power THEN Power ELSE k + 1, s, left.next + 1)
       IN IF right.next = 0 THEN left
          ELSE More(k, s, Match(Node(s[left.next], <<left.tree, right.tree>>), right.next))

\* `.` and an expression -- any expression -- as often as there is one.
RECURSIVE Dotted(_, _)
Dotted(s, m) ==
  IF TokenAt(s, m.next) # "." THEN m
  ELSE LET e == Parsed(1, s, m.next + 1)
       IN IF e.next = 0 THEN m ELSE Dotted(s, Match(Node(".", Append(m.tree.args, e.tree)), e.next))

\* The arguments of a call, whose commas may be left out, as a list.
Arguments(s, m) ==
  LET e == Parsed(1, s, IF TokenAt(s, m.next) = "," /\ m.tree.args # <<>> THEN m.next + 1 ELSE m.next)
  IN IF e.next = 0 THEN m ELSE Arguments(s, Match(Node("()", Append(m.tree.args, e.tree)), e.next))

Closed(m, s, bracket, tree) == IF m.next # 0 /\ TokenAt(s, m.next) = bracket THEN Match(tree, m.next + 1) ELSE NoMatch

\* The alternatives of an atom, in their order.  A name alone is a dotted name.
Alternatives(s, i) ==
  LET t == TokenAt(s, i)
      inside == Parsed(1, s, i + 2)
      call == Arguments(s, Match(Node("()", <<>>), i + 2))
      group == Parsed(1, s, i + 1)
  IN IF t = "end" THEN <<>>
     ELSE IF t = "(" THEN <<Closed(group, s, ")", group.tree)>>
     ELSE IF t \in {"1", "2"} THEN <<Match(Leaf(t), i + 1)>>
     ELSE IF ~IsName(t) THEN <<>>
     ELSE <<IF TokenAt(s, i + 1) = "[" THEN Closed(inside, s, "]", Node("[]", <<Leaf(t), inside.tree>>)) ELSE NoMatch,
            IF TokenAt(s, i + 1) = "(" THEN Closed(call, s, ")", Node("()", <<Leaf(t)>> \o call.tree.args)) ELSE NoMatch,
            Dotted(s, Match(Node(".", <<Leaf(t)>>), i + 1))>>

FirstMatch(ms) == LET good == SelectSeq(ms, LAMBDA m : m.next # 0) IN IF good = <<>> THEN NoMatch ELSE Head(good)

\* _parse_unary_expression
Prefixed(op, sub) == IF sub.next = 0 THEN sub ELSE Match(Node(op, <<sub.tree>>), sub.next)

Parsed(k, s, i) ==
  CASE k = Inversion -> IF TokenAt(s, i) = "not" THEN Prefixed("not", Parsed(k, s, i + 1)) ELSE Parsed(k + 1, s, i)
    [] k = Atom -> IF TokenAt(s, i) = "-" THEN Prefixed("neg", Parsed(k, s, i + 1)) ELSE FirstMatch(Alternatives(s, i))
    [] OTHER -> LET left == Parsed(k + 1, s, i) IN IF left.next = 0 THEN left ELSE More(k, s, left)

\* parse: all of it
Parse(s) == LET m == Parsed(1, s, 1) IN IF m.next = Len(s) + 1 THEN m ELSE NoMatch

-----------------------------------------------------------------------------
(* The visitor.  A visit gives a value, and where it leaves the visitor.    *)

Visit(value, where, root) == [raised |-> FALSE, value |-> value, scope |-> where, rooted |-> root]
Raised(where, root) == [raised |-> TRUE, value |-> Nowhere, scope |-> where, rooted |-> root]

Has(object, t) == object.op \in DOMAIN Fields /\ t \in DOMAIN Fields[object.op]

\* visit(Identifier): the current scope, if there is one, instead of the context.  An
\* object that is None is no scope.
Looked(t, context, where, root) ==
  IF where = Nowhere
  THEN IF t \in Builtins THEN Visit(Leaf(t), where, root)
       ELSE IF t \in DOMAIN context THEN Visit(context[t], where, root) ELSE Raised(where, root)
  ELSE IF Has(where, t) THEN Visit(Fields[where.op][t], where, root) ELSE Raised(where, root)

\* True and False, and what has one of them for its value.
IsTruth(v) == v.op \in {"True", "False", "not", "and", "or"} \cup Infix[4]

\* What has bits: truth values and whole numbers.
HasBits(v) ==
  IsTruth(v) \/ \A p \in Parts(v) : IsTruth(p) \/ p.op \in {"1", "2", "+", "-", "*", "**", "neg", "bits"}

\* What is done with the values of the parts.  The functions for `and` and `or` are
\* operator.and_ and operator.or_, which combine bits.
Result(op, values) ==
  CASE op = "()" /\ values[1].op \in Unsafe -> Raised(Nowhere, FALSE)
    [] op \in {"and", "or"} /\ ~(IsTruth(values[1]) /\ IsTruth(values[2])) ->
         IF HasBits(values[1]) /\ HasBits(values[2]) THEN Visit(Node("bits", <<Node(op, values)>>), Nowhere, FALSE)
         ELSE Raised(Nowhere, FALSE)
    [] OTHER -> Visit(Node(op, values), Nowhere, FALSE)

\* Mutant of Forgets: none does.
NeverForgets(before, after) == after

\* Only the outermost dotted name forgets where it has been.
Forgets(before, after) == IF before THEN after ELSE Visit(after.value, Nowhere, FALSE)

RECURSIVE Accept(_, _, _, _), AcceptAll(_, _, _, _, _)
AcceptAll(trees, context, v, values, dotted) ==
  IF trees = <<>> THEN [visit |-> v, values |-> values]
  ELSE LET n == Accept(Head(trees), context, v.scope, v.rooted)
       IN IF n.raised THEN [visit |-> n, values |-> values]
          ELSE AcceptAll(Tail(trees), context, IF dotted THEN [n EXCEPT !.scope = n.value] ELSE n,
                         Append(values, n.value), dotted)

Accept(tree, context, where, root) ==
  IF tree.op = "."
  THEN LET all == AcceptAll(tree.args, context, Visit(Nowhere, where, TRUE), <<>>, TRUE)
       IN IF all.visit.raised THEN all.visit ELSE Forgets(root, all.visit)
  ELSE IF tree.args = <<>>
  THEN IF tree.op \in {"1", "2"} THEN Visit(tree, where, root) ELSE Looked(tree.op, context, where, root)
  ELSE LET all == AcceptAll(tree.args, context, Visit(Nowhere, where, root), <<>>, FALSE)
           r == Result(tree.op, all.values)
       IN IF all.visit.raised THEN all.visit
          ELSE [r EXCEPT !.scope = all.visit.scope, !.rooted = all.visit.rooted]

\* DSLEvaluator.evaluate puts the context and the safe classes back, whatever
\* happens, but not the scope and the root.
Evaluate(context) ==
  LET m == Parse(script)
      v == Accept(m.tree, context, scope, rooted)
  IN /\ m.next # 0
     /\ scope' = v.scope /\ rooted' = v.rooted
     /\ erred' = (erred \/ v.raised)
     /\ result' = [done |-> TRUE, raised |-> v.raised, value |-> v.value, context |-> context, late |-> erred]
     /\ UNCHANGED script

NoResult == [done |-> FALSE, raised |-> FALSE, value |-> Nowhere, context |-> <<>>, late |-> FALSE]

DslInit ==
  /\ script \in Scripts
  /\ scope = Nowhere /\ rooted = FALSE /\ erred = FALSE
  /\ result = NoResult

DslNext == \E context \in Contexts : Evaluate(context)

DslSpec == DslInit /\ [][DslNext]_dslVars

-----------------------------------------------------------------------------
(* What Python makes of the same tokens: an expression is split where the   *)
(* operator stands that is applied last.                                    *)

Nested(s, i) == Cardinality({j \in 1..i : s[j] \in {"(", "["}}) - Cardinality({j \in 1..(i - 1) : s[j] \in {")", "]"}})
Joins(s, k) == {i \in DOMAIN s : i > 1 /\ Nested(s, i) = 0 /\ s[i] \in Infix[k]
                                 /\ (s[i - 1] \in {"1", "2", ")", "]"} \/ IsName(s[i - 1]))}
Opens(s) == CHOOSE i \in DOMAIN s : s[i] \in {"(", "["} /\ \A j \in i..Len(s) : Nested(s, j) > 0

RECURSIVE Python(_, _)
Python(k, s) ==
  IF k = Inversion
  THEN IF s[1] = "not" THEN Node("not", <<Python(k, Tail(s))>>) ELSE Python(k + 1, s)
  ELSE IF k <= Power /\ Joins(s, k) # {} /\ (k = Power => s[1] # "-")
  THEN LET at == IF k = Power THEN Min(Joins(s, k)) ELSE Max(Joins(s, k))
           tree == Node(s[at], <<Python(IF k = Power THEN Power + 1 ELSE k, SubSeq(s, 1, at - 1)),
                                 Python(IF k = Power THEN Power ELSE k + 1, SubSeq(s, at + 1, Len(s)))>>)
       IN IF Infix[k] = Infix[4] /\ Cardinality(Joins(s, k)) > 1 THEN Node("chain", <<tree>>) ELSE tree
  ELSE IF k < Power THEN Python(k + 1, s)
  ELSE IF s[1] = "-" THEN Node("neg", <<Python(Power, Tail(s))>>)
  ELSE IF Len(s) = 1 THEN Leaf(s[1])
  ELSE IF s[Len(s) - 1] = "."
  THEN Node(".", <<Python(Atom, SubSeq(s, 1, Len(s) - 2)), Leaf(s[Len(s)])>>)
  ELSE LET i == Opens(s)
           inner == SubSeq(s, i + 1, Len(s) - 1)
       IN IF i = 1 THEN Python(1, inner)
          ELSE Node(IF s[i] = "[" THEN "[]" ELSE "()",
                    <<Python(Atom, SubSeq(s, 1, i - 1))>> \o IF inner = <<>> THEN <<>> ELSE <<Python(1, inner)>>)

\* `x and y` is y or x, as x is true or not, and `x or y` is x or y: y is evaluated only
\* if it is the value, so whether an exception of y is raised depends on x.
Connected(op, x, y) ==
  IF x.raised THEN Raised(Nowhere, FALSE)
  ELSE Visit(IF y.raised THEN Node("perhaps", <<Leaf(op), x.value>>) ELSE Node(op, <<x.value, y.value>>), Nowhere, FALSE)

RECURSIVE Meaning(_, _)
Meaning(tree, context) ==
  LET parts == [i \in DOMAIN tree.args |-> Meaning(tree.args[i], context)]
      object == Meaning(tree.args[1], context)
  IN IF tree.op = "."
     THEN IF ~object.raised /\ Has(object.value, tree.args[2].op)
          THEN Visit(Fields[object.value.op][tree.args[2].op], Nowhere, FALSE) ELSE Raised(Nowhere, FALSE)
     ELSE IF tree.args = <<>>
     THEN IF tree.op \in {"1", "2"} THEN Visit(tree, Nowhere, FALSE) ELSE Looked(tree.op, context, Nowhere, FALSE)
     ELSE IF tree.op \in {"and", "or"} THEN Connected(tree.op, parts[1], parts[2])
     ELSE IF \E i \in DOMAIN parts : parts[i].raised THEN Raised(Nowhere, FALSE)
     ELSE Result(tree.op, [i \in DOMAIN parts |-> parts[i].value])

\* Where the language is not Python's: what follows a dot, up to the bracket that
\* ends it, belongs to the object before it; comparisons are not chained; and the
\* sign belongs to the base of a power.
Reach(s, i) == {j \in (i + 1)..Len(s) : \A m \in (i + 1)..j : Nested(s, m) >= Nested(s, i)}
Swallows(s) ==
  \E i \in DOMAIN s : s[i] = "." /\ \E j \in Reach(s, i) :
    \/ IsName(s[j]) /\ s[j - 1] # "."
    \/ \E k \in 1..Power : s[j] \in Infix[k] /\ \E h \in 1..(i - 1) : s[h] \in {"-", "not"} \cup UNION {Infix[l] : l \in 1..Power}
Differs(s) ==
  \/ Swallows(s)
  \/ \E tree \in Parts(Python(1, s)) : tree.op = "chain" \/ (tree.op = "neg" /\ tree.args[1].op = "**")

\* Where a value makes the difference: `and` and `or` of something else than two truth
\* values, or with a second part that raises when the first does not; and the
\* attribute of None, instead of which the name is looked up in the context.
DiffersHere(s, context) ==
  LET value(tree) == Meaning(tree, context)
  IN \E tree \in Parts(Python(1, s)) :
       \/ /\ tree.op \in {"and", "or"}
          /\ ~value(tree.args[1]).raised
          /\ \E i \in 1..2 : value(tree.args[i]).raised \/ ~IsTruth(value(tree.args[i]).value)
       \/ /\ tree.op = "."
          /\ ~value(tree.args[1]).raised /\ value(tree.args[1]).value = Nowhere
          /\ tree.args[2].op \in DOMAIN context \cup Builtins

\* python_expression_dsl: whatever expression it accepts means what it means in
\* Python, and every evaluation begins anew, however often the evaluator is used
\* and with whatever context.  The exceptions are the differences above, those of the
\* grammar (Differs) and those of the values (DiffersHere), and every evaluation after
\* one that raised: it leaves its scope and its root behind.  (A function that is not
\* safe is taken to raise in Python too.)
MeansWhatPythonSays ==
  result.done /\ ~result.late /\ ~Differs(script) /\ ~DiffersHere(script, result.context)
  => LET meant == Meaning(Python(1, script), result.context)
     IN result.raised = meant.raised /\ result.value = meant.value
=============================================================================
