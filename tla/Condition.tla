------------------------------ MODULE Condition ------------------------------
(***************************************************************************)
(* Conditions built from columns with comparisons, &&, || and !, and the   *)
(* query text and parameters they are made into (condition.h).             *)
(*                                                                         *)
(* A query is a sequence of SQL tokens.  The reference is SQL's own        *)
(* grammar: Parsed[<<q, ps>>] is the expression that SQLite makes of       *)
(* query q when its i-th "?" is bound to ps[i].                            *)
(***************************************************************************)
EXTENDS Integers, Sequences, FiniteSets, FiniteSetsExt

CONSTANTS
  Column,     \* the columns that are compared
  MaxAtoms,   \* bound: comparisons in a behaviour
  MaxNots     \* bound: negations in a behaviour

(* The tokens of a query.  The name of a column is in backquotes, so it is  *)
(* none of the others.                                                      *)
Symbols == {"(", ")", "?", "=", "LIKE", "IS", "NULL", "NOT", "BETWEEN",
            "AND", "OR"}
Token == Column \cup Symbols

ASSUME ConditionAssumption ==
  /\ MaxAtoms \in Nat
  /\ MaxNots \in Nat
  /\ Column \cap Symbols = {}

VARIABLES
  stack,   \* the conditions that a C++ expression has evaluated so far, each
           \* with the expression it was written as
  atoms,   \* how many comparisons there were
  params,  \* the parameters given out so far: 1 .. params
  nots     \* how many negations there were

vars == <<stack, atoms, params, nots>>

-----------------------------------------------------------------------------
(* SQL expressions, and how SQLite reads a query.                           *)

Comparison(c, op, args) == <<c, op, args>>
Junction(op, l, r) == <<op, l, r>>
Negation(x) == <<"NOT", x>>

Counted(q, token, i) == Cardinality({j \in 1 .. i : q[j] = token})
Marks(q) == Counted(q, "?", Len(q))
Depth(q, i) == Counted(q, "(", i) - Counted(q, ")", i)

(* The operators AND and OR outside parentheses; BETWEEN takes its own AND. *)
Outside(q, op) ==
  {i \in DOMAIN q : /\ q[i] = op
                    /\ Depth(q, i) = 0
                    /\ ~(i > 2 /\ q[i - 2] = "BETWEEN")}

(* The part of q before and after its last op outside parentheses, each     *)
(* with the parameters of its question marks, as far as there are any.      *)
Split(parsed, q, ps, op) ==
  LET i == Max(Outside(q, op))
      l == SubSeq(q, 1, i - 1)
      n == Min({Marks(l), Len(ps)})
  IN  Junction(op, parsed[<<l, SubSeq(ps, 1, n)>>],
               parsed[<<SubSeq(q, i + 1, Len(q)), SubSeq(ps, n + 1, Len(ps))>>])

(* OR binds less than AND, AND less than NOT, NOT less than a comparison.   *)
Reading(parsed, q, ps) ==
  IF Outside(q, "OR") # {} THEN Split(parsed, q, ps, "OR")
  ELSE IF Outside(q, "AND") # {} THEN Split(parsed, q, ps, "AND")
  ELSE IF q # <<>> /\ Head(q) = "NOT" THEN Negation(parsed[<<Tail(q), ps>>])
  ELSE IF q # <<>> /\ Head(q) = "(" THEN parsed[<<SubSeq(q, 2, Len(q) - 1), ps>>]
  ELSE Comparison(Head(q), Tail(q), ps)

Parsed[x \in Seq(Token) \X Seq(Nat)] == Reading(Parsed, x[1], x[2])

-----------------------------------------------------------------------------
(* partial and condition.                                                   *)

Partial(q, ps) == [query |-> q, params |-> ps]
Empty == Partial(<<>>, <<>>)

AsPartial(c) == Partial(c.lhs.query \o c.op \o c.rhs.query,
                        c.lhs.params \o c.rhs.params)

InParentheses(p) == [p EXCEPT !.query = <<"(">> \o @ \o <<")">>]

(* The operators of col: col::operator==, between, like and the others.     *)
Compare(c, op, right, ps) ==
  [lhs |-> Partial(<<c>>, <<>>), op |-> op, rhs |-> Partial(right, ps)]

(* Only the right operand of AND and OR in parentheses.                     *)
JoinedLeftBare(l, op, r) ==
  [lhs |-> AsPartial(l), op |-> <<op>>, rhs |-> InParentheses(AsPartial(r))]

(* condition::operator&& and condition::operator||                          *)
Joined(l, op, r) ==
  [lhs |-> InParentheses(AsPartial(l)), op |-> <<op>>,
   rhs |-> InParentheses(AsPartial(r))]

(* A negation that keeps only the parameters of the right operand.          *)
NegatedRight(c) ==
  [lhs |-> Empty, op |-> <<"NOT">>,
   rhs |-> Partial(InParentheses(AsPartial(c)).query, c.rhs.params)]

(* condition::operator!                                                     *)
Negated(c) ==
  [lhs |-> Empty, op |-> <<"NOT">>, rhs |-> InParentheses(AsPartial(c))]

-----------------------------------------------------------------------------
(* The evaluation of a C++ expression, operands before their operator.      *)

(* The operators of col, with what they put on the right.  <>, <, <=, >, >= *)
(* and GLOB differ from = and LIKE in their names only.                     *)
Comparisons ==
  { [op |-> <<"=">>, right |-> <<"?">>],
    [op |-> <<"LIKE">>, right |-> <<"?">>],
    [op |-> <<"IS">>, right |-> <<"NULL">>],
    [op |-> <<"IS", "NOT">>, right |-> <<"NULL">>],
    [op |-> <<"BETWEEN">>, right |-> <<"?", "AND", "?">>],
    [op |-> <<"NOT", "BETWEEN">>, right |-> <<"?", "AND", "?">>] }

Init == stack = <<>> /\ atoms = 0 /\ params = 0 /\ nots = 0

Evaluated(cond, means) == [cond |-> cond, means |-> means]
Top == stack[Len(stack)]
Below == stack[Len(stack) - 1]

Compares(c, comparison) ==
  LET n == Marks(comparison.right)
      ps == [i \in 1 .. n |-> params + i]
  IN  /\ atoms < MaxAtoms
      /\ stack' = Append(stack,
           Evaluated(Compare(c, comparison.op, comparison.right, ps),
                     Comparison(c, comparison.op \o comparison.right, ps)))
      /\ atoms' = atoms + 1
      /\ params' = params + n
      /\ UNCHANGED nots

Joins(op) ==
  /\ Len(stack) >= 2
  /\ stack' = Append(SubSeq(stack, 1, Len(stack) - 2),
       Evaluated(Joined(Below.cond, op, Top.cond),
                 Junction(op, Below.means, Top.means)))
  /\ UNCHANGED <<atoms, params, nots>>

Negates ==
  /\ stack # <<>>
  /\ nots < MaxNots
  /\ stack' = [stack EXCEPT ![Len(stack)] =
       Evaluated(Negated(Top.cond), Negation(Top.means))]
  /\ nots' = nots + 1
  /\ UNCHANGED <<atoms, params>>

Next ==
  \/ \E c \in Column : \E comparison \in Comparisons : Compares(c, comparison)
  \/ \E op \in {"AND", "OR"} : Joins(op)
  \/ Negates

Spec == Init /\ [][Next]_vars

-----------------------------------------------------------------------------
(* Every condition has as many parameters as its query has question marks,  *)
(* so bind_db_val() finds each of them and leaves none NULL.                *)
TypeOK ==
  /\ atoms \in 0 .. MaxAtoms
  /\ params \in Nat
  /\ nots \in 0 .. MaxNots
  /\ \A i \in DOMAIN stack :
       LET p == AsPartial(stack[i].cond)
       IN  Len(p.params) = Marks(p.query)

(* SQLite reads the query of a condition as the expression that was written *)
(* in C++, and the parameters go to the comparisons they were given to,     *)
(* however conditions are nested.                                           *)
MeansWhatItSays ==
  \A i \in DOMAIN stack :
    LET p == AsPartial(stack[i].cond)
    IN  Parsed[<<p.query, p.params>>] = stack[i].means
=============================================================================
