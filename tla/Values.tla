------------------------------- MODULE Values -------------------------------
(***************************************************************************)
(* Values, the operand stack that holds them (value_stack.cpp), and the     *)
(* arithmetic of handle_add, handle_sub, handle_mul and handle_div.         *)
(*                                                                         *)
(* Values are strings.  std::stoi is the partial function Stoi: a value     *)
(* outside its domain makes stoi throw (invalid_argument or out_of_range,   *)
(* which the handlers treat alike).  std::to_string is ToStr.  Several      *)
(* values may parse to the same int ("7", "+7", "7up").                     *)
(*                                                                         *)
(* int is the interval IntMin..IntMax.  The build (g++ -g, no -O) wraps on  *)
(* overflow, and its division instruction traps on INT_MIN / -1.            *)
(***************************************************************************)
EXTENDS Integers, Sequences

CONSTANTS Vals, NoValue, IntMax, Stoi, ToStr

IntMin == -IntMax - 1
Ints   == IntMin .. IntMax

ASSUME NoValueAssumption == NoValue \notin Vals
ASSUME IntMaxAssumption  == IntMax \in Nat
ASSUME StoiAssumption ==
  /\ DOMAIN Stoi \subseteq Vals
  /\ \A v \in DOMAIN Stoi : Stoi[v] \in Ints
ASSUME ToStrAssumption ==
  /\ ToStr \in [Ints -> Vals]
  /\ \A i \in Ints : ToStr[i] \in DOMAIN Stoi /\ Stoi[ToStr[i]] = i

(***************************************************************************)
(* ValueStack: the top is the last element of the vector.                  *)
(***************************************************************************)
IsEmpty(s) == s = << >>
Push(s, v) == Append(s, v)
GetTop(s)  == s[Len(s)]
Pop(s)     == SubSeq(s, 1, Len(s) - 1)

(***************************************************************************)
(* Arithmetic.                                                             *)
(***************************************************************************)
ArithOps == {"ADD", "SUB", "MUL", "DIV"}

\* Two's complement wrap of the exact result x.
Wrap(x) == ((x - IntMin) % (2 * (IntMax + 1))) + IntMin

Abs(x) == IF x < 0 THEN -x ELSE x

\* Mutant of TruncDiv: rounds towards minus infinity.
FloorDiv(l, r) ==
  IF (l < 0) = (r < 0) THEN Abs(l) \div Abs(r)
                       ELSE -((Abs(l) + Abs(r) - 1) \div Abs(r))

\* C++ division truncates towards zero.
TruncDiv(l, r) ==
  LET q == Abs(l) \div Abs(r)
  IN  IF (l < 0) = (r < 0) THEN q ELSE -q

Result(op, l, r) == CASE op = "ADD" -> Wrap(l + r)
                      [] op = "SUB" -> Wrap(l - r)
                      [] op = "MUL" -> Wrap(l * r)
                      [] op = "DIV" -> TruncDiv(l, r)

\* Both operands parse, and the divisor is not zero: otherwise the handler
\* throws OperationException after it has popped both.
Computable(op, left, right) ==
  /\ {left, right} \subseteq DOMAIN Stoi
  /\ op = "DIV" => Stoi[right] # 0

\* The division the processor refuses: its quotient is no int.
Traps(op, left, right) ==
  op = "DIV" /\ Stoi[left] = IntMin /\ Stoi[right] = -1
=============================================================================
