---------------------------- MODULE Values_proofs ----------------------------
(***************************************************************************)
(* Lemmas about the operators of Values: the stack operations stay within   *)
(* Seq(Vals), and every result the handlers compute is an int.              *)
(***************************************************************************)
EXTENDS Values, TLAPS, SequenceTheorems

\* The remainder of a positive modulus.
LEMMA ModRange ==
  ASSUME NEW a \in Int, NEW b \in Int, b > 0
  PROVE  a % b \in 0 .. b - 1
BY Z3

\* Division of naturals by a positive number.
LEMMA DivRange ==
  ASSUME NEW a \in Nat, NEW b \in Nat, b > 0
  PROVE  /\ a \div b \in Nat
         /\ (a \div b) * b <= a
BY Z3

\* Division with remainder by a positive number.
LEMMA DivMod ==
  ASSUME NEW a \in Int, NEW b \in Int, b > 0
  PROVE  /\ a \div b \in Int
         /\ a % b = a - b * (a \div b)
         /\ b * (a \div b) <= a /\ a < b * (a \div b) + b
<1>1. a \div b \in Int /\ b * (a \div b) <= a /\ a < b * (a \div b) + b
  BY SMT
<1>2. a % b = a - b * (a \div b)
  BY SMT
<1> QED
  BY <1>1, <1>2

\* A multiple leaves no remainder.
LEMMA MultipleMod ==
  ASSUME NEW z \in Int, NEW b \in Int, b > 0
  PROVE  (b * z) % b = 0
BY Z3

\* A result that is an int is stored as it is.
LEMMA WrapInRange ==
  ASSUME NEW x \in Ints
  PROVE  Wrap(x) = x
<1>1. \A a, b \in Int : 0 <= a /\ a < b => a % b = a
  BY Z3
<1>2. IntMax \in Nat /\ IntMin \in Int /\ x \in Int
  BY IntMaxAssumption DEF Ints, IntMin
<1>3. 0 <= x - IntMin /\ x - IntMin < 2 * (IntMax + 1)
  BY <1>2 DEF Ints, IntMin
<1>4. (x - IntMin) % (2 * (IntMax + 1)) = x - IntMin
  BY <1>1, <1>2, <1>3
<1> QED
  BY <1>2, <1>4 DEF Wrap

\* What is stored differs from the exact result by a multiple of int's width.
LEMMA WrapExact ==
  ASSUME NEW x \in Int
  PROVE  (Wrap(x) - x) % (2 * (IntMax + 1)) = 0
<1> DEFINE w == 2 * (IntMax + 1)
           y == x - IntMin
           q == y \div w
<1>1. w \in Int /\ w > 0 /\ y \in Int /\ IntMin \in Int
  BY IntMaxAssumption DEF IntMin
<1>2. Wrap(x) = (y % w) + IntMin /\ x = y + IntMin
  BY <1>1 DEF Wrap
<1> HIDE DEF w, y
<1>3. q \in Int /\ y % w = y - w * q
  BY <1>1, DivMod
<1> HIDE DEF q
<1>4. Wrap(x) - x = w * (-q)
  BY <1>1, <1>2, <1>3
<1>5. (w * (-q)) % w = 0
  BY <1>1, <1>3, MultipleMod
<1> QED
  BY <1>4, <1>5 DEF w

\* The quotient truncates: what it leaves is smaller than the divisor and has
\* the sign of the left operand.
LEMMA TruncDivExact ==
  ASSUME NEW l \in Int, NEW r \in Int, r # 0
  PROVE  /\ TruncDiv(l, r) \in Int
         /\ Abs(l - TruncDiv(l, r) * r) < Abs(r)
         /\ (l - TruncDiv(l, r) * r) * l >= 0
<1> DEFINE a == Abs(l)
           b == Abs(r)
           q == a \div b
           x == TruncDiv(l, r)
           p == b * q
<1>1. a \in Int /\ b \in Int /\ b > 0
  BY DEF Abs
<1>2. q \in Int /\ p <= a /\ a < p + b
  <2> HIDE DEF a, b
  <2> QED BY <1>1, DivMod
<1>3. x = IF (l < 0) = (r < 0) THEN q ELSE -q
  BY DEF TruncDiv
<1> HIDE DEF x, q
<1>4. x \in Int /\ p \in Int /\ x * r = IF l < 0 THEN -p ELSE p
  <2>1. CASE r < 0
    BY <1>2, <1>3, <2>1 DEF Abs
  <2>2. CASE r > 0
    BY <1>2, <1>3, <2>2 DEF Abs
  <2> QED
    BY <2>1, <2>2
<1>5. CASE l < 0
  <2>1. a = -l /\ l - x * r = -(a - p)
    BY <1>1, <1>4, <1>5 DEF Abs
  <2> DEFINE d == a - p
  <2>2. d \in Int /\ 0 <= d /\ d < b /\ l - x * r = -d
    BY <1>1, <1>2, <1>4, <2>1
  <2> HIDE DEF d, b, a, p
  <2>3. Abs(l - x * r) < b
    BY <1>1, <2>2 DEF Abs
  <2>4. (l - x * r) * l >= 0
    BY <1>5, <2>2
  <2> QED
    BY <1>4, <2>3, <2>4 DEF x, b
<1>6. CASE l >= 0
  <2>1. a = l /\ l - x * r = a - p
    BY <1>1, <1>4, <1>6 DEF Abs
  <2> DEFINE d == a - p
  <2>2. d \in Int /\ 0 <= d /\ d < b /\ l - x * r = d
    BY <1>1, <1>2, <1>4, <2>1
  <2> HIDE DEF d, b, a, p
  <2>3. Abs(l - x * r) < b
    BY <1>1, <2>2 DEF Abs
  <2>4. (l - x * r) * l >= 0
    BY <1>6, <2>2
  <2> QED
    BY <1>4, <2>3, <2>4 DEF x, b
<1> QED
  BY <1>5, <1>6

\* Whatever the exact result, what is stored fits an int.
LEMMA WrapInt ==
  ASSUME NEW x \in Int
  PROVE  Wrap(x) \in Ints
<1>1. IntMax \in Nat
  BY IntMaxAssumption
<1>2. (x - IntMin) % (2 * (IntMax + 1)) \in 0 .. 2 * (IntMax + 1) - 1
  BY <1>1, ModRange DEF IntMin
<1> QED
  BY <1>1, <1>2 DEF Wrap, Ints, IntMin

\* A quotient is an int unless the division traps.
LEMMA TruncDivInt ==
  ASSUME NEW l \in Ints, NEW r \in Ints, r # 0, ~(l = IntMin /\ r = -1)
  PROVE  TruncDiv(l, r) \in Ints
<1> DEFINE a == Abs(l)
           b == Abs(r)
           q == a \div b
<1>1. IntMax \in Nat
  BY IntMaxAssumption
<1>2. a \in Nat /\ b \in Nat /\ b > 0 /\ a <= IntMax + 1
  BY <1>1 DEF Abs, Ints, IntMin
<1>3. q \in Nat /\ q * b <= a
  BY <1>2, DivRange
<1>4. q <= a
  <2> HIDE DEF q, a, b
  <2> QED BY <1>2, <1>3
<1>5. CASE (l < 0) = (r < 0)
  <2>1. q <= IntMax
    <3>1. CASE a <= IntMax
      <4> HIDE DEF q
      <4> QED BY <1>1, <1>2, <1>3, <1>4, <3>1
    <3>2. CASE a = IntMax + 1
      <4>1. l = IntMin /\ r < 0
        BY <1>1, <1>5, <3>2 DEF Abs, Ints, IntMin
      <4>2. b >= 2
        BY <1>1, <4>1 DEF Abs, Ints, IntMin
      <4>3. 2 * q <= a
        <5> HIDE DEF q, a, b
        <5> QED BY <1>2, <1>3, <4>2
      <4>4. a >= 2
        BY <1>1, <4>1, <4>2 DEF Abs, Ints, IntMin
      <4> HIDE DEF q, a, b
      <4> QED BY <1>1, <1>2, <1>3, <3>2, <4>3, <4>4
    <3> HIDE DEF q, a, b
    <3> QED BY <1>1, <1>2, <3>1, <3>2
  <2>2. TruncDiv(l, r) = q
    BY <1>5 DEF TruncDiv
  <2> HIDE DEF q
  <2> QED BY <1>1, <1>3, <2>1, <2>2 DEF Ints, IntMin
<1>6. CASE (l < 0) # (r < 0)
  <2>1. TruncDiv(l, r) = -q
    BY <1>6 DEF TruncDiv
  <2> HIDE DEF q, a, b
  <2> QED BY <1>1, <1>2, <1>3, <1>4, <2>1 DEF Ints, IntMin
<1> QED
  BY <1>5, <1>6

\* handle_add, handle_sub, handle_mul and handle_div push the numeral of an
\* int whenever they get past their checks and the division does not trap.
LEMMA ResultInt ==
  ASSUME NEW op \in ArithOps, NEW left, NEW right,
         Computable(op, left, right), ~Traps(op, left, right)
  PROVE  Result(op, Stoi[left], Stoi[right]) \in Ints
<1> DEFINE l == Stoi[left]
           r == Stoi[right]
<1>1. l \in Ints /\ r \in Ints
  BY StoiAssumption DEF Computable
<1>2. l \in Int /\ r \in Int
  BY <1>1, IntMaxAssumption DEF Ints, IntMin
<1>3. CASE op = "ADD"
  BY <1>2, <1>3, WrapInt DEF Result
<1>4. CASE op = "SUB"
  BY <1>2, <1>4, WrapInt DEF Result
<1>5. CASE op = "MUL"
  BY <1>2, <1>5, WrapInt DEF Result
<1>6. CASE op = "DIV"
  BY <1>1, <1>6, TruncDivInt DEF Result, Computable, Traps
<1> QED
  BY <1>3, <1>4, <1>5, <1>6 DEF ArithOps

\* A non-empty stack has a top, and a stack under it.
LEMMA StackTop ==
  ASSUME NEW s \in Seq(Vals), Len(s) > 0
  PROVE  /\ GetTop(s) \in Vals
         /\ Pop(s) \in Seq(Vals)
         /\ Len(Pop(s)) = Len(s) - 1
<1>1. Len(s) \in Nat
  BY LenProperties
<1>2. s[Len(s)] \in Vals
  BY <1>1, ElementOfSeq
<1> DEFINE n == Len(s) - 1
<1>3. n \in Int /\ 1 \in Int
  BY <1>1
<1>4. \A i \in 1 .. n : s[i] \in Vals
  BY <1>1, ElementOfSeq
<1>5. SubSeq(s, 1, n) \in Seq(Vals)
  <2> HIDE DEF n
  <2> QED BY <1>3, <1>4, SubSeqProperties, Zenon
<1>6. Len(SubSeq(s, 1, n)) = n
  <2>1. n >= 0
    BY <1>1
  <2> HIDE DEF n
  <2> QED BY <1>3, <1>5, <2>1, SMT
<1> QED
  BY <1>2, <1>5, <1>6 DEF GetTop, Pop

\* Pushing a value keeps a stack a stack.
LEMMA StackPush ==
  ASSUME NEW s \in Seq(Vals), NEW v \in Vals
  PROVE  Push(s, v) \in Seq(Vals)
BY DEF Push

\* The arithmetic handlers replace the two top values, left being the one
\* under the top, and leave the rest of the stack alone.
LEMMA StackTwo ==
  ASSUME NEW s \in Seq(Vals), Len(s) >= 2, NEW v \in Vals
  PROVE  /\ GetTop(s) = s[Len(s)]
         /\ GetTop(Pop(s)) = s[Len(s) - 1]
         /\ Len(Push(Pop(Pop(s)), v)) = Len(s) - 1
         /\ \A i \in 1 .. Len(s) - 2 : Push(Pop(Pop(s)), v)[i] = s[i]
         /\ Push(Pop(Pop(s)), v)[Len(s) - 1] = v
<1> DEFINE s1 == Pop(s)
           s2 == Pop(s1)
           n == Len(s)
<1>1. n \in Nat
  BY LenProperties
<1>2. s1 \in Seq(Vals) /\ Len(s1) = n - 1
  BY StackTop
<1>3. \A i \in 1 .. n - 1 : s1[i] = s[i]
  BY <1>1, SubSeqProperties DEF Pop
<1>4. s2 \in Seq(Vals) /\ Len(s2) = n - 2
  <2> HIDE DEF s1
  <2> QED BY <1>1, <1>2, StackTop DEF s2
<1>5. \A i \in 1 .. n - 2 : s2[i] = s1[i]
  <2> HIDE DEF s1
  <2> QED BY <1>1, <1>2, SubSeqProperties DEF Pop, s2
<1>6. GetTop(s1) = s[n - 1]
  <2> HIDE DEF s1
  <2> QED BY <1>1, <1>2, <1>3 DEF GetTop
<1>7. /\ Len(Append(s2, v)) = n - 1
      /\ \A i \in 1 .. n - 2 : Append(s2, v)[i] = s2[i]
      /\ Append(s2, v)[n - 1] = v
  <2> HIDE DEF s2
  <2> QED BY <1>1, <1>4, AppendProperties
<1> HIDE DEF s2
<1>8. \A i \in 1 .. n - 2 : s2[i] = s[i]
  BY <1>1, <1>3, <1>5
<1> QED
  BY <1>6, <1>7, <1>8 DEF Push, GetTop, s2
=============================================================================
