----------------------------- MODULE Codec_proofs -----------------------------
(***************************************************************************)
(* encode and decode, for all messages and all lines.                       *)
(*                                                                         *)
(* The words of a text and the concatenation of the arguments are defined   *)
(* by recursion.  Induction is done here with sets: a set of sequences that *)
(* contains the empty one, and with each also those longer by one, contains *)
(* them all.                                                               *)
(***************************************************************************)
EXTENDS Codec, SequenceTheorems, WellFoundedInduction, TLAPS

Symbols == Words \cup White \cup {"newline"}
Texts   == Seq(Symbols)

Messages == [type : Types \cup {"NONE"}, args : Seq(Texts)]

\* Two words are not two words unless there is white space between them.
Apart(s) == \A i \in 1 .. Len(s) - 1 : ~(s[i] \in Words /\ s[i + 1] \in Words)

CodecInv == msg \in Messages /\ line \in Texts /\ Apart(line)

-----------------------------------------------------------------------------
(***************************************************************************)
(* Induction and recursion.                                                *)
(***************************************************************************)

\* Every set of numbers that is not empty has a least one.
LEMMA Least ==
  ASSUME NEW T \in SUBSET Nat, T # {}
  PROVE  \E x \in T : \A y \in T : x <= y
<1> DEFINE R == {r \in Nat \X Nat : r[1] < r[2]}
<1>1. R = OpToRel(<, Nat)
  BY DEF OpToRel
<1>2. IsWellFoundedOn(R, Nat)
  BY <1>1, NatLessThanWellFounded
<1>3. PICK x \in T : \A y \in T : <<y, x>> \notin R
  <2> HIDE DEF R
  <2> QED
    BY <1>2, WFMin
<1>4. \A y \in T : ~(y < x)
  <2> TAKE y \in T
  <2>1. <<y, x>> \in Nat \X Nat /\ <<y, x>>[1] = y /\ <<y, x>>[2] = x
    OBVIOUS
  <2> QED
    BY <1>3, <2>1
<1> QED
  BY <1>4

\* Induction over the numbers up to N.
LEMMA UpTo ==
  ASSUME NEW N \in Nat, NEW P \in SUBSET (0 .. N),
         0 \in P, \A n \in 1 .. N : n - 1 \in P => n \in P
  PROVE  P = 0 .. N
<1> SUFFICES ASSUME (0 .. N) \ P # {} PROVE FALSE
  OBVIOUS
<1> DEFINE Q == (0 .. N) \ P
<1>q. Q \in SUBSET Nat /\ Q # {}
  OBVIOUS
<1> HIDE DEF Q
<1>1. PICK n \in Q : \A m \in Q : n <= m
  BY <1>q, Least
<1> USE DEF Q
<1>2. n \in 1 .. N /\ n - 1 \in 0 .. N /\ ~(n <= n - 1)
  BY <1>1
<1> QED
  BY <1>1, <1>2

\* Induction over sequences.
LEMMA Growing ==
  ASSUME NEW S, NEW P \in SUBSET Seq(S), << >> \in P,
         \A s \in P, x \in S : Append(s, x) \in P
  PROVE  P = Seq(S)
<1> SUFFICES ASSUME NEW s \in Seq(S) PROVE s \in P
  OBVIOUS
<1> DEFINE Q == {n \in 0 .. Len(s) : \A t \in Seq(S) : Len(t) = n => t \in P}
<1>1. Len(s) \in Nat
  BY LenProperties
<1>2. 0 \in Q
  BY <1>1, EmptySeq
<1>3. ASSUME NEW n \in 1 .. Len(s), n - 1 \in Q PROVE n \in Q
  <2> SUFFICES ASSUME NEW t \in Seq(S), Len(t) = n PROVE t \in P
    BY <1>1
  <2>1. t # << >>
    BY <1>1, EmptySeq
  <2>2. PICK u \in Seq(S), x \in S : t = Append(u, x)
    BY <2>1, SequenceEmptyOrAppend
  <2>3. Len(u) = n - 1
    <3>1. Len(Append(u, x)) = Len(u) + 1
      BY AppendProperties
    <3>2. Len(u) \in Nat
      BY LenProperties
    <3>3. n = Len(u) + 1
      BY <2>2, <3>1
    <3> QED
      BY <3>2, <3>3
  <2> QED
    BY <1>3, <2>2, <2>3
<1> HIDE DEF Q
<1>4. Q \in SUBSET (0 .. Len(s))
  BY DEF Q
<1>5. Q = 0 .. Len(s)
  BY <1>1, <1>2, <1>3, <1>4, UpTo
<1>6. Len(s) \in Q
  BY <1>1, <1>5
<1> QED
  BY <1>6 DEF Q

\* A function is defined by its first value and a step.
LEMMA Recursion ==
  ASSUME NEW S, NEW a \in S, NEW N \in Nat, NEW step \in [1 .. N -> [S -> S]]
  PROVE  \E f \in [0 .. N -> S] :
            f[0] = a /\ \A n \in 1 .. N : f[n] = step[n][f[n - 1]]
<1> DEFINE Steps(f, m) == f[0] = a /\ \A n \in 1 .. m : f[n] = step[n][f[n - 1]]
           Some(m) == \E f \in [0 .. m -> S] : Steps(f, m)
           Q == {m \in 0 .. N : Some(m)}
<1>1. Some(0)
  <2> DEFINE f == [i \in 0 .. 0 |-> a]
  <2>1. f \in [0 .. 0 -> S] /\ f[0] = a
    OBVIOUS
  <2>2. \A n \in 1 .. 0 : f[n] = step[n][f[n - 1]]
    OBVIOUS
  <2> HIDE DEF f
  <2> QED
    BY <2>1, <2>2
<1>2. ASSUME NEW m \in 1 .. N, Some(m - 1) PROVE Some(m)
  <2>1. PICK f \in [0 .. m - 1 -> S] : Steps(f, m - 1)
    BY <1>2
  <2> DEFINE g == [i \in 0 .. m |-> IF i = m THEN step[m][f[m - 1]] ELSE f[i]]
  <2>2. step[m][f[m - 1]] \in S
    OBVIOUS
  <2>3. g \in [0 .. m -> S]
    BY <2>2
  <2>4. g[0] = a
    BY <2>1
  <2>5. ASSUME NEW n \in 1 .. m PROVE g[n] = step[n][g[n - 1]]
    <3>1. n \in 0 .. m /\ n - 1 \in 0 .. m /\ n - 1 # m
      OBVIOUS
    <3>2. g[n - 1] = f[n - 1] /\ g[n] = IF n = m THEN step[m][f[m - 1]] ELSE f[n]
      BY <3>1
    <3>3. n # m => n \in 1 .. m - 1
      OBVIOUS
    <3> QED
      BY <2>1, <3>2, <3>3
  <2> HIDE DEF g
  <2> QED
    BY <2>3, <2>4, <2>5
<1> HIDE DEF Some
<1>3. 0 \in Q /\ \A m \in 1 .. N : m - 1 \in Q => m \in Q
  BY <1>1, <1>2
<1>4. Q \in SUBSET (0 .. N)
  OBVIOUS
<1> HIDE DEF Q
<1>5. Q = 0 .. N
  BY <1>3, <1>4, UpTo
<1>6. N \in Q
  BY <1>5
<1> QED
  BY <1>6 DEF Q, Some

\* Two functions defined by the same first value and the same step agree.
LEMMA Agree ==
  ASSUME NEW N \in Nat, NEW f, NEW g, f[0] = g[0],
         \A n \in 1 .. N : f[n - 1] = g[n - 1] => f[n] = g[n]
  PROVE  \A n \in 0 .. N : f[n] = g[n]
<1> DEFINE Q == {n \in 0 .. N : f[n] = g[n]}
<1>1. 0 \in Q /\ \A n \in 1 .. N : n - 1 \in Q => n \in Q
  OBVIOUS
<1>2. Q \in SUBSET (0 .. N)
  OBVIOUS
<1> HIDE DEF Q
<1>3. Q = 0 .. N
  BY <1>1, <1>2, UpTo
<1> QED
  BY <1>3 DEF Q

-----------------------------------------------------------------------------
(***************************************************************************)
(* The words of a text.                                                    *)
(***************************************************************************)

\* Words are told from white space.
LEMMA Alphabet ==
  /\ \A x \in Symbols : NotWhite(x) <=> x \in Words
  /\ "space" \in Symbols /\ "newline" \in Symbols
  /\ "space" \notin Words /\ "newline" \notin Words
  /\ Words \subseteq Symbols /\ Types \subseteq Words /\ "NONE" \notin Words
BY CodecAssumption DEF Symbols, Words, NotWhite, IsWhite, White

\* What reads the n-th symbol of s makes of the words before it.
ReadsWords(f, s, n) ==
  f[n] = IF NotWhite(s[n]) THEN Append(f[n - 1], s[n]) ELSE f[n - 1]

\* There is a function that reads the words of a text.
LEMMA WordsExist ==
  ASSUME NEW s \in Texts
  PROVE  \E f \in [0 .. Len(s) -> Seq(Words)] :
            f[0] = << >> /\ \A n \in 1 .. Len(s) : ReadsWords(f, s, n)
<1> DEFINE step == [n \in 1 .. Len(s) |-> [w \in Seq(Words) |->
                      IF NotWhite(s[n]) THEN Append(w, s[n]) ELSE w]]
<1>1. Len(s) \in Nat /\ << >> \in Seq(Words)
  BY LenProperties, EmptySeq DEF Texts
<1>2. ASSUME NEW n \in 1 .. Len(s), NEW w \in Seq(Words)
      PROVE  (IF NotWhite(s[n]) THEN Append(w, s[n]) ELSE w) \in Seq(Words)
  <2>1. s[n] \in Symbols
    BY ElementOfSeq DEF Texts
  <2>2. NotWhite(s[n]) => s[n] \in Words
    BY <2>1, Alphabet
  <2> QED
    BY <2>2, AppendProperties
<1>3. step \in [1 .. Len(s) -> [Seq(Words) -> Seq(Words)]]
  BY <1>2
<1>4. \A n \in 1 .. Len(s), w \in Seq(Words) :
        step[n][w] = IF NotWhite(s[n]) THEN Append(w, s[n]) ELSE w
  OBVIOUS
<1> HIDE DEF step
<1>5. PICK f \in [0 .. Len(s) -> Seq(Words)] :
        f[0] = << >> /\ \A n \in 1 .. Len(s) : f[n] = step[n][f[n - 1]]
  <2> DEFINE T == Seq(Words)
             N == Len(s)
             a == << >>
  <2>1. N \in Nat /\ a \in T /\ step \in [1 .. N -> [T -> T]]
    BY <1>1, <1>3
  <2> HIDE DEF T, N, a
  <2>2. \E f \in [0 .. N -> T] : f[0] = a /\ \A n \in 1 .. N : f[n] = step[n][f[n - 1]]
    BY <2>1, Recursion
  <2> QED
    BY <2>2 DEF T, N, a
<1>6. \A n \in 1 .. Len(s) : f[n - 1] \in Seq(Words)
  BY <1>1
<1>7. \A n \in 1 .. Len(s) : ReadsWords(f, s, n)
  BY <1>4, <1>5, <1>6 DEF ReadsWords
<1> QED
  BY <1>5, <1>7

\* All of them return the same.
LEMMA WordsAgree ==
  ASSUME NEW s \in Texts, NEW f, NEW g,
         f[0] = << >>, \A n \in 1 .. Len(s) : ReadsWords(f, s, n),
         g[0] = << >>, \A n \in 1 .. Len(s) : ReadsWords(g, s, n)
  PROVE  f[Len(s)] = g[Len(s)]
<1>1. PICK N \in Nat : N = Len(s)
  BY LenProperties DEF Texts
<1>2. \A n \in 1 .. N : f[n - 1] = g[n - 1] => f[n] = g[n]
  BY <1>1 DEF ReadsWords
<1>3. f[0] = g[0]
  OBVIOUS
<1>4. \A n \in 0 .. N : f[n] = g[n]
  BY <1>2, <1>3, Agree
<1> QED
  BY <1>1, <1>4

\* WordsOf is what any such function returns at the end of the text.
LEMMA WordsDef ==
  ASSUME NEW s \in Texts, NEW f,
         f[0] = << >>, \A n \in 1 .. Len(s) : ReadsWords(f, s, n)
  PROVE  WordsOf(s) = f[Len(s)]
<1> DEFINE Is(g) == g = [n \in 0 .. Len(s) |->
                           IF n = 0 THEN << >>
                           ELSE IF NotWhite(s[n]) THEN Append(g[n - 1], s[n])
                           ELSE g[n - 1]]
           g == CHOOSE h : Is(h)
<1>0. Len(s) \in Nat
  BY LenProperties DEF Texts
<1>1. PICK h \in [0 .. Len(s) -> Seq(Words)] :
        h[0] = << >> /\ \A n \in 1 .. Len(s) : ReadsWords(h, s, n)
  BY WordsExist
<1>2. Is(h)
  <2>1. \A n \in 0 .. Len(s) : n # 0 => n \in 1 .. Len(s)
    BY <1>0
  <2> QED
    BY <1>0, <1>1, <2>1 DEF ReadsWords
<1>3. Is(g)
  BY <1>2
<1>4. WordsOf(s) = g[Len(s)]
  BY DEF WordsOf
<1> HIDE DEF g
<1>5. g[0] = << >> /\ \A n \in 1 .. Len(s) : ReadsWords(g, s, n)
  <2>1. \A n \in 0 .. Len(s) :
          g[n] = IF n = 0 THEN << >>
                 ELSE IF NotWhite(s[n]) THEN Append(g[n - 1], s[n])
                 ELSE g[n - 1]
    BY <1>3, Zenon
  <2>2. 0 \in 0 .. Len(s) /\ \A n \in 1 .. Len(s) : n \in 0 .. Len(s) /\ n # 0
    BY <1>0
  <2> HIDE DEF Is
  <2> QED
    BY <2>1, <2>2 DEF ReadsWords
<1>7. f[Len(s)] = g[Len(s)]
  BY <1>5, WordsAgree
<1> QED
  BY <1>4, <1>7

\* An empty text has no words.
LEMMA WordsEmpty == WordsOf(<< >>) = << >>
<1>1. << >> \in Texts /\ Len(<< >>) = 0
  BY EmptySeq DEF Texts
<1>2. PICK f \in [0 .. Len(<< >>) -> Seq(Words)] :
        f[0] = << >> /\ \A n \in 1 .. Len(<< >>) : ReadsWords(f, << >>, n)
  BY <1>1, WordsExist
<1> QED
  BY <1>1, <1>2, WordsDef

\* One more symbol is one more word, unless it is white space.
LEMMA WordsAppend ==
  ASSUME NEW s \in Texts, NEW x \in Symbols
  PROVE  WordsOf(Append(s, x)) = IF x \in Words THEN Append(WordsOf(s), x)
                                                ELSE WordsOf(s)
<1> DEFINE t == Append(s, x)
<1>1. /\ t \in Texts /\ Len(s) \in Nat /\ Len(t) = Len(s) + 1
      /\ \A n \in 1 .. Len(s) : t[n] = s[n]
      /\ t[Len(t)] = x
  BY AppendProperties, LenProperties DEF Texts
<1> HIDE DEF t
<1>2. PICK f \in [0 .. Len(t) -> Seq(Words)] :
        f[0] = << >> /\ \A n \in 1 .. Len(t) : ReadsWords(f, t, n)
  BY <1>1, WordsExist
<1>3. \A n \in 1 .. Len(s) : ReadsWords(f, s, n)
  BY <1>1, <1>2 DEF ReadsWords
<1>4. WordsOf(s) = f[Len(s)]
  BY <1>2, <1>3, WordsDef
<1>5. WordsOf(t) = f[Len(t)]
  BY <1>1, <1>2, WordsDef
<1>6. ReadsWords(f, t, Len(t)) /\ Len(t) - 1 = Len(s)
  BY <1>1, <1>2
<1> QED
  BY <1>1, <1>4, <1>5, <1>6, Alphabet DEF ReadsWords, t

\* Words are words.
LEMMA WordsType ==
  ASSUME NEW s \in Texts
  PROVE  WordsOf(s) \in Seq(Words)
<1>1. PICK f \in [0 .. Len(s) -> Seq(Words)] :
        f[0] = << >> /\ \A n \in 1 .. Len(s) : ReadsWords(f, s, n)
  BY WordsExist
<1>2. Len(s) \in 0 .. Len(s)
  BY LenProperties DEF Texts
<1> QED
  BY <1>1, <1>2, WordsDef

\* Appending to a concatenation.
LEMMA AppendConcat ==
  ASSUME NEW S, NEW s \in Seq(S), NEW t \in Seq(S), NEW x \in S
  PROVE  s \o Append(t, x) = Append(s \o t, x)
<1>1. <<x>> \in Seq(S) /\ s \o t \in Seq(S)
  BY ConcatProperties
<1>2. Append(t, x) = t \o <<x>> /\ Append(s \o t, x) = (s \o t) \o <<x>>
  BY <1>1, AppendIsConcat
<1> QED
  BY <1>1, <1>2, ConcatAssociative

\* The words of two texts, one after the other.
LEMMA WordsConcat ==
  ASSUME NEW s \in Texts, NEW t \in Texts
  PROVE  WordsOf(s \o t) = WordsOf(s) \o WordsOf(t)
<1> DEFINE P == {u \in Texts : WordsOf(s \o u) = WordsOf(s) \o WordsOf(u)}
<1>1. << >> \in P
  BY EmptySeq, WordsEmpty, WordsType, ConcatEmptySeq DEF Texts
<1>2. ASSUME NEW u \in P, NEW x \in Symbols PROVE Append(u, x) \in P
  <2>1. u \in Texts /\ Append(u, x) \in Texts /\ s \o u \in Texts
    BY AppendProperties, ConcatProperties DEF Texts
  <2>2. s \o Append(u, x) = Append(s \o u, x)
    BY <2>1, AppendConcat DEF Texts
  <2>3. WordsOf(s) \in Seq(Words) /\ WordsOf(u) \in Seq(Words)
    BY <2>1, WordsType
  <2>4. WordsOf(Append(u, x)) = IF x \in Words THEN Append(WordsOf(u), x)
                                               ELSE WordsOf(u)
    BY <2>1, WordsAppend
  <2>5. WordsOf(Append(s \o u, x)) = IF x \in Words THEN Append(WordsOf(s \o u), x)
                                                    ELSE WordsOf(s \o u)
    BY <2>1, WordsAppend
  <2>6. x \in Words => WordsOf(s) \o Append(WordsOf(u), x)
                         = Append(WordsOf(s) \o WordsOf(u), x)
    BY <2>3, AppendConcat
  <2>7. WordsOf(s \o Append(u, x)) = WordsOf(s) \o WordsOf(Append(u, x))
    BY <2>2, <2>4, <2>5, <2>6
  <2> QED
    BY <2>1, <2>7
<1>3. P \in SUBSET Seq(Symbols)
  BY DEF Texts
<1> HIDE DEF P
<1>4. P = Seq(Symbols)
  BY <1>1, <1>2, <1>3, Growing
<1> QED
  BY <1>4 DEF P, Texts

\* Nothing but words.
LEMMA WordsOfWords ==
  ASSUME NEW w \in Seq(Words)
  PROVE  WordsOf(w) = w
<1> DEFINE P == {u \in Seq(Words) : u \in Texts /\ WordsOf(u) = u}
<1>1. << >> \in P
  BY EmptySeq, WordsEmpty DEF Texts
<1>2. ASSUME NEW u \in P, NEW x \in Words PROVE Append(u, x) \in P
  <2>1. x \in Symbols /\ u \in Texts /\ WordsOf(u) = u
    BY Alphabet
  <2>2. WordsOf(Append(u, x)) = Append(u, x)
    BY <2>1, WordsAppend
  <2>3. Append(u, x) \in Texts /\ Append(u, x) \in Seq(Words)
    BY <2>1, AppendProperties DEF Texts
  <2> QED
    BY <2>2, <2>3
<1>3. P \in SUBSET Seq(Words)
  OBVIOUS
<1> HIDE DEF P
<1>4. P = Seq(Words)
  BY <1>1, <1>2, <1>3, Growing
<1> QED
  BY <1>4 DEF P

\* There is white space between words: the words and one separator after each
\* but the last are not more than the text.
LEMMA WordsShorter ==
  ASSUME NEW s \in Texts, Apart(s)
  PROVE  2 * Len(WordsOf(s)) <= Len(s) + 1
<1> DEFINE OK(u) == Apart(u) =>
             /\ 2 * Len(WordsOf(u)) <= Len(u) + 1
             /\ Len(u) = 0 \/ u[Len(u)] \notin Words => 2 * Len(WordsOf(u)) <= Len(u)
           P == {u \in Texts : OK(u)}
<1>1. << >> \in P
  BY EmptySeq, WordsEmpty DEF Texts
<1>2. ASSUME NEW u \in P, NEW x \in Symbols PROVE Append(u, x) \in P
  <2>1. /\ u \in Texts /\ OK(u) /\ Append(u, x) \in Texts
        /\ Len(u) \in Nat /\ Len(Append(u, x)) = Len(u) + 1
        /\ \A i \in 1 .. Len(u) : Append(u, x)[i] = u[i]
        /\ Append(u, x)[Len(u) + 1] = x
    BY <1>2, AppendProperties, LenProperties DEF Texts
  <2>2. WordsOf(u) \in Seq(Words) /\ Len(WordsOf(u)) \in Nat
    BY <2>1, WordsType, LenProperties
  <2>3. x \in Words => Len(WordsOf(Append(u, x))) = Len(WordsOf(u)) + 1
    BY <2>1, <2>2, WordsAppend, AppendProperties
  <2>4. x \notin Words => Len(WordsOf(Append(u, x))) = Len(WordsOf(u))
    BY <2>1, WordsAppend
  <2> SUFFICES ASSUME Apart(Append(u, x)) PROVE OK(Append(u, x))
    BY <2>1
  <2>5. Apart(u)
    <3> SUFFICES ASSUME NEW i \in 1 .. Len(u) - 1
                 PROVE  ~(u[i] \in Words /\ u[i + 1] \in Words)
      BY DEF Apart
    <3>1. i \in 1 .. Len(u) /\ i + 1 \in 1 .. Len(u) /\ i \in 1 .. (Len(u) + 1) - 1
      BY <2>1
    <3> QED
      BY <2>1, <3>1 DEF Apart
  <2>6. x \in Words => Len(u) = 0 \/ u[Len(u)] \notin Words
    <3> SUFFICES ASSUME x \in Words, Len(u) # 0 PROVE u[Len(u)] \notin Words
      OBVIOUS
    <3>1. Len(u) \in 1 .. (Len(u) + 1) - 1 /\ Len(u) \in 1 .. Len(u)
      BY <2>1
    <3> QED
      BY <2>1, <3>1 DEF Apart
  <2> QED
    BY <2>1, <2>2, <2>3, <2>4, <2>5, <2>6
<1>3. P \in SUBSET Seq(Symbols)
  BY DEF Texts
<1> HIDE DEF P
<1>4. P = Seq(Symbols)
  BY <1>1, <1>2, <1>3, Growing
<1> QED
  BY <1>4 DEF P, Texts

-----------------------------------------------------------------------------
(***************************************************************************)
(* Concatenations.                                                         *)
(***************************************************************************)

\* The n-th sequence is added to the ones before it.
Joins(f, ss, n) == f[n] = f[n - 1] \o ss[n]

LEMMA JoinStep ==
  ASSUME NEW f, NEW ss, NEW n, NEW m, m = n - 1, Joins(f, ss, n)
  PROVE  f[n] = f[m] \o ss[n]
BY Zenon DEF Joins

\* There is a function that concatenates.
LEMMA FlattenExists ==
  ASSUME NEW S, NEW ss \in Seq(Seq(S))
  PROVE  \E f \in [0 .. Len(ss) -> Seq(S)] :
            f[0] = << >> /\ \A n \in 1 .. Len(ss) : Joins(f, ss, n)
<1>1. PICK N \in Nat : N = Len(ss)
  BY LenProperties
<1>2. PICK T : T = Seq(S)
  OBVIOUS
<1>3. PICK a \in T : a = << >>
  BY <1>2, EmptySeq
<1> DEFINE step == [n \in 1 .. N |-> [w \in T |-> w \o ss[n]]]
<1>4. ASSUME NEW n \in 1 .. N, NEW w \in T PROVE w \o ss[n] \in T
  BY <1>1, <1>2, ElementOfSeq, ConcatProperties
<1>5. step \in [1 .. N -> [T -> T]]
  BY <1>4
<1>6. \A n \in 1 .. N, w \in T : step[n][w] = w \o ss[n]
  OBVIOUS
<1> HIDE DEF step
<1>7. PICK f \in [0 .. N -> T] : f[0] = a /\ \A n \in 1 .. N : f[n] = step[n][f[n - 1]]
  <2> DEFINE M == N
             U == T
             b == a
  <2>1. M \in Nat /\ b \in U /\ step \in [1 .. M -> [U -> U]]
    BY <1>5
  <2> HIDE DEF M, U, b
  <2>2. \E f \in [0 .. M -> U] : f[0] = b /\ \A n \in 1 .. M : f[n] = step[n][f[n - 1]]
    BY <2>1, Recursion, SMTT(30)
  <2> QED
    BY <2>2 DEF M, U, b
<1>8. \A n \in 1 .. N : f[n - 1] \in T
  OBVIOUS
<1>9. \A n \in 1 .. N : Joins(f, ss, n)
  BY <1>6, <1>7, <1>8 DEF Joins
<1> QED
  BY <1>1, <1>2, <1>3, <1>7, <1>9

\* FlattenSeq returns what such a function returns at the end.
LEMMA FlattenDef ==
  ASSUME NEW S, NEW ss \in Seq(Seq(S)), NEW f, f[0] = << >>,
         \A n \in 1 .. Len(ss) : Joins(f, ss, n)
  PROVE  FlattenSeq(ss) = f[Len(ss)]
<1>1. PICK N \in Nat : N = Len(ss)
  BY LenProperties
<1>2. CASE N = 0
  BY <1>1, <1>2, EmptySeq DEF FlattenSeq
<1>3. CASE N # 0
  <2> DEFINE Is(g) == g = [i \in 1 .. Len(ss) |->
                             IF i = 1 THEN ss[i] ELSE g[i - 1] \o ss[i]]
             g == CHOOSE h : Is(h)
  <2>1. PICK h \in [0 .. Len(ss) -> Seq(S)] :
          h[0] = << >> /\ \A n \in 1 .. Len(ss) : Joins(h, ss, n)
    BY FlattenExists
  <2>2. Is([i \in 1 .. Len(ss) |-> h[i]])
    <3>1. h[1] = ss[1]
      <4>1. 1 \in 1 .. Len(ss)
        BY <1>1, <1>3
      <4>2. ss[1] \in Seq(S) /\ h[1] = << >> \o ss[1]
        <5>1. ss[1] \in Seq(S)
          BY <4>1, ElementOfSeq
        <5>2. Joins(h, ss, 1) /\ 0 = 1 - 1
          BY <4>1, <2>1
        <5>3. h[1] = h[0] \o ss[1]
          BY <5>2, JoinStep
        <5> QED
          BY <5>1, <5>3, <2>1, Zenon
      <4> QED
        BY <4>2, ConcatEmptySeq
    <3>2. \A n \in 1 .. Len(ss) : n # 1 => n - 1 \in 1 .. Len(ss)
      BY <1>1
    <3> QED
      BY <2>1, <3>1, <3>2 DEF Joins
  <2>3. Is(g)
    BY <2>2
  <2>4. FlattenSeq(ss) = g[Len(ss)]
    BY <1>1, <1>3 DEF FlattenSeq
  <2> HIDE DEF g
  <2>5. \A i \in 1 .. N : g[i] = IF i = 1 THEN ss[i] ELSE g[i - 1] \o ss[i]
    BY <1>1, <2>3, Zenon
  <2> HIDE DEF Is
  <2> DEFINE Q == {n \in 0 .. N : n # 0 => f[n] = g[n]}
  <2>6. 0 \in Q
    OBVIOUS
  <2>7. ASSUME NEW n \in 1 .. N, n - 1 \in Q PROVE n \in Q
    <3>1. Joins(f, ss, n)
      BY <1>1
    <3>2. CASE n = 1
      <4>1. ss[1] \in Seq(S)
        BY <1>1, <3>2, ElementOfSeq
      <4>2. f[n - 1] = << >>
        BY <3>2
      <4>3. f[n] = f[n - 1] \o ss[n]
        BY <3>1, Zenon DEF Joins
      <4>4. g[1] = ss[1]
        BY <2>5, <3>2
      <4>5. << >> \o ss[1] = ss[1]
        BY <4>1, ConcatEmptySeq
      <4>6. f[n] = g[n]
        BY <3>2, <4>2, <4>3, <4>4, <4>5, Zenon
      <4> QED
        BY <4>6
    <3>3. CASE n # 1
      <4>1. n - 1 \in 0 .. N /\ n - 1 # 0
        BY <3>3
      <4>2. f[n - 1] = g[n - 1]
        BY <2>7, <4>1
      <4>3. f[n] = f[n - 1] \o ss[n]
        BY <3>1, Zenon DEF Joins
      <4>4. g[n] = g[n - 1] \o ss[n]
        BY <2>5, <3>3, Zenon
      <4>5. f[n] = g[n]
        BY <4>2, <4>3, <4>4, Zenon
      <4> QED
        BY <4>5
    <3> QED
      BY <3>2, <3>3
  <2>8. Q \in SUBSET (0 .. N)
    OBVIOUS
  <2> HIDE DEF Q
  <2>9. Q = 0 .. N
    BY <2>6, <2>7, <2>8, UpTo
  <2> QED
    BY <1>1, <1>3, <2>4, <2>9 DEF Q
<1> QED
  BY <1>2, <1>3

\* The concatenation of sequences is a sequence.
LEMMA FlattenType ==
  ASSUME NEW S, NEW ss \in Seq(Seq(S))
  PROVE  FlattenSeq(ss) \in Seq(S)
<1>1. PICK f \in [0 .. Len(ss) -> Seq(S)] :
        f[0] = << >> /\ \A n \in 1 .. Len(ss) : Joins(f, ss, n)
  BY FlattenExists
<1>2. Len(ss) \in 0 .. Len(ss)
  BY LenProperties
<1> QED
  BY <1>1, <1>2, FlattenDef

\* The concatenation of none, and of one more.
LEMMA FlattenEmpty == FlattenSeq(<< >>) = << >>
BY DEF FlattenSeq

LEMMA FlattenAppend ==
  ASSUME NEW S, NEW ss \in Seq(Seq(S)), NEW s \in Seq(S)
  PROVE  FlattenSeq(Append(ss, s)) = FlattenSeq(ss) \o s
<1> DEFINE tt == Append(ss, s)
<1>1. /\ tt \in Seq(Seq(S)) /\ Len(ss) \in Nat /\ Len(tt) = Len(ss) + 1
      /\ \A n \in 1 .. Len(ss) : tt[n] = ss[n]
      /\ tt[Len(tt)] = s
  BY AppendProperties, LenProperties
<1> HIDE DEF tt
<1>2. PICK f \in [0 .. Len(tt) -> Seq(S)] :
        f[0] = << >> /\ \A n \in 1 .. Len(tt) : Joins(f, tt, n)
  BY <1>1, FlattenExists
<1>3. FlattenSeq(ss) = f[Len(ss)]
  <2>1. \A n \in 1 .. Len(ss) : Joins(f, ss, n)
    <3>1. ASSUME NEW n \in 1 .. Len(ss) PROVE Joins(f, tt, n) /\ tt[n] = ss[n]
      BY <1>1, <1>2
    <3> QED
      BY <3>1, Zenon DEF Joins
  <2> QED
    BY <1>2, <2>1, FlattenDef
<1>4. FlattenSeq(tt) = f[Len(tt)]
  BY <1>1, <1>2, FlattenDef
<1>5. f[Len(tt)] = f[Len(ss)] \o s
  <2>1. Len(tt) \in 1 .. Len(tt) /\ Len(tt) - 1 = Len(ss)
    BY <1>1
  <2>2. Joins(f, tt, Len(tt))
    BY <1>2, <2>1
  <2> QED
    BY <1>1, <2>1, <2>2, Zenon DEF Joins
<1> QED
  BY <1>3, <1>4, <1>5 DEF tt

-----------------------------------------------------------------------------
(***************************************************************************)
(* Arguments in a text.                                                    *)
(***************************************************************************)

\* The texts that encode puts together: each argument after a space.
Spaced(args) == [i \in DOMAIN args |-> <<"space">> \o args[i]]

\* One argument for each word.
Single(ws) == [j \in DOMAIN ws |-> <<ws[j]>>]

\* The arguments that decode makes of the text t after the command.
ArgsIn(type, t) ==
  IF type \in {"FAILED", "ERROR"} THEN <<t>> ELSE Single(WordsOf(t))

\* One symbol is a text.
LEMMA OneSymbol ==
  ASSUME NEW S, NEW x \in S
  PROVE  <<x>> \in Seq(S) /\ Len(<<x>>) = 1 /\ <<x>>[1] = x /\ <<x>> # << >>
BY EmptySeq

\* The first symbol of a concatenation.
LEMMA ConcatFirst ==
  ASSUME NEW S, NEW s \in Seq(S), NEW t \in Seq(S), s # << >>
  PROVE  s \o t # << >> /\ (s \o t)[1] = s[1]
<1>1. Len(s) \in Nat \ {0} /\ Len(t) \in Nat
  BY EmptySeq, LenProperties
<1>2. 1 \in 1 .. Len(s) + Len(t) /\ 1 <= Len(s)
  BY <1>1
<1>3. s \o t \in Seq(S) /\ Len(s \o t) = Len(s) + Len(t) /\ (s \o t)[1] = s[1]
  BY <1>2, ConcatProperties
<1>4. Len(s \o t) # 0
  BY <1>1, <1>3
<1> QED
  BY <1>3, <1>4, EmptySeq

\* A sequence to which something has been added is not empty.
LEMMA AppendNotEmpty ==
  ASSUME NEW S, NEW s \in Seq(S), NEW x \in S
  PROVE  Append(s, x) \in Seq(S) /\ Append(s, x) # << >>
<1>1. Append(s, x) \in Seq(S) /\ Len(Append(s, x)) = Len(s) + 1 /\ Len(s) \in Nat
  BY AppendProperties, LenProperties
<1>2. Len(Append(s, x)) # 0
  BY <1>1
<1> QED
  BY <1>1, <1>2, EmptySeq

\* The words of one symbol.
LEMMA WordsOne ==
  ASSUME NEW x \in Symbols
  PROVE  WordsOf(<<x>>) = IF x \in Words THEN <<x>> ELSE << >>
<1>1. << >> \in Texts /\ Append(<< >>, x) = <<x>>
  BY EmptySeq DEF Texts
<1>2. WordsOf(Append(<< >>, x)) = IF x \in Words THEN Append(WordsOf(<< >>), x)
                                                ELSE WordsOf(<< >>)
  BY <1>1, WordsAppend
<1> QED
  BY <1>1, <1>2, WordsEmpty, Zenon

\* The texts are texts, and one more argument is one more text.
LEMMA SpacedAppend ==
  ASSUME NEW args \in Seq(Texts), NEW a \in Texts
  PROVE  /\ Spaced(args) \in Seq(Texts) /\ <<"space">> \o a \in Texts
         /\ Spaced(Append(args, a)) = Append(Spaced(args), <<"space">> \o a)
<1>1. <<"space">> \in Texts
  BY Alphabet, OneSymbol DEF Texts
<1>2. \A b \in Texts : <<"space">> \o b \in Texts
  BY <1>1, ConcatProperties DEF Texts
<1> DEFINE sp(b) == <<"space">> \o b
<1>3. \A b \in Texts : sp(b) \in Texts
  BY <1>2
<1>4. Spaced(args) = [i \in DOMAIN args |-> sp(args[i])]
  BY DEF Spaced
<1>5. Spaced(Append(args, a)) = [i \in DOMAIN Append(args, a) |-> sp(Append(args, a)[i])]
  BY DEF Spaced
<1> HIDE DEF sp
<1>6. Spaced(args) \in Seq(Texts)
  BY <1>3, <1>4
<1>7. Spaced(Append(args, a)) = Append(Spaced(args), sp(a))
  <2>1. /\ Append(args, a) \in Seq(Texts) /\ Len(Append(args, a)) = Len(args) + 1
        /\ \A i \in 1 .. Len(args) : Append(args, a)[i] = args[i]
        /\ Append(args, a)[Len(args) + 1] = a
        /\ Len(args) \in Nat
    BY AppendProperties, LenProperties
  <2>2. Spaced(Append(args, a)) \in Seq(Texts) /\ sp(a) \in Texts
    BY <1>3, <1>5, <2>1
  <2>3. Append(Spaced(args), sp(a)) \in Seq(Texts)
    BY <1>6, <2>2, AppendProperties
  <2>4. Len(Spaced(args)) = Len(args) /\ Len(Spaced(Append(args, a))) = Len(args) + 1
    BY <1>4, <1>5, <1>6, <2>1, <2>2
  <2>5. Len(Append(Spaced(args), sp(a))) = Len(args) + 1
    BY <1>6, <2>2, <2>4, AppendProperties
  <2>6. \A i \in 1 .. Len(args) + 1 :
          Append(Spaced(args), sp(a))[i] = Spaced(Append(args, a))[i]
    BY <1>4, <1>5, <1>6, <2>1, <2>2, <2>4, AppendProperties
  <2> QED
    BY <2>2, <2>3, <2>4, <2>5, <2>6, SeqEqual
<1> QED
  BY <1>2, <1>6, <1>7 DEF sp

LEMMA SpacedEmpty == Spaced(<< >>) = << >>
BY EmptySeq DEF Spaced

\* What encode writes after the command begins with a space, unless there are
\* no arguments, and has the words of the arguments.
LEMMA RestOfLine ==
  ASSUME NEW args \in Seq(Texts)
  PROVE  LET rest == FlattenSeq(Spaced(args))
         IN  /\ rest \in Texts
             /\ args = << >> => rest = << >>
             /\ args # << >> => rest # << >> /\ rest[1] = "space"
             /\ WordsOf(rest) = WordsOf(FlattenSeq(args))
<1> DEFINE R(as) == FlattenSeq(Spaced(as))
           OK(as) == /\ as = << >> => R(as) = << >>
                     /\ as # << >> => R(as) # << >> /\ R(as)[1] = "space"
                     /\ WordsOf(R(as)) = WordsOf(FlattenSeq(as))
           P == {as \in Seq(Texts) : OK(as)}
<1>1. << >> \in P
  BY SpacedEmpty, FlattenEmpty, EmptySeq
<1>2. ASSUME NEW as \in P, NEW a \in Texts PROVE Append(as, a) \in P
  <2> DEFINE sp == <<"space">> \o a
  <2>1. as \in Seq(Texts) /\ OK(as)
    BY <1>2
  <2>2. /\ Append(as, a) \in Seq(Texts) /\ Append(as, a) # << >>
        /\ sp \in Texts /\ Spaced(as) \in Seq(Texts)
    <3>1. Append(as, a) \in Seq(Texts) /\ Append(as, a) # << >>
      <4> HIDE DEF OK, R, sp
      <4> QED
        BY <2>1, AppendNotEmpty
    <3>2. sp \in Texts /\ Spaced(as) \in Seq(Texts)
      BY <2>1, SpacedAppend
    <3> QED
      BY <3>1, <3>2
  <2>3. R(as) \in Texts /\ FlattenSeq(as) \in Texts
    BY <2>1, <2>2, FlattenType DEF Texts
  <2>4. R(Append(as, a)) = R(as) \o sp
    BY <2>1, <2>2, SpacedAppend, FlattenAppend DEF Texts
  <2>5. FlattenSeq(Append(as, a)) = FlattenSeq(as) \o a
    BY <2>1, FlattenAppend DEF Texts
  <2>6. sp # << >> /\ sp[1] = "space" /\ WordsOf(sp) = WordsOf(a)
    <3>1. <<"space">> \in Texts /\ Len(<<"space">>) = 1 /\ <<"space">>[1] = "space"
      BY Alphabet, OneSymbol DEF Texts
    <3>2. Len(sp) = 1 + Len(a) /\ Len(a) \in Nat /\ sp[1] = "space"
      BY <3>1, ConcatProperties, LenProperties DEF Texts
    <3>3. WordsOf(<<"space">>) = << >>
      BY WordsOne, Alphabet
    <3>4. WordsOf(sp) = << >> \o WordsOf(a) /\ WordsOf(a) \in Seq(Words)
      BY <3>1, <3>3, WordsConcat, WordsType
    <3> QED
      BY <3>2, <3>4, ConcatEmptySeq, EmptySeq
  <2> HIDE DEF sp, R
  <2>7. WordsOf(R(Append(as, a))) = WordsOf(FlattenSeq(Append(as, a)))
    <3>1. WordsOf(R(as) \o sp) = WordsOf(R(as)) \o WordsOf(sp)
      BY <2>2, <2>3, WordsConcat
    <3>2. WordsOf(FlattenSeq(as) \o a) = WordsOf(FlattenSeq(as)) \o WordsOf(a)
      BY <2>3, WordsConcat
    <3> QED
      BY <2>1, <2>4, <2>5, <2>6, <3>1, <3>2
  <2>8. R(Append(as, a)) # << >> /\ R(Append(as, a))[1] = "space"
    <3>1. CASE as = << >>
      BY <2>1, <2>2, <2>4, <2>6, <3>1, ConcatEmptySeq DEF Texts
    <3>2. CASE as # << >>
      <4>1. R(as)[1] = "space" /\ R(as) # << >>
        BY <2>1, <3>2
      <4>2. R(as) \o sp # << >> /\ (R(as) \o sp)[1] = R(as)[1]
        BY <2>2, <2>3, <4>1, ConcatFirst DEF Texts
      <4> QED
        BY <2>4, <4>1, <4>2
    <3> QED
      BY <3>1, <3>2
  <2> QED
    BY <2>2, <2>7, <2>8
<1>3. P \in SUBSET Seq(Texts)
  OBVIOUS
<1> HIDE DEF P, OK
<1>4. P = Seq(Texts)
  BY <1>1, <1>2, <1>3, Growing
<1>5. OK(args)
  BY <1>4 DEF P
<1>6. R(args) \in Texts
  <2>1. Spaced(args) \in Seq(Texts)
    <3>1. << >> \in Texts
      BY EmptySeq DEF Texts
    <3> QED
      BY <3>1, SpacedAppend
  <2> QED
    BY <2>1, FlattenType DEF Texts
<1> QED
  BY <1>5, <1>6 DEF OK

\* As many one-word arguments as words, and nothing but them.
LEMMA SingleWords ==
  ASSUME NEW ws \in Seq(Words)
  PROVE  /\ Single(ws) \in Seq(Texts) /\ Len(Single(ws)) = Len(ws)
         /\ \A i \in 1 .. Len(ws) : Single(ws)[i] = <<ws[i]>>
<1>1. \A w \in Words : <<w>> \in Texts
  BY Alphabet, OneSymbol DEF Texts
<1> DEFINE one(w) == <<w>>
<1>2. Single(ws) = [j \in DOMAIN ws |-> one(ws[j])] /\ \A w \in Words : one(w) \in Texts
  BY <1>1 DEF Single
<1> HIDE DEF one
<1>3. DOMAIN ws = 1 .. Len(ws) /\ Len(ws) \in Nat /\ \A j \in 1 .. Len(ws) : ws[j] \in Words
  BY LenProperties, ElementOfSeq
<1>4. Single(ws) \in Seq(Texts) /\ Len(Single(ws)) = Len(ws)
  BY <1>2, <1>3
<1>5. \A j \in 1 .. Len(ws) : Single(ws)[j] = one(ws[j])
  BY <1>2, <1>3
<1> QED
  BY <1>4, <1>5 DEF one

\* One more word is one more argument.
LEMMA SingleAppend ==
  ASSUME NEW u \in Seq(Words), NEW x \in Words
  PROVE  Single(Append(u, x)) = Append(Single(u), <<x>>)
<1>1. /\ Single(u) \in Seq(Texts) /\ Len(Single(u)) = Len(u)
      /\ \A i \in 1 .. Len(u) : Single(u)[i] = <<u[i]>>
  BY SingleWords
<1>2. /\ Append(u, x) \in Seq(Words) /\ Len(Append(u, x)) = Len(u) + 1
      /\ \A i \in 1 .. Len(u) : Append(u, x)[i] = u[i]
      /\ Append(u, x)[Len(u) + 1] = x
      /\ Len(u) \in Nat
  BY AppendProperties, LenProperties
<1>3. <<x>> \in Texts
  BY Alphabet, OneSymbol DEF Texts
<1>4. /\ Single(Append(u, x)) \in Seq(Texts)
      /\ Len(Single(Append(u, x))) = Len(u) + 1
      /\ \A i \in 1 .. Len(u) + 1 : Single(Append(u, x))[i] = <<Append(u, x)[i]>>
  BY <1>2, SingleWords
<1>5. /\ Append(Single(u), <<x>>) \in Seq(Texts)
      /\ Len(Append(Single(u), <<x>>)) = Len(u) + 1
      /\ \A i \in 1 .. Len(u) : Append(Single(u), <<x>>)[i] = Single(u)[i]
      /\ Append(Single(u), <<x>>)[Len(u) + 1] = <<x>>
  BY <1>1, <1>3, AppendProperties
<1>6. \A i \in 1 .. Len(u) + 1 :
        Append(Single(u), <<x>>)[i] = Single(Append(u, x))[i]
  <2> SUFFICES ASSUME NEW i \in 1 .. Len(u) + 1
               PROVE  Append(Single(u), <<x>>)[i] = Single(Append(u, x))[i]
    OBVIOUS
  <2>1. i = Len(u) + 1 \/ i \in 1 .. Len(u)
    BY <1>2
  <2> QED
    BY <1>1, <1>2, <1>4, <1>5, <2>1
<1> QED
  BY <1>4, <1>5, <1>6, SeqEqual

\* One-word arguments after one another are the words, and encode writes them
\* with a space before each.
LEMMA FlattenSingle ==
  ASSUME NEW ws \in Seq(Words)
  PROVE  /\ FlattenSeq(Single(ws)) = ws
         /\ Len(FlattenSeq(Spaced(Single(ws)))) = 2 * Len(ws)
<1> DEFINE R(u) == FlattenSeq(Spaced(Single(u)))
           P == {u \in Seq(Words) : FlattenSeq(Single(u)) = u /\ Len(R(u)) = 2 * Len(u)}
<1>1. << >> \in P
  <2>1. Single(<< >>) = << >>
    BY EmptySeq DEF Single
  <2> QED
    BY <2>1, FlattenEmpty, SpacedEmpty, EmptySeq
<1>2. ASSUME NEW u \in P, NEW x \in Words PROVE Append(u, x) \in P
  <2> DEFINE sp == <<"space">> \o <<x>>
  <2>1. /\ u \in Seq(Words) /\ FlattenSeq(Single(u)) = u /\ Len(R(u)) = 2 * Len(u)
        /\ Single(u) \in Seq(Texts) /\ Len(u) \in Nat
    BY <1>2, SingleWords, LenProperties
  <2>2. Append(u, x) \in Seq(Words) /\ Len(Append(u, x)) = Len(u) + 1
    BY <2>1, AppendProperties
  <2>3. <<x>> \in Texts /\ Len(<<x>>) = 1
    BY Alphabet, OneSymbol DEF Texts
  <2>4. Single(Append(u, x)) = Append(Single(u), <<x>>)
    BY <2>1, SingleAppend
  <2>5. FlattenSeq(Single(Append(u, x))) = u \o <<x>>
    BY <2>1, <2>3, <2>4, FlattenAppend DEF Texts
  <2>6. /\ Spaced(Single(u)) \in Seq(Texts) /\ sp \in Texts
        /\ Spaced(Append(Single(u), <<x>>)) = Append(Spaced(Single(u)), sp)
    BY <2>1, <2>3, SpacedAppend
  <2>7. Len(sp) = 2
    <3>1. <<"space">> \in Texts /\ Len(<<"space">>) = 1
      BY Alphabet, OneSymbol DEF Texts
    <3> QED
      BY <2>3, <3>1, ConcatProperties DEF Texts
  <2> HIDE DEF sp
  <2>8. R(Append(u, x)) = R(u) \o sp /\ R(u) \in Texts
    BY <2>4, <2>6, FlattenAppend, FlattenType DEF Texts
  <2> HIDE DEF R
  <2>9. Len(R(Append(u, x))) = 2 * Len(Append(u, x))
    <3>1. Len(R(u) \o sp) = Len(R(u)) + Len(sp)
      BY <2>6, <2>8, ConcatProperties DEF Texts
    <3> QED
      BY <2>1, <2>2, <2>7, <2>8, <3>1
  <2> QED
    BY <2>1, <2>2, <2>5, <2>9, AppendIsConcat
<1>3. P \in SUBSET Seq(Words)
  OBVIOUS
<1> HIDE DEF P
<1>4. P = Seq(Words)
  BY <1>1, <1>2, <1>3, Growing
<1> QED
  BY <1>4 DEF P

-----------------------------------------------------------------------------
(***************************************************************************)
(* decode.                                                                 *)
(***************************************************************************)

LEMMA MinLeast ==
  ASSUME NEW I \in SUBSET Nat, I # {}
  PROVE  Min(I) \in I /\ \A i \in I : Min(I) <= i
BY Least DEF Min

\* Where the white space at the beginning ends.
LEMMA FirstWord ==
  ASSUME NEW s \in Texts
  PROVE  LET k == SelectInSeq(s, NotWhite)
         IN  \/ k = 0 /\ \A j \in 1 .. Len(s) : s[j] \notin Words
             \/ /\ k \in 1 .. Len(s) /\ s[k] \in Words
                /\ \A j \in 1 .. k - 1 : s[j] \notin Words
<1> DEFINE I == {j \in 1 .. Len(s) : NotWhite(s[j])}
           k == SelectInSeq(s, NotWhite)
<1>1. Len(s) \in Nat /\ \A j \in 1 .. Len(s) : NotWhite(s[j]) <=> s[j] \in Words
  BY LenProperties, ElementOfSeq, Alphabet DEF Texts
<1>2. k = IF I # {} THEN Min(I) ELSE 0
  BY DEF SelectInSeq
<1>3. I \in SUBSET Nat
  BY <1>1
<1>4. I # {} => k \in I /\ \A j \in I : k <= j
  BY <1>2, <1>3, MinLeast
<1> HIDE DEF k
<1>5. CASE I = {}
  BY <1>1, <1>2, <1>5 DEF k
<1>6. CASE I # {}
  <2>1. k \in 1 .. Len(s) /\ s[k] \in Words
    BY <1>1, <1>4, <1>6
  <2>2. \A j \in 1 .. k - 1 : j \in 1 .. Len(s) /\ ~(k <= j)
    BY <1>1, <2>1
  <2> QED
    BY <1>1, <1>4, <1>6, <2>1, <2>2 DEF k
<1> QED
  BY <1>5, <1>6

\* Where the command ends.
LEMMA FirstSpace ==
  ASSUME NEW s \in Texts
  PROVE  LET i == SelectInSeq(s, IsSpace)
         IN  \/ i = 0 /\ \A j \in 1 .. Len(s) : s[j] # "space"
             \/ /\ i \in 1 .. Len(s) /\ s[i] = "space"
                /\ \A j \in 1 .. i - 1 : s[j] # "space"
<1> DEFINE I == {j \in 1 .. Len(s) : IsSpace(s[j])}
           i == SelectInSeq(s, IsSpace)
<1>1. Len(s) \in Nat /\ \A j \in 1 .. Len(s) : IsSpace(s[j]) <=> s[j] = "space"
  BY LenProperties DEF Texts, IsSpace
<1>2. i = IF I # {} THEN Min(I) ELSE 0
  BY DEF SelectInSeq
<1>3. I \in SUBSET Nat
  BY <1>1
<1>4. I # {} => i \in I /\ \A j \in I : i <= j
  BY <1>2, <1>3, MinLeast
<1> HIDE DEF i
<1>5. CASE I = {}
  BY <1>1, <1>2, <1>5 DEF i
<1>6. CASE I # {}
  <2>1. i \in 1 .. Len(s) /\ s[i] = "space"
    BY <1>1, <1>4, <1>6
  <2>2. \A j \in 1 .. i - 1 : j \in 1 .. Len(s) /\ ~(i <= j)
    BY <1>1, <2>1
  <2> QED
    BY <1>1, <1>4, <1>6, <2>1, <2>2 DEF i
<1> QED
  BY <1>5, <1>6

\* The end of a text is a text.
LEMMA FromType ==
  ASSUME NEW s \in Texts, NEW i \in Nat \ {0}
  PROVE  /\ From(s, i) \in Texts
         /\ Len(From(s, i)) = IF i <= Len(s) THEN Len(s) - i + 1 ELSE 0
         /\ \A j \in 1 .. Len(s) - i + 1 : From(s, i)[j] = s[i + j - 1]
<1>1. Len(s) \in Nat
  BY LenProperties DEF Texts
<1>2. \A j \in i .. Len(s) : s[j] \in Symbols
  BY <1>1, ElementOfSeq DEF Texts
<1>3. /\ SubSeq(s, i, Len(s)) \in Seq(Symbols)
      /\ Len(SubSeq(s, i, Len(s))) = IF i <= Len(s) THEN Len(s) - i + 1 ELSE 0
      /\ \A j \in 1 .. Len(s) - i + 1 : SubSeq(s, i, Len(s))[j] = s[i + j - 1]
  BY <1>1, <1>2, SubSeqProperties
<1> QED
  BY <1>3 DEF From, Texts

\* What decode makes of the text s in which white space has been stripped.
DecodeBody(s) ==
  LET i   == SelectInSeq(s, IsSpace)
      cmd == IF i = 0 THEN s ELSE SubSeq(s, 1, i - 1)
      m   == [type |-> cmd[1], args |-> IF i = 0 THEN << >> ELSE Arguments(cmd, s, i)]
  IN  IF Len(cmd) = 1 /\ cmd[1] \in Types /\ is_valid(m) THEN m ELSE NewMessage

\* The message decode makes, unless it is not valid.
MessageOf(type, rest) ==
  [type |-> type, args |-> IF rest = << >> THEN << >> ELSE ArgsIn(type, Tail(rest))]

\* A command and what follows it.
LEMMA BodyOf ==
  ASSUME NEW type \in Types, NEW rest \in Texts,
         rest # << >> => rest[1] = "space"
  PROVE  LET s == <<type>> \o rest
         IN  /\ s \in Texts /\ StripLeft(s) = s
             /\ DecodeBody(s) = IF is_valid(MessageOf(type, rest))
                                THEN MessageOf(type, rest) ELSE NewMessage
<1> DEFINE s == <<type>> \o rest
<1>1. type \in Words /\ type \in Symbols /\ type # "space"
  BY Alphabet
<1>2. <<type>> \in Texts /\ Len(<<type>>) = 1 /\ <<type>>[1] = type
  BY <1>1, OneSymbol DEF Texts
<1>3. Len(rest) \in Nat /\ (rest = << >> <=> Len(rest) = 0)
  BY LenProperties, EmptySeq DEF Texts
<1>4. /\ s \in Texts /\ Len(s) = 1 + Len(rest) /\ s[1] = type
      /\ \A j \in 1 .. Len(rest) : s[1 + j] = rest[j]
  <2>1. /\ s \in Texts /\ Len(s) = 1 + Len(rest)
        /\ \A j \in 1 .. 1 + Len(rest) :
             s[j] = IF j <= 1 THEN <<type>>[j] ELSE rest[j - 1]
    BY <1>2, <1>3, ConcatProperties DEF Texts
  <2> HIDE DEF s
  <2>2. \A j \in 1 .. Len(rest) : 1 + j \in 1 .. 1 + Len(rest) /\ ~(1 + j <= 1) /\ (1 + j) - 1 = j
    BY <1>3
  <2>3. 1 \in 1 .. 1 + Len(rest) /\ 1 <= 1
    BY <1>3
  <2> QED
    BY <1>2, <2>1, <2>2, <2>3
<1>5. rest = << >> => s = <<type>>
  BY <1>2, ConcatEmptySeq DEF Texts
<1> HIDE DEF s
<1>6. StripLeft(s) = s
  <2>1. SelectInSeq(s, NotWhite) = 1
    <3> DEFINE k == SelectInSeq(s, NotWhite)
    <3>1. \/ k = 0 /\ \A j \in 1 .. Len(s) : s[j] \notin Words
          \/ /\ k \in 1 .. Len(s) /\ s[k] \in Words
             /\ \A j \in 1 .. k - 1 : s[j] \notin Words
      BY <1>4, FirstWord
    <3> HIDE DEF k
    <3>2. 1 \in 1 .. Len(s) /\ s[1] \in Words
      BY <1>1, <1>3, <1>4
    <3>3. k \in 1 .. Len(s) /\ ~(1 \in 1 .. k - 1)
      BY <3>1, <3>2
    <3>4. k = 1
      BY <1>3, <1>4, <3>3
    <3> QED
      BY <3>4 DEF k
  <2>2. From(s, 1) = s
    BY <1>4, SubSeqFull DEF From, Texts
  <2> QED
    BY <2>1, <2>2 DEF StripLeft
<1> DEFINE i == SelectInSeq(s, IsSpace)
<1>7. \/ i = 0 /\ \A j \in 1 .. Len(s) : s[j] # "space"
      \/ /\ i \in 1 .. Len(s) /\ s[i] = "space"
         /\ \A j \in 1 .. i - 1 : s[j] # "space"
  BY <1>4, FirstSpace
<1> HIDE DEF i
<1>8. i = IF rest = << >> THEN 0 ELSE 2
  <2>1. CASE rest = << >>
    <3>1. i \in 1 .. Len(s) => i = 1
      BY <1>3, <1>4, <2>1
    <3> QED
      BY <1>1, <1>4, <1>7, <2>1, <3>1
  <2>2. CASE rest # << >>
    <3>1. 2 \in 1 .. Len(s) /\ 1 \in 1 .. Len(rest)
      BY <1>3, <1>4, <2>2
    <3>2. s[2] = "space"
      <4>1. s[1 + 1] = rest[1]
        BY <1>4, <3>1
      <4> QED
        BY <2>2, <4>1
    <3>3. i \in 1 .. Len(s) /\ i # 1 /\ ~(2 \in 1 .. i - 1)
      BY <1>1, <1>4, <1>7, <3>1, <3>2
    <3>4. i = 2
      BY <1>3, <1>4, <3>3
    <3> QED
      BY <2>2, <3>4
  <2> QED
    BY <2>1, <2>2
<1> DEFINE cmd == IF i = 0 THEN s ELSE SubSeq(s, 1, i - 1)
<1>9. cmd = <<type>>
  <2>1. CASE rest = << >>
    BY <1>5, <1>8, <2>1
  <2>2. CASE rest # << >>
    <3>1. 1 \in 1 .. Len(s)
      BY <1>3, <1>4
    <3>2. SubSeq(s, 1, 1) = <<s[1]>> \o SubSeq(s, 2, 1)
      BY <1>4, <3>1, SubSeqRecursiveFirst DEF Texts
    <3>3. SubSeq(s, 2, 1) = << >>
      BY SubSeqEmpty
    <3>4. SubSeq(s, 1, 1) = <<type>>
      BY <1>2, <1>4, <3>2, <3>3, ConcatEmptySeq DEF Texts
    <3> QED
      BY <1>8, <2>2, <3>4
  <2> QED
    BY <2>1, <2>2
<1>10. rest # << >> => From(s, 3) = Tail(rest)
  <2> SUFFICES ASSUME rest # << >> PROVE From(s, 3) = Tail(rest)
    OBVIOUS
  <2>1. /\ Tail(rest) \in Texts /\ Len(Tail(rest)) = Len(rest) - 1
        /\ \A j \in 1 .. Len(rest) - 1 : Tail(rest)[j] = rest[j + 1]
    BY HeadTailProperties DEF Texts
  <2>2. /\ From(s, 3) \in Texts /\ Len(From(s, 3)) = Len(rest) - 1
        /\ \A j \in 1 .. Len(rest) - 1 : From(s, 3)[j] = s[3 + j - 1]
    <3>1. 3 \in Nat \ {0} /\ Len(s) - 3 + 1 = Len(rest) - 1 /\ Len(rest) # 0
      BY <1>3, <1>4
    <3>2. (IF 3 <= Len(s) THEN Len(s) - 3 + 1 ELSE 0) = Len(rest) - 1
      BY <1>3, <1>4, <3>1
    <3>3. /\ From(s, 3) \in Texts
          /\ Len(From(s, 3)) = IF 3 <= Len(s) THEN Len(s) - 3 + 1 ELSE 0
          /\ \A j \in 1 .. Len(s) - 3 + 1 : From(s, 3)[j] = s[3 + j - 1]
      BY <1>4, <3>1, FromType
    <3> QED
      BY <3>1, <3>2, <3>3
  <2>3. \A j \in 1 .. Len(rest) - 1 : From(s, 3)[j] = Tail(rest)[j]
    <3> SUFFICES ASSUME NEW j \in 1 .. Len(rest) - 1
                 PROVE  From(s, 3)[j] = Tail(rest)[j]
      OBVIOUS
    <3>1. j + 1 \in 1 .. Len(rest) /\ 3 + j - 1 = 1 + (j + 1)
      BY <1>3
    <3>2. s[1 + (j + 1)] = rest[j + 1]
      BY <1>4, <3>1
    <3> QED
      BY <2>1, <2>2, <3>1, <3>2
  <2> QED
    BY <2>1, <2>2, <2>3, SeqEqual DEF Texts
<1> DEFINE m == [type |-> cmd[1], args |-> IF i = 0 THEN << >> ELSE Arguments(cmd, s, i)]
<1>11. m = MessageOf(type, rest)
  <2>1. rest # << >> => Arguments(<<type>>, s, 2) = ArgsIn(type, Tail(rest))
    <3> SUFFICES ASSUME rest # << >>
                 PROVE  Arguments(<<type>>, s, 2) = ArgsIn(type, Tail(rest))
      OBVIOUS
    <3>1. From(s, 2 + 1) = Tail(rest)
      BY <1>10
    <3>2. <<type>> \in {<<"FAILED">>, <<"ERROR">>} <=> type \in {"FAILED", "ERROR"}
      OBVIOUS
    <3> QED
      BY <3>1, <3>2, Zenon DEF Arguments, ArgsIn, Single
  <2>2. (IF i = 0 THEN << >> ELSE Arguments(cmd, s, i))
          = IF rest = << >> THEN << >> ELSE ArgsIn(type, Tail(rest))
    <3>1. rest = << >> => i = 0
      BY <1>8
    <3>2. rest # << >> => i = 2 /\ i # 0
      BY <1>8
    <3> HIDE DEF cmd
    <3>3. rest # << >> => Arguments(cmd, s, i) = ArgsIn(type, Tail(rest))
      BY <1>9, <2>1, <3>2, Zenon
    <3> QED
      BY <3>1, <3>2, <3>3, Zenon
  <2>3. cmd[1] = type
    BY <1>2, <1>9
  <2> QED
    BY <2>2, <2>3, Zenon DEF MessageOf
<1>12. DecodeBody(s) = IF Len(cmd) = 1 /\ cmd[1] \in Types /\ is_valid(m)
                       THEN m ELSE NewMessage
  BY Zenon DEF DecodeBody, i
<1>13. Len(cmd) = 1 /\ cmd[1] \in Types
  BY <1>2, <1>9
<1>14. DecodeBody(s) = IF is_valid(MessageOf(type, rest))
                       THEN MessageOf(type, rest) ELSE NewMessage
  BY <1>11, <1>12, <1>13, Zenon
<1> QED
  BY <1>4, <1>6, <1>14 DEF s

\* encode writes the command, the rest and a newline, if that is not too long.
LEMMA Encoded ==
  ASSUME NEW type \in Types, NEW args \in Seq(Texts)
  PROVE  LET m    == [type |-> type, args |-> args]
             rest == FlattenSeq(Spaced(args))
         IN  /\ Len(rest) + 2 <= MaxLen =>
                  /\ encode(m) = (<<type>> \o rest) \o <<"newline">>
                  /\ Len(encode(m)) = Len(rest) + 2
                  /\ encode(m) # << >>
             /\ ~(Len(rest) + 2 <= MaxLen) => encode(m) = << >>
<1> DEFINE m    == [type |-> type, args |-> args]
           rest == FlattenSeq(Spaced(args))
           text == (<<type>> \o rest) \o <<"newline">>
<1>1. encode(m) = IF Len(text) <= MaxLen THEN text ELSE << >>
  <2>1. m.type = type /\ m.args = args
    OBVIOUS
  <2> QED
    BY <2>1, Zenon DEF encode, Spaced
<1>2. rest \in Texts
  BY RestOfLine
<1>3. type \in Symbols /\ "newline" \in Symbols
  BY Alphabet
<1> HIDE DEF rest, m
<1>4. /\ <<type>> \in Texts /\ <<"newline">> \in Texts
      /\ Len(<<type>>) = 1 /\ Len(<<"newline">>) = 1
  BY <1>3, OneSymbol DEF Texts
<1>5. Len(text) = Len(rest) + 2 /\ text # << >>
  <2>1. Len(rest) \in Nat
    BY <1>2, LenProperties DEF Texts
  <2>2. <<type>> \o rest \in Texts /\ Len(<<type>> \o rest) = 1 + Len(rest)
    BY <1>2, <1>4, ConcatProperties DEF Texts
  <2>3. text \in Texts /\ Len(text) = (1 + Len(rest)) + 1
    BY <1>4, <2>2, ConcatProperties DEF Texts
  <2> HIDE DEF text
  <2>4. Len(text) = Len(rest) + 2 /\ Len(text) # 0
    BY <2>1, <2>3
  <2> QED
    BY <2>4, EmptySeq
<1> HIDE DEF text
<1> QED
  BY <1>1, <1>5 DEF text, m, rest

\* What stands before the end, and the end.
LEMMA FrontLast ==
  ASSUME NEW S, NEW s \in Seq(S), NEW x \in S
  PROVE  Front(Append(s, x)) = s /\ Last(Append(s, x)) = x
<1>1. PICK N \in Nat : N = Len(s)
  BY LenProperties
<1> DEFINE t == Append(s, x)
<1>2. /\ t \in Seq(S) /\ Len(t) = N + 1 /\ t[N + 1] = x
      /\ \A i \in 1 .. N : t[i] = s[i]
  BY <1>1, AppendProperties
<1> HIDE DEF t
<1>3. /\ SubSeq(t, 1, N) \in Seq(S) /\ Len(SubSeq(t, 1, N)) = N
      /\ \A i \in 1 .. N : SubSeq(t, 1, N)[i] = t[i]
  <2>1. \A i \in 1 .. N : t[i] \in S
    BY <1>2, ElementOfSeq
  <2>2. /\ SubSeq(t, 1, N) \in Seq(S)
        /\ Len(SubSeq(t, 1, N)) = IF 1 <= N THEN N - 1 + 1 ELSE 0
        /\ \A i \in 1 .. N - 1 + 1 : SubSeq(t, 1, N)[i] = t[1 + i - 1]
    BY <2>1, SubSeqProperties
  <2>3. (IF 1 <= N THEN N - 1 + 1 ELSE 0) = N /\ N - 1 + 1 = N
    OBVIOUS
  <2>4. \A i \in 1 .. N : 1 + i - 1 = i
    OBVIOUS
  <2> QED
    BY <2>2, <2>3, <2>4
<1>4. SubSeq(t, 1, N) = s
  BY <1>1, <1>2, <1>3, SeqEqual
<1>5. Len(t) - 1 = N
  BY <1>2
<1> QED
  BY <1>2, <1>4, <1>5 DEF Front, Last, t

\* A line that is not empty, too long or without a newline is decoded from
\* its first word on.
LEMMA DecodeIs ==
  ASSUME NEW x, x # << >>, ~TooLong(x), Last(x) = "newline"
  PROVE  decode(x) = DecodeBody(StripLeft(Front(x)))
BY Zenon DEF decode, DecodeBody

\* What decode makes of a line that encode wrote.
LEMMA DecodeEncoded ==
  ASSUME NEW type \in Types, NEW args \in Seq(Texts)
  PROVE  LET m    == [type |-> type, args |-> args]
             rest == FlattenSeq(Spaced(args))
         IN  /\ encode(m) = << >> => decode(encode(m)) = NewMessage
             /\ encode(m) # << >> =>
                  decode(encode(m)) = IF is_valid(MessageOf(type, rest))
                                      THEN MessageOf(type, rest) ELSE NewMessage
<1> DEFINE m    == [type |-> type, args |-> args]
           rest == FlattenSeq(Spaced(args))
           s    == <<type>> \o rest
<1>1. decode(<< >>) = NewMessage
  BY Zenon DEF decode
<1>2. rest \in Texts /\ (rest # << >> => rest[1] = "space")
  BY RestOfLine
<1>3. /\ Len(rest) + 2 <= MaxLen => encode(m) = s \o <<"newline">> /\ Len(encode(m)) = Len(rest) + 2
      /\ ~(Len(rest) + 2 <= MaxLen) => encode(m) = << >>
  BY Encoded
<1> HIDE DEF m, rest
<1>4. /\ s \in Texts /\ StripLeft(s) = s
      /\ DecodeBody(s) = IF is_valid(MessageOf(type, rest))
                         THEN MessageOf(type, rest) ELSE NewMessage
  BY <1>2, BodyOf
<1> HIDE DEF s
<1>5. ASSUME encode(m) # << >> PROVE decode(encode(m)) = DecodeBody(s)
  <2>1. Len(rest) + 2 <= MaxLen /\ encode(m) = s \o <<"newline">> /\ Len(encode(m)) = Len(rest) + 2
    BY <1>3, <1>5
  <2> DEFINE x == s \o <<"newline">>
  <2>2. x = Append(s, "newline")
    BY <1>4, Alphabet, AppendIsConcat DEF Texts
  <2>3. x \in Texts /\ Last(x) = "newline" /\ Front(x) = s /\ x # << >>
    <3>1. "newline" \in Symbols
      BY Alphabet
    <3>2. Last(Append(s, "newline")) = "newline" /\ Front(Append(s, "newline")) = s
      BY <1>4, <3>1, FrontLast DEF Texts
    <3>3. Append(s, "newline") # << >> /\ Append(s, "newline") \in Texts
      BY <1>4, <3>1, AppendProperties DEF Texts
    <3> QED
      BY <2>2, <3>2, <3>3
  <2>4. ~TooLong(x)
    BY <2>1, <1>2, LenProperties, CodecAssumption DEF TooLong, Texts
  <2> HIDE DEF x
  <2>5. decode(x) = DecodeBody(StripLeft(Front(x)))
    BY <2>3, <2>4, DecodeIs
  <2>6. encode(m) = x
    BY <2>1 DEF x
  <2> QED
    BY <1>4, <2>3, <2>5, <2>6
<1> QED
  BY <1>1, <1>4, <1>5 DEF m, rest

\* The space before the arguments is no word.
LEMMA TailWords ==
  ASSUME NEW rest \in Texts, rest # << >>, rest[1] = "space"
  PROVE  Tail(rest) \in Texts /\ WordsOf(Tail(rest)) = WordsOf(rest)
<1>1. Tail(rest) \in Texts
  BY HeadTailProperties DEF Texts
<1>2. rest = <<"space">> \o Tail(rest)
  <2>1. PICK N \in Nat : N = Len(rest)
    BY LenProperties DEF Texts
  <2>2. N # 0 /\ rest = SubSeq(rest, 1, N) /\ Tail(rest) = SubSeq(rest, 2, N)
    BY <2>1, EmptySeq, SubSeqFull, TailIsSubSeq DEF Texts
  <2>3. SubSeq(rest, 1, N) = <<rest[1]>> \o SubSeq(rest, 2, N)
    <3>1. 1 \in 1 .. Len(rest) /\ N \in 1 .. Len(rest) /\ 1 + 1 = 2
      BY <2>1, <2>2
    <3>2. SubSeq(rest, 1, N) = <<rest[1]>> \o SubSeq(rest, 1 + 1, N)
      BY <3>1, SubSeqRecursiveFirst DEF Texts
    <3> QED
      BY <3>1, <3>2
  <2> QED
    BY <2>2, <2>3
<1>3. <<"space">> \in Texts /\ WordsOf(<<"space">>) = << >>
  BY Alphabet, OneSymbol, WordsOne DEF Texts
<1>4. WordsOf(<<"space">> \o Tail(rest)) = << >> \o WordsOf(Tail(rest))
  BY <1>1, <1>3, WordsConcat
<1>5. << >> \o WordsOf(Tail(rest)) = WordsOf(Tail(rest))
  BY <1>1, WordsType, ConcatEmptySeq
<1> QED
  BY <1>1, <1>2, <1>4, <1>5

\* One argument is written after one space.
LEMMA OneArgument ==
  ASSUME NEW a \in Texts
  PROVE  LET rest == FlattenSeq(Spaced(<<a>>))
         IN  FlattenSeq(<<a>>) = a /\ rest # << >> /\ Tail(rest) = a
<1> DEFINE sp == <<"space">> \o a
<1>1. << >> \in Seq(Texts) /\ << >> \in Texts /\ Append(<< >>, a) = <<a>>
  BY EmptySeq DEF Texts
<1>2. sp \in Texts /\ Spaced(<<a>>) = Append(<< >>, sp)
  <2>1. sp \in Texts /\ Spaced(Append(<< >>, a)) = Append(Spaced(<< >>), sp)
    BY <1>1, SpacedAppend
  <2> HIDE DEF sp
  <2> QED
    BY <1>1, <2>1, SpacedEmpty
<1>3. /\ \A b \in Texts : FlattenSeq(Append(<< >>, b)) = << >> \o b
      /\ \A b \in Texts : << >> \o b = b
  <2>1. \A b \in Texts : << >> \o b = b
    BY ConcatEmptySeq DEF Texts
  <2>2. \A b \in Texts : FlattenSeq(Append(<< >>, b)) = FlattenSeq(<< >>) \o b
    BY <1>1, FlattenAppend DEF Texts
  <2> QED
    BY <2>1, <2>2, FlattenEmpty
<1> HIDE DEF sp
<1>4. FlattenSeq(<<a>>) = a /\ FlattenSeq(Spaced(<<a>>)) = sp
  BY <1>1, <1>2, <1>3
<1>5. sp # << >> /\ Tail(sp) = a
  <2>1. <<"space">> \in Texts /\ Len(<<"space">>) = 1
    BY Alphabet, OneSymbol DEF Texts
  <2>2. PICK N \in Nat : N = Len(a)
    BY LenProperties DEF Texts
  <2>3. /\ Len(sp) = 1 + N
        /\ \A i \in 1 .. 1 + N : sp[i] = IF i <= 1 THEN <<"space">>[i] ELSE a[i - 1]
    BY <2>1, <2>2, ConcatProperties DEF sp, Texts
  <2>4. Len(sp) # 0
    BY <2>3
  <2>5. sp # << >>
    BY <2>4, EmptySeq
  <2>6. /\ Tail(sp) \in Texts /\ Len(Tail(sp)) = Len(sp) - 1
        /\ \A i \in 1 .. Len(sp) - 1 : Tail(sp)[i] = sp[i + 1]
    BY <1>2, <2>5, HeadTailProperties DEF Texts
  <2>7. \A i \in 1 .. N : i + 1 \in 1 .. 1 + N /\ ~(i + 1 <= 1) /\ (i + 1) - 1 = i
    OBVIOUS
  <2>8. Len(sp) - 1 = N
    BY <2>3
  <2>9. \A i \in 1 .. N : Tail(sp)[i] = a[i]
    BY <2>3, <2>6, <2>7, <2>8
  <2> QED
    BY <2>2, <2>5, <2>6, <2>8, <2>9, SeqEqual DEF Texts
<1> QED
  BY <1>4, <1>5

\* The arguments of a valid message are words, except the text of an error.
LEMMA ValidWords ==
  ASSUME NEW type, NEW args \in Seq(Texts),
         is_valid([type |-> type, args |-> args]), type \notin {"FAILED", "ERROR"}
  PROVE  \E ws \in Seq(Words) : args = Single(ws)
<1> DEFINE m == [type |-> type, args |-> args]
<1>1. m.type = type /\ m.args = args
  OBVIOUS
<1>2. Len(args) \in Nat /\ DOMAIN args = 1 .. Len(args) /\ \A i \in 1 .. Len(args) : args[i] \in Texts
  BY LenProperties, ElementOfSeq
<1>3. args = << >> => Len(args) = 0
  BY EmptySeq
<1>4. \/ Len(args) = 0
      \/ Len(args) = 1 /\ IsWord(args[1])
      \/ Len(args) = 2 /\ IsWord(args[1]) /\ IsWord(args[2])
  BY <1>1, <1>3 DEF is_valid, is_identifier, is_value
<1>5. \A i \in 1 .. Len(args) : IsWord(args[i])
  <2>1. \A i \in 1 .. Len(args) : i = 1 \/ (i = 2 /\ Len(args) = 2)
    BY <1>2, <1>4
  <2> QED
    BY <1>2, <1>4, <2>1
<1>6. \A i \in 1 .. Len(args) : args[i][1] \in Words /\ args[i] = <<args[i][1]>>
  <2> SUFFICES ASSUME NEW i \in 1 .. Len(args)
               PROVE  args[i][1] \in Words /\ args[i] = <<args[i][1]>>
    OBVIOUS
  <2>1. args[i] \in Texts /\ Len(args[i]) = 1 /\ args[i][1] \in Words
    BY <1>2, <1>5 DEF IsWord
  <2>2. PICK w \in Words : w = args[i][1]
    BY <2>1
  <2>3. <<w>> \in Texts /\ Len(<<w>>) = 1 /\ <<w>>[1] = w
    BY Alphabet, OneSymbol DEF Texts
  <2>4. args[i] = <<w>>
    BY <2>1, <2>2, <2>3, SeqEqual DEF Texts
  <2> QED
    BY <2>2, <2>4
<1> DEFINE ws == [j \in 1 .. Len(args) |-> args[j][1]]
<1>7. ws \in Seq(Words) /\ Len(ws) = Len(args)
  BY <1>2, <1>6, IsASeq
<1>8. args = Single(ws)
  <2>1. /\ Single(ws) \in Seq(Texts) /\ Len(Single(ws)) = Len(ws)
        /\ \A i \in 1 .. Len(ws) : Single(ws)[i] = <<ws[i]>>
    BY <1>7, SingleWords
  <2>2. \A i \in 1 .. Len(args) : ws[i] = args[i][1]
    OBVIOUS
  <2> HIDE DEF ws
  <2>3. \A i \in 1 .. Len(args) : Single(ws)[i] = args[i]
    BY <1>6, <1>7, <2>1, <2>2
  <2> QED
    BY <1>7, <2>1, <2>3, SeqEqual
<1> QED
  BY <1>7, <1>8

\* A valid message is read from what encode writes.
LEMMA ReadBack ==
  ASSUME NEW type \in Types, NEW args \in Seq(Texts),
         is_valid([type |-> type, args |-> args])
  PROVE  MessageOf(type, FlattenSeq(Spaced(args))) = [type |-> type, args |-> args]
<1> DEFINE rest == FlattenSeq(Spaced(args))
<1>1. /\ rest \in Texts
      /\ args = << >> => rest = << >>
      /\ args # << >> => rest # << >> /\ rest[1] = "space"
      /\ WordsOf(rest) = WordsOf(FlattenSeq(args))
  BY RestOfLine
<1> SUFFICES (IF rest = << >> THEN << >> ELSE ArgsIn(type, Tail(rest))) = args
  BY Zenon DEF MessageOf
<1>2. CASE args = << >>
  BY <1>1, <1>2, Zenon
<1>3. CASE args # << >> /\ type \in {"FAILED", "ERROR"}
  <2>1. Len(args) = 1
    <3> DEFINE m == [type |-> type, args |-> args]
    <3>1. m.type = type /\ m.args = args /\ is_valid(m)
      OBVIOUS
    <3> HIDE DEF m
    <3> QED
      BY <1>3, <3>1 DEF is_valid, NoArgTypes
  <2>2. PICK a \in Texts : args = <<a>>
    <3>1. args[1] \in Texts
      <4>1. 1 \in 1 .. Len(args)
        BY <2>1
      <4> QED
        BY <4>1, ElementOfSeq
    <3>2. <<args[1]>> \in Seq(Texts) /\ Len(<<args[1]>>) = 1 /\ <<args[1]>>[1] = args[1]
      BY <3>1, OneSymbol
    <3>3. \A i \in 1 .. 1 : i = 1
      OBVIOUS
    <3>4. args = <<args[1]>>
      BY <2>1, <3>2, <3>3, SeqEqual
    <3> QED
      BY <3>1, <3>4
  <2>3. rest # << >> /\ Tail(rest) = a
    BY <2>2, OneArgument
  <2> HIDE DEF rest
  <2>4. ArgsIn(type, Tail(rest)) = <<a>>
    BY <1>3, <2>3, Zenon DEF ArgsIn
  <2> QED
    BY <2>2, <2>3, <2>4, Zenon
<1>4. CASE args # << >> /\ type \notin {"FAILED", "ERROR"}
  <2>1. PICK ws \in Seq(Words) : args = Single(ws)
    BY <1>4, ValidWords
  <2>2. WordsOf(Tail(rest)) = WordsOf(rest)
    BY <1>1, <1>4, TailWords
  <2>3. WordsOf(FlattenSeq(args)) = ws
    BY <2>1, FlattenSingle, WordsOfWords
  <2> HIDE DEF rest
  <2>4. WordsOf(Tail(rest)) = ws
    BY <1>1, <2>2, <2>3
  <2>5. ArgsIn(type, Tail(rest)) = Single(ws)
    BY <1>4, <2>4, Zenon DEF ArgsIn
  <2> QED
    BY <1>1, <1>4, <2>1, <2>5, Zenon
<1> QED
  BY <1>2, <1>3, <1>4

\* No words are lost on the way, and none are added.
LEMMA SameWords ==
  ASSUME NEW type \in Types, NEW args \in Seq(Texts)
  PROVE  AllWords(MessageOf(type, FlattenSeq(Spaced(args))))
           = AllWords([type |-> type, args |-> args])
<1> DEFINE rest == FlattenSeq(Spaced(args))
           back == IF rest = << >> THEN << >> ELSE ArgsIn(type, Tail(rest))
<1>1. /\ rest \in Texts
      /\ rest # << >> => rest[1] = "space"
      /\ WordsOf(rest) = WordsOf(FlattenSeq(args))
  BY RestOfLine
<1> HIDE DEF rest
<1>2. WordsOf(FlattenSeq(back)) = WordsOf(rest)
  <2>1. CASE rest = << >>
    BY <2>1, FlattenEmpty, Zenon
  <2>2. CASE rest # << >>
    <3> DEFINE t == Tail(rest)
    <3>1. t \in Texts /\ WordsOf(t) = WordsOf(rest)
      BY <1>1, <2>2, TailWords
    <3> HIDE DEF t
    <3>2. back = ArgsIn(type, t)
      BY <2>2, Zenon DEF t
    <3>3. CASE type \in {"FAILED", "ERROR"}
      <4>1. back = <<t>>
        BY <3>2, <3>3, Zenon DEF ArgsIn
      <4>2. FlattenSeq(<<t>>) = t
        BY <3>1, OneArgument
      <4> QED
        BY <3>1, <4>1, <4>2, Zenon
    <3>4. CASE type \notin {"FAILED", "ERROR"}
      <4>1. back = Single(WordsOf(t))
        BY <3>2, <3>4, Zenon DEF ArgsIn
      <4>2. WordsOf(t) \in Seq(Words)
        BY <3>1, WordsType
      <4>3. FlattenSeq(Single(WordsOf(t))) = WordsOf(t) /\ WordsOf(WordsOf(t)) = WordsOf(t)
        BY <4>2, FlattenSingle, WordsOfWords
      <4> QED
        BY <3>1, <4>1, <4>3, Zenon
    <3> QED
      BY <3>3, <3>4
  <2> QED
    BY <2>1, <2>2
<1> HIDE DEF back
<1>3. MessageOf(type, rest) = [type |-> type, args |-> back]
  BY Zenon DEF MessageOf, back
<1>4. /\ AllWords([type |-> type, args |-> back]) = <<type>> \o WordsOf(FlattenSeq(back))
      /\ AllWords([type |-> type, args |-> args]) = <<type>> \o WordsOf(FlattenSeq(args))
  BY Zenon DEF AllWords
<1> QED
  BY <1>1, <1>2, <1>3, <1>4 DEF rest

\* A message that is encoded and decoded is the same if it is valid, and has
\* the same words in any case.
LEMMA RoundTripOf ==
  ASSUME NEW type \in Types, NEW args \in Seq(Texts)
  PROVE  LET m    == [type |-> type, args |-> args]
             back == decode(encode(m))
         IN  /\ is_valid(m) /\ encode(m) # << >> => back = m
             /\ back # NewMessage => AllWords(back) = AllWords(m)
<1> DEFINE m    == [type |-> type, args |-> args]
           rest == FlattenSeq(Spaced(args))
<1>1. /\ encode(m) = << >> => decode(encode(m)) = NewMessage
      /\ encode(m) # << >> =>
           decode(encode(m)) = IF is_valid(MessageOf(type, rest))
                               THEN MessageOf(type, rest) ELSE NewMessage
  BY DecodeEncoded
<1>2. is_valid(m) => MessageOf(type, rest) = m
  BY ReadBack
<1>3. AllWords(MessageOf(type, rest)) = AllWords(m)
  BY SameWords
<1> HIDE DEF m, rest
<1> QED
  BY <1>1, <1>2, <1>3, Zenon DEF m

\* The end of a text has its white space.
LEMMA FromApart ==
  ASSUME NEW s \in Texts, Apart(s), NEW i \in Nat \ {0}
  PROVE  Apart(From(s, i))
<1>1. Len(s) \in Nat
  BY LenProperties DEF Texts
<1>2. /\ Len(From(s, i)) = IF i <= Len(s) THEN Len(s) - i + 1 ELSE 0
      /\ \A j \in 1 .. Len(s) - i + 1 : From(s, i)[j] = s[i + j - 1]
  BY FromType
<1> SUFFICES ASSUME NEW j \in 1 .. Len(From(s, i)) - 1
             PROVE  ~(From(s, i)[j] \in Words /\ From(s, i)[j + 1] \in Words)
  BY DEF Apart
<1>3. /\ j \in 1 .. Len(s) - i + 1 /\ j + 1 \in 1 .. Len(s) - i + 1
      /\ i + (j + 1) - 1 = (i + j - 1) + 1 /\ i + j - 1 \in 1 .. Len(s) - 1
  BY <1>1, <1>2
<1>4. From(s, i)[j] = s[i + j - 1] /\ From(s, i)[j + 1] = s[(i + j - 1) + 1]
  BY <1>2, <1>3
<1> QED
  BY <1>3, <1>4 DEF Apart

\* What remains of a line without its newline and the white space before the
\* command.
LEMMA StrippedLine ==
  ASSUME NEW x \in Texts, x # << >>, Apart(x)
  PROVE  LET s == StripLeft(Front(x))
         IN  s \in Texts /\ Len(s) + 1 <= Len(x) /\ Apart(s)
<1>1. PICK N \in Nat : N + 1 = Len(x)
  <2>1. Len(x) \in Nat /\ Len(x) # 0
    BY EmptySeq, LenProperties DEF Texts
  <2>2. Len(x) - 1 \in Nat /\ (Len(x) - 1) + 1 = Len(x)
    BY <2>1
  <2> QED
    BY <2>2
<1> DEFINE f == Front(x)
<1>2. f \in Texts /\ Len(f) = N /\ \A i \in 1 .. N : f[i] = x[i]
  <2>1. \A i \in 1 .. N : x[i] \in Symbols
    <3>1. \A i \in 1 .. N : i \in 1 .. Len(x)
      BY <1>1
    <3> QED
      BY <3>1, ElementOfSeq DEF Texts
  <2>2. /\ SubSeq(x, 1, N) \in Seq(Symbols)
        /\ Len(SubSeq(x, 1, N)) = IF 1 <= N THEN N - 1 + 1 ELSE 0
        /\ \A i \in 1 .. N - 1 + 1 : SubSeq(x, 1, N)[i] = x[1 + i - 1]
    BY <2>1, SubSeqProperties
  <2>3. (IF 1 <= N THEN N - 1 + 1 ELSE 0) = N /\ N - 1 + 1 = N
    OBVIOUS
  <2>4. \A i \in 1 .. N : 1 + i - 1 = i
    OBVIOUS
  <2>5. f = SubSeq(x, 1, N)
    <3>1. Len(x) - 1 = N
      BY <1>1
    <3> QED
      BY <3>1 DEF Front
  <2> HIDE DEF f
  <2> QED
    BY <2>2, <2>3, <2>4, <2>5 DEF Texts
<1> HIDE DEF f
<1>3. Apart(f)
  <2> SUFFICES ASSUME NEW i \in 1 .. N - 1
               PROVE  ~(f[i] \in Words /\ f[i + 1] \in Words)
    BY <1>2 DEF Apart
  <2>1. i \in 1 .. N /\ i + 1 \in 1 .. N /\ i \in 1 .. Len(x) - 1
    BY <1>1
  <2> QED
    BY <1>2, <2>1 DEF Apart
<1> DEFINE k == SelectInSeq(f, NotWhite)
<1>4. k = 0 \/ k \in 1 .. N
  BY <1>2, FirstWord
<1>5. StripLeft(f) = IF k = 0 THEN << >> ELSE From(f, k)
  BY Zenon DEF StripLeft
<1> HIDE DEF k
<1>6. CASE k = 0
  <2>1. << >> \in Texts /\ Len(<< >>) = 0
    BY EmptySeq DEF Texts
  <2>2. Apart(<< >>)
    BY <2>1 DEF Apart
  <2>3. StripLeft(f) = << >>
    BY <1>5, <1>6
  <2> QED
    BY <1>1, <2>1, <2>2, <2>3 DEF f
<1>7. CASE k \in 1 .. N
  <2>1. k \in Nat \ {0} /\ k <= N
    BY <1>7
  <2>2. /\ From(f, k) \in Texts
        /\ Len(From(f, k)) = IF k <= N THEN N - k + 1 ELSE 0
        /\ Apart(From(f, k))
    BY <1>2, <1>3, <2>1, FromType, FromApart
  <2>3. StripLeft(f) = From(f, k)
    BY <1>5, <2>1, Zenon
  <2>4. Len(From(f, k)) + 1 <= Len(x)
    BY <1>1, <2>1, <2>2
  <2> QED
    BY <2>2, <2>3, <2>4 DEF f
<1> QED
  BY <1>4, <1>6, <1>7

\* The arguments that decode makes of a text, and the room that encode needs
\* for them: one space at most is written for what stood before a word.
LEMMA RoomForArguments ==
  ASSUME NEW type \in Types, NEW t \in Texts, Apart(t)
  PROVE  /\ ArgsIn(type, t) \in Seq(Texts)
         /\ Len(FlattenSeq(Spaced(ArgsIn(type, t)))) <= Len(t) + 1
<1>1. CASE type \in {"FAILED", "ERROR"}
  <2>1. ArgsIn(type, t) = <<t>>
    BY <1>1, Zenon DEF ArgsIn
  <2>2. <<t>> \in Seq(Texts)
    BY OneSymbol
  <2> DEFINE rest == FlattenSeq(Spaced(<<t>>))
  <2>3. rest \in Texts /\ rest # << >> /\ Tail(rest) = t
    BY <2>2, RestOfLine, OneArgument
  <2> HIDE DEF rest
  <2>4. Len(t) = Len(rest) - 1 /\ Len(rest) \in Nat
    BY <2>3, HeadTailProperties, LenProperties DEF Texts
  <2>5. Len(rest) <= Len(t) + 1
    BY <2>4
  <2> QED
    BY <2>1, <2>2, <2>5 DEF rest
<1>2. CASE type \notin {"FAILED", "ERROR"}
  <2> DEFINE ws == WordsOf(t)
  <2>1. ArgsIn(type, t) = Single(ws)
    BY <1>2, Zenon DEF ArgsIn
  <2>2. ws \in Seq(Words) /\ 2 * Len(ws) <= Len(t) + 1
    BY WordsType, WordsShorter
  <2> HIDE DEF ws
  <2>3. Single(ws) \in Seq(Texts) /\ Len(FlattenSeq(Spaced(Single(ws)))) = 2 * Len(ws)
    BY <2>2, SingleWords, FlattenSingle
  <2> QED
    BY <2>1, <2>2, <2>3
<1> QED
  BY <1>1, <1>2

\* What decode accepts is a valid message, and there is room for it.
LEMMA AcceptedBody ==
  ASSUME NEW s \in Texts, Apart(s), DecodeBody(s) # NewMessage
  PROVE  \E type \in Types, args \in Seq(Texts) :
           /\ DecodeBody(s) = [type |-> type, args |-> args]
           /\ is_valid([type |-> type, args |-> args])
           /\ Len(FlattenSeq(Spaced(args))) + 1 <= Len(s)
<1> DEFINE i   == SelectInSeq(s, IsSpace)
           cmd == IF i = 0 THEN s ELSE SubSeq(s, 1, i - 1)
           args == IF i = 0 THEN << >> ELSE Arguments(cmd, s, i)
           m   == [type |-> cmd[1], args |-> args]
<1>1. Len(cmd) = 1 /\ cmd[1] \in Types /\ is_valid(m) /\ DecodeBody(s) = m
  <2>1. DecodeBody(s) = IF Len(cmd) = 1 /\ cmd[1] \in Types /\ is_valid(m)
                        THEN m ELSE NewMessage
    BY Zenon DEF DecodeBody
  <2> HIDE DEF m, cmd
  <2> QED
    BY <2>1, Zenon
<1>2. i = 0 \/ i \in 1 .. Len(s)
  BY FirstSpace
<1>3. Len(s) \in Nat
  BY LenProperties DEF Texts
<1> HIDE DEF i
<1>4. args \in Seq(Texts) /\ Len(FlattenSeq(Spaced(args))) + 1 <= Len(s)
  <2>1. CASE i = 0
    <3>1. args = << >> /\ cmd = s
      BY <2>1, Zenon
    <3>2. << >> \in Seq(Texts) /\ Len(FlattenSeq(Spaced(<< >>))) = 0
      BY EmptySeq, SpacedEmpty, FlattenEmpty
    <3>3. Len(s) = 1
      BY <1>1, <3>1
    <3> HIDE DEF args, cmd
    <3> QED
      BY <3>1, <3>2, <3>3
  <2>2. CASE i \in 1 .. Len(s)
    <3>1. i # 0 /\ i - 1 \in Nat
      BY <1>3, <2>2
    <3>2. cmd = SubSeq(s, 1, i - 1) /\ args = Arguments(cmd, s, i)
      BY <3>1, Zenon
    <3>3. Len(SubSeq(s, 1, i - 1)) = i - 1
      <4> DEFINE n == i - 1
      <4>1. n \in Nat /\ \A j \in 1 .. n : j \in 1 .. Len(s)
        BY <1>3, <2>2
      <4> HIDE DEF n
      <4>2. \A j \in 1 .. n : s[j] \in Symbols
        BY <4>1, ElementOfSeq DEF Texts
      <4>3. Len(SubSeq(s, 1, n)) = IF 1 <= n THEN n - 1 + 1 ELSE 0
        BY <4>1, <4>2, SubSeqProperties
      <4>4. Len(SubSeq(s, 1, n)) = n
        BY <4>1, <4>3
      <4> QED
        BY <4>4 DEF n
    <3>4. i = 2 /\ 2 <= Len(s)
      <4>1. i - 1 = 1
        BY <1>1, <3>2, <3>3, Zenon
      <4> QED
        BY <1>3, <2>2, <4>1
    <3> DEFINE t == From(s, 3)
    <3>5. t \in Texts /\ Len(t) + 2 = Len(s) /\ Apart(t) /\ Len(t) \in Nat
      <4>1. 3 \in Nat \ {0}
        OBVIOUS
      <4>2. /\ t \in Texts /\ Len(t) = IF 3 <= Len(s) THEN Len(s) - 3 + 1 ELSE 0
            /\ Apart(t)
        BY <4>1, FromType, FromApart
      <4>3. PICK N \in Nat : N = Len(s)
        BY <1>3
      <4> HIDE DEF t
      <4>4. Len(t) = IF 3 <= N THEN N - 3 + 1 ELSE 0
        BY <4>2, <4>3
      <4>5. 2 <= N
        BY <3>4, <4>3
      <4>6. (IF 3 <= N THEN N - 3 + 1 ELSE 0) + 2 = N
        BY <4>5
      <4>7. Len(t) \in Nat
        BY <4>2, LenProperties DEF Texts
      <4> QED
        BY <4>2, <4>3, <4>4, <4>6, <4>7, Zenon
    <3> DEFINE type == cmd[1]
    <3>6. cmd = <<type>>
      <4>1. 1 \in 1 .. Len(s)
        BY <1>3, <3>4
      <4>2. SubSeq(s, 1, 1) = <<s[1]>> \o SubSeq(s, 2, 1)
        <5>1. SubSeq(s, 1, 1) = <<s[1]>> \o SubSeq(s, 1 + 1, 1)
          BY <4>1, SubSeqRecursiveFirst DEF Texts
        <5> QED
          BY <5>1
      <4>3. SubSeq(s, 2, 1) = << >>
        BY SubSeqEmpty
      <4>4. <<s[1]>> \in Texts /\ <<s[1]>>[1] = s[1]
        BY <4>1, ElementOfSeq, OneSymbol DEF Texts
      <4>5. SubSeq(s, 1, 1) = <<s[1]>>
        BY <4>2, <4>3, <4>4, ConcatEmptySeq DEF Texts
      <4>6. cmd = SubSeq(s, 1, 1)
        <5>1. i - 1 = 1
          BY <3>4
        <5> QED
          BY <3>2, <5>1, Zenon
      <4> HIDE DEF cmd
      <4> QED
        BY <4>4, <4>5, <4>6
    <3>7. args = ArgsIn(type, t)
      <4>1. From(s, i + 1) = t
        <5>1. i + 1 = 3
          BY <3>4
        <5> QED
          BY <5>1, Zenon
      <4>2. args = Arguments(<<type>>, s, i)
        BY <3>2, <3>6, Zenon
      <4> HIDE DEF t, type, args
      <4>3. <<type>> \in {<<"FAILED">>, <<"ERROR">>} <=> type \in {"FAILED", "ERROR"}
        OBVIOUS
      <4> QED
        BY <4>1, <4>2, <4>3, Zenon DEF Arguments, ArgsIn, Single
    <3>8. type \in Types
      BY <1>1
    <3> HIDE DEF t, type, args, cmd
    <3>9. args \in Seq(Texts) /\ Len(FlattenSeq(Spaced(args))) <= Len(t) + 1
      BY <3>5, <3>7, <3>8, RoomForArguments
    <3>10. Len(FlattenSeq(Spaced(args))) \in Nat
      BY <3>9, RestOfLine, LenProperties DEF Texts
    <3> QED
      BY <3>5, <3>9, <3>10
  <2> QED
    BY <1>2, <2>1, <2>2
<1> HIDE DEF cmd, args
<1>5. PICK type \in Types : type = cmd[1]
  BY <1>1
<1> QED
  BY <1>1, <1>4, <1>5, Zenon

\* The same of a line, with the newline.
LEMMA AcceptedLine ==
  ASSUME NEW x \in Texts, Apart(x), decode(x) # NewMessage
  PROVE  \E type \in Types, args \in Seq(Texts) :
           /\ decode(x) = [type |-> type, args |-> args]
           /\ is_valid([type |-> type, args |-> args])
           /\ Len(FlattenSeq(Spaced(args))) + 2 <= Len(x)
           /\ Len(x) <= MaxLen
<1>1. x # << >> /\ ~TooLong(x) /\ Last(x) = "newline"
  BY Zenon DEF decode
<1> DEFINE s == StripLeft(Front(x))
<1>2. s \in Texts /\ Len(s) + 1 <= Len(x) /\ Apart(s)
  BY <1>1, StrippedLine
<1>3. decode(x) = DecodeBody(s)
  BY <1>1, DecodeIs
<1> HIDE DEF s
<1>4. PICK type \in Types, args \in Seq(Texts) :
        /\ DecodeBody(s) = [type |-> type, args |-> args]
        /\ is_valid([type |-> type, args |-> args])
        /\ Len(FlattenSeq(Spaced(args))) + 1 <= Len(s)
  BY <1>2, <1>3, AcceptedBody
<1>5. Len(FlattenSeq(Spaced(args))) + 2 <= Len(x) /\ Len(x) <= MaxLen
  <2>1. /\ Len(s) \in Nat /\ Len(x) \in Nat /\ MaxLen \in Nat
        /\ Len(FlattenSeq(Spaced(args))) \in Nat
    BY <1>2, RestOfLine, LenProperties, CodecAssumption DEF Texts
  <2> QED
    BY <1>1, <1>2, <1>4, <2>1 DEF TooLong
<1> QED
  BY <1>3, <1>4, <1>5

-----------------------------------------------------------------------------
(***************************************************************************)
(* The invariant.                                                          *)
(***************************************************************************)

\* A line grows by one symbol.
LEMMA AppendApart ==
  ASSUME NEW s \in Texts, Apart(s), NEW x \in Symbols,
         s # << >> => ~(x \in Words /\ Last(s) \in Words)
  PROVE  Append(s, x) \in Texts /\ Apart(Append(s, x))
<1>1. PICK N \in Nat : N = Len(s)
  BY LenProperties DEF Texts
<1>2. /\ Append(s, x) \in Texts /\ Len(Append(s, x)) = N + 1
      /\ \A i \in 1 .. N : Append(s, x)[i] = s[i]
      /\ Append(s, x)[N + 1] = x
  BY <1>1, AppendProperties DEF Texts
<1>3. ASSUME NEW i \in 1 .. N
      PROVE  ~(Append(s, x)[i] \in Words /\ Append(s, x)[i + 1] \in Words)
  <2>1. CASE i = N
    <3>1. s # << >>
      BY <1>1, <2>1, EmptySeq
    <3> QED
      BY <1>1, <1>2, <2>1, <3>1 DEF Last
  <2>2. CASE i # N
    <3>1. i + 1 \in 1 .. N /\ i \in 1 .. Len(s) - 1
      BY <1>1, <2>2
    <3> QED
      BY <1>2, <3>1 DEF Apart
  <2> QED
    BY <2>1, <2>2
<1>4. Len(Append(s, x)) - 1 = N
  BY <1>2
<1> QED
  BY <1>2, <1>3, <1>4 DEF Apart

LEMMA CodecInitially == Init => CodecInv
<1>1. << >> \in Texts /\ << >> \in Seq(Texts) /\ Len(<< >>) = 0
  BY EmptySeq DEF Texts
<1>2. NewMessage \in Messages
  BY <1>1 DEF NewMessage, Messages
<1>3. Apart(<< >>)
  BY <1>1 DEF Apart
<1> QED
  BY <1>1, <1>2, <1>3 DEF Init, CodecInv

LEMMA CodecStep == CodecInv /\ [Next]_vars => CodecInv'
<1> SUFFICES ASSUME CodecInv, [Next]_vars PROVE CodecInv'
  OBVIOUS
<1>0. msg \in Messages /\ line \in Texts /\ Apart(line)
  BY DEF CodecInv
<1>1. ASSUME NEW t \in Types, set_message_type(t), UNCHANGED line PROVE CodecInv'
  <2>1. msg' \in Messages
    BY <1>0, <1>1 DEF set_message_type, Messages
  <2> QED
    BY <1>0, <1>1, <2>1 DEF CodecInv
<1>2. ASSUME NEW arg \in Args, push_arg(arg), UNCHANGED line PROVE CodecInv'
  <2>1. arg \in Texts
    <3>1. arg \in Seq(Words \cup White) /\ Words \cup White \subseteq Symbols
      BY CodecAssumption DEF Symbols
    <3> QED
      BY <3>1, SeqMonotonic DEF Texts
  <2>2. msg.args \in Seq(Texts) /\ msg.type \in Types \cup {"NONE"}
    BY <1>0 DEF Messages
  <2>3. Append(msg.args, arg) \in Seq(Texts)
    BY <2>1, <2>2, AppendProperties
  <2>4. msg' = [msg EXCEPT !.args = Append(@, arg)]
    BY <1>2 DEF push_arg
  <2>5. msg' = [type |-> msg.type, args |-> Append(msg.args, arg)]
    BY <1>0, <2>4 DEF Messages
  <2>6. msg' \in Messages
    BY <2>2, <2>3, <2>5 DEF Messages
  <2> QED
    BY <1>0, <1>2, <2>6 DEF CodecInv
<1>3. ASSUME NEW x \in Heard \cup White \cup {"newline"}, Receive(x), UNCHANGED msg
      PROVE  CodecInv'
  <2>1. x \in Symbols
    BY CodecAssumption DEF Symbols
  <2>2. line' = Append(line, x) /\ (line # << >> => ~(x \in Words /\ Last(line) \in Words))
    BY <1>3 DEF Receive
  <2>3. Append(line, x) \in Texts /\ Apart(Append(line, x))
    BY <1>0, <2>1, <2>2, AppendApart
  <2>4. line' \in Texts /\ Apart(line')
    BY <2>2, <2>3
  <2> QED
    BY <1>0, <1>3, <2>4 DEF CodecInv
<1>4. CASE Renew
  <2>1. Init'
    BY <1>4 DEF Renew, Init
  <2>2. NewMessage \in Messages /\ << >> \in Texts /\ Apart(<< >>)
    <3>1. << >> \in Texts /\ << >> \in Seq(Texts) /\ Len(<< >>) = 0
      BY EmptySeq DEF Texts
    <3> QED
      BY <3>1 DEF NewMessage, Messages, Apart
  <2> QED
    BY <2>1, <2>2 DEF Init, CodecInv
<1>5. CASE UNCHANGED vars
  BY <1>0, <1>5 DEF vars, CodecInv
<1> QED
  BY <1>1, <1>2, <1>3, <1>4, <1>5 DEF Next

\* Messages have a known type or none, lines have white space between words:
\* what set_message_type, push_arg and the lines that come in can lead to.
THEOREM CodecInvariant == Spec => []CodecInv
<1> QED
  BY CodecInitially, CodecStep, PTL DEF Spec

-----------------------------------------------------------------------------
(***************************************************************************)
(* The theorems.                                                           *)
(***************************************************************************)

\* Whatever a program passes to a Message, encode and decode lose nothing of a
\* valid one, and never make another command or other words of one that is
\* not, which encode writes as well (encode does not call is_valid).
THEOREM RoundTripCorrect == Spec => []RoundTrip
<1>1. ASSUME CodecInv PROVE RoundTrip
  <2> DEFINE type == msg.type
             args == msg.args
  <2>1. msg = [type |-> type, args |-> args] /\ type \in Types \cup {"NONE"} /\ args \in Seq(Texts)
    BY <1>1 DEF CodecInv, Messages
  <2> HIDE DEF type, args
  <2>2. CASE type \in Types
    <3>1. LET back == decode(encode(msg))
          IN  /\ is_valid(msg) /\ encode(msg) # << >> => back = msg
              /\ back # NewMessage => AllWords(back) = AllWords(msg)
      BY <2>1, <2>2, RoundTripOf
    <3> QED
      BY <3>1, Zenon DEF RoundTrip
  <2>3. CASE type \notin Types
    <3>1. msg.type \notin Types
      BY <2>3 DEF type
    <3>2. encode(msg) = << >>
      BY <3>1, Zenon DEF encode
    <3>3. decode(<< >>) = NewMessage
      BY Zenon DEF decode
    <3> QED
      BY <3>2, <3>3, Zenon DEF RoundTrip
  <2> QED
    BY <2>2, <2>3
<1> QED
  BY <1>1, CodecInvariant, PTL

\* What decode accepts, from whatever line, can be sent on: encode does not
\* throw, its line is no longer (the length that decode has checked is the
\* length that encode checks), and it is decoded to the same message.
THEOREM NormalisedLines == Spec => []Normalised
<1>1. ASSUME CodecInv PROVE Normalised
  <2> SUFFICES ASSUME decode(line) # NewMessage
               PROVE  /\ encode(decode(line)) # << >>
                      /\ Len(encode(decode(line))) <= Len(line)
                      /\ decode(encode(decode(line))) = decode(line)
    BY Zenon DEF Normalised
  <2>1. line \in Texts /\ Apart(line)
    BY <1>1 DEF CodecInv
  <2>2. PICK type \in Types, args \in Seq(Texts) :
          /\ decode(line) = [type |-> type, args |-> args]
          /\ is_valid([type |-> type, args |-> args])
          /\ Len(FlattenSeq(Spaced(args))) + 2 <= Len(line)
          /\ Len(line) <= MaxLen
    BY <2>1, AcceptedLine
  <2> DEFINE m == [type |-> type, args |-> args]
             n == Len(FlattenSeq(Spaced(args)))
  <2>3. n + 2 <= MaxLen
    <3>1. n \in Nat /\ Len(line) \in Nat /\ MaxLen \in Nat
      BY <2>1, RestOfLine, LenProperties, CodecAssumption DEF Texts
    <3> QED
      BY <2>2, <3>1
  <2>4. Len(encode(m)) = n + 2 /\ encode(m) # << >>
    BY <2>3, Encoded
  <2>5. decode(encode(m)) = m
    BY <2>2, <2>4, RoundTripOf
  <2> HIDE DEF m, n
  <2>6. decode(line) = m /\ n + 2 <= Len(line)
    BY <2>2 DEF m, n
  <2> QED
    BY <2>4, <2>5, <2>6
<1> QED
  BY <1>1, CodecInvariant, PTL

\* The arguments that handle_get, handle_set, handle_push, handle_create,
\* handle_login and the clients read without a test are there, whatever line
\* the peer sent.
THEOREM HandlersFindArguments == Spec => []ArgumentsPresent
<1>1. ASSUME CodecInv PROVE ArgumentsPresent
  <2>1. line \in Texts /\ Apart(line)
    BY <1>1 DEF CodecInv
  <2>2. CASE decode(line) = NewMessage
    <3>1. decode(line).type = "NONE"
      BY <2>2 DEF NewMessage
    <3> HIDE DEF NewMessage
    <3> QED
      BY <3>1 DEF ArgumentsPresent
  <2>3. CASE decode(line) # NewMessage
    <3>1. PICK type \in Types, args \in Seq(Texts) :
            /\ decode(line) = [type |-> type, args |-> args]
            /\ is_valid([type |-> type, args |-> args])
      BY <2>1, <2>3, AcceptedLine
    <3>2. decode(line).type = type /\ decode(line).args = args
      BY <3>1
    <3>3. DOMAIN args = 1 .. Len(args) /\ Len(args) \in Nat
      BY LenProperties
    <3> DEFINE m == [type |-> type, args |-> args]
    <3>4. m.type = type /\ m.args = args /\ is_valid(m)
      BY <3>1
    <3> HIDE DEF m
    <3>5. type \in {"GET", "SET"} =>
            Len(args) = 2 /\ is_identifier(args[1]) /\ is_identifier(args[2])
      BY <3>4 DEF is_valid, NoArgTypes
    <3>6. type \in {"LOGIN", "CREATE"} => Len(args) = 1 /\ is_identifier(args[1])
      BY <3>4 DEF is_valid, NoArgTypes
    <3>7. type \in {"PUSH", "DATA"} => Len(args) = 1 /\ is_value(args[1])
      BY <3>4 DEF is_valid, NoArgTypes
    <3> QED
      BY <3>2, <3>3, <3>5, <3>6, <3>7 DEF ArgumentsPresent
  <2> QED
    BY <2>2, <2>3
<1> QED
  BY <1>1, CodecInvariant, PTL
=============================================================================
