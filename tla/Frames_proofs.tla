---------------------------- MODULE Frames_proofs ----------------------------
(***************************************************************************)
(* For every buffer size, every way of cutting the stream into pieces and   *)
(* lines of every length: the buffers are never overrun, and the reader     *)
(* accepts exactly the lines that were written.                             *)
(***************************************************************************)
EXTENDS Frames, TLAPS

\* Where the reader stands: at the beginning of a line when rio_readlineb is
\* called, with no newline behind it in the bytes read since.
PositionInv ==
  /\ start \in {0} \cup newlines
  /\ \A p \in newlines : p <= start \/ used < p

FramesInv == TypeOK /\ PositionInv /\ WholeLines

\* Before the first byte nothing is buffered and nothing accepted
\* (rio_readinitb).
LEMMA InitFrames == Init => FramesInv
  BY FramesAssumption
  DEF Init, FramesInv, TypeOK, PositionInv, WholeLines, Lines

\* The counters keep their order, and what is read fits the buffers.
LEMMA NextFramesType ==
  ASSUME TypeOK, [Next]_vars
  PROVE  TypeOK'
<1> USE FramesAssumption DEF TypeOK
<1>1. ASSUME NEW n \in 1 .. MaxLine, WriteLine(n) PROVE TypeOK'
  <2>1. newlines' \subseteq 1 .. total'
    <3>1. total \in Nat /\ n \in Nat /\ n >= 1 /\ total' = total + n
      BY <1>1 DEF WriteLine
    <3>2. ASSUME NEW p \in newlines' PROVE p \in 1 .. total'
      <4>1. CASE p \in newlines
        BY <4>1, <3>1
      <4>2. CASE p = total + n
        BY <4>2, <3>1
      <4>3. QED
        BY <4>1, <4>2, <1>1 DEF WriteLine
    <3>3. QED
      BY <3>2
  <2>2. /\ total' \in Nat /\ written <= total'
        /\ UNCHANGED <<written, writer, fetched, used, start, accepted, reader>>
    BY <1>1 DEF WriteLine
  <2>3. QED
    BY <2>1, <2>2
<1>2. ASSUME NEW n \in 1 .. MaxLine, WriteSome(n) PROVE TypeOK'
  BY <1>2 DEF WriteSome
<1>3. CASE WriterGone
  BY <1>3 DEF WriterGone
<1>4. ASSUME NEW n \in 1 .. RioSize, Refill(n) PROVE TypeOK'
  BY <1>4 DEF Refill, BufferEmpty
<1>5. CASE CopyByte
  BY <1>5 DEF CopyByte, Room
<1>6. CASE TakeLine
  BY <1>6 DEF TakeLine, Room
<1>7. CASE LineTooLong
  BY <1>7 DEF LineTooLong, Refuse
<1>8. CASE EndOfFile
  BY <1>8 DEF EndOfFile, Refuse
<1>9. CASE UNCHANGED vars
  BY <1>9 DEF vars
<1>10. QED
  BY <1>1, <1>2, <1>3, <1>4, <1>5, <1>6, <1>7, <1>8, <1>9 DEF Next, Reader

\* A step that leaves the lines, the position in them and what was accepted
\* keeps the rest of the invariant.
LEMMA SameLines ==
  ASSUME PositionInv, WholeLines, UNCHANGED <<newlines, start, used, accepted>>
  PROVE  PositionInv' /\ WholeLines'
  BY DEF PositionInv, WholeLines, Lines

\* Every step of rio_writen, rio_read and rio_readlineb keeps the invariant.
LEMMA NextFrames ==
  ASSUME FramesInv, [Next]_vars
  PROVE  FramesInv'
<1>1. TypeOK /\ PositionInv /\ WholeLines
  BY DEF FramesInv
<1>2. TypeOK'
  BY <1>1, NextFramesType
<1>3. ASSUME NEW n \in 1 .. MaxLine, WriteLine(n) PROVE PositionInv' /\ WholeLines'
  <2>1. total' = total + n /\ newlines' = newlines \cup {total + n}
    BY <1>3 DEF WriteLine
  <2>2. UNCHANGED <<used, start, accepted>>
    BY <1>3 DEF WriteLine
  <2>3. \A p \in newlines : p \in Nat /\ p <= total
    BY <1>1 DEF TypeOK
  <2>4. start <= total /\ used <= total /\ start \in Nat /\ used \in Nat /\ total \in Nat /\ start <= used
    BY <1>1 DEF TypeOK
  <2>5. PositionInv'
    BY <1>1, <2>1, <2>2, <2>4 DEF PositionInv
  <2>6. ASSUME NEW l PROVE (l \in Lines /\ l[2] <= start) <=> (l \in Lines' /\ l[2] <= start)
    <3>1. ASSUME l \in Lines, l[2] <= start PROVE l \in Lines'
      BY <3>1, <2>1, <2>3, <2>4 DEF Lines
    <3>2. ASSUME l \in Lines', l[2] <= start PROVE l \in Lines
      BY <3>2, <2>1, <2>3, <2>4 DEF Lines
    <3>3. QED BY <3>1, <3>2
  <2>7. WholeLines'
    BY <1>1, <2>2, <2>6 DEF WholeLines
  <2>8. QED BY <2>5, <2>7
<1>4. ASSUME NEW n \in 1 .. MaxLine, WriteSome(n) PROVE PositionInv' /\ WholeLines'
  BY <1>1, <1>4, SameLines DEF WriteSome
<1>5. CASE WriterGone
  BY <1>1, <1>2, <1>5, SameLines DEF WriterGone, FramesInv
<1>6. ASSUME NEW n \in 1 .. RioSize, Refill(n) PROVE PositionInv' /\ WholeLines'
  BY <1>1, <1>6, SameLines DEF Refill, BufferEmpty
<1>7. CASE CopyByte
  <2>1. used' = used + 1 /\ used + 1 \notin newlines /\ UNCHANGED <<newlines, start, accepted>>
    BY <1>7 DEF CopyByte
  <2>2. PositionInv'
    BY <1>1, <2>1 DEF PositionInv, TypeOK
  <2>3. WholeLines'
    BY <1>1, <2>1 DEF WholeLines, Lines
  <2>4. QED BY <1>2, <2>2, <2>3 DEF FramesInv
<1>8. CASE TakeLine
  <2>1. /\ used + 1 \in newlines /\ used' = used + 1 /\ start' = used + 1
        /\ accepted' = accepted \cup {<<start, used + 1>>}
        /\ UNCHANGED newlines
    BY <1>8 DEF TakeLine
  <2>2. used \in Nat /\ start \in Nat /\ start <= used /\ \A p \in newlines : p \in Nat /\ p > 0
    BY <1>1 DEF TypeOK
  <2>3. PositionInv'
    BY <2>1, <2>2 DEF PositionInv
  <2>4. Lines' = Lines
    BY <2>1 DEF Lines
  <2>5. <<start, used + 1>> \in Lines
    BY <1>1, <2>1, <2>2 DEF Lines, PositionInv
  <2>6. ASSUME NEW l \in Lines, l[2] <= used + 1, ~(l[2] <= start)
        PROVE  l = <<start, used + 1>>
    <3>1. l[2] \in newlines /\ l[1] \in {0} \cup newlines /\ l[1] < l[2] /\ l = <<l[1], l[2]>>
      BY <2>6 DEF Lines
    <3>2. l[2] = used + 1
      BY <1>1, <2>2, <2>6, <3>1 DEF PositionInv
    <3>3. l[1] <= start
      BY <1>1, <2>2, <3>1, <3>2 DEF PositionInv
    <3>4. start = 0 \/ ~(l[1] < start)
      BY <1>1, <2>2, <2>6, <3>2 DEF PositionInv, Lines
    <3>5. l[1] = start
      BY <2>2, <3>1, <3>3, <3>4
    <3>6. QED BY <3>1, <3>2, <3>5
  <2>7. WholeLines'
    <3>1. ASSUME NEW l PROVE l \in accepted' <=> (l \in Lines /\ l[2] <= used + 1)
      <4>1. CASE l \in accepted
        BY <4>1, <1>1, <2>1, <2>2 DEF WholeLines, Lines
      <4>2. CASE l = <<start, used + 1>>
        BY <4>2, <2>1, <2>2, <2>5
      <4>3. CASE l \notin accepted /\ l # <<start, used + 1>>
        BY <4>3, <1>1, <2>1, <2>6 DEF WholeLines
      <4>4. QED BY <4>1, <4>2, <4>3
    <3>2. QED BY <3>1, <2>1, <2>4 DEF WholeLines
  <2>8. QED BY <1>2, <2>3, <2>7 DEF FramesInv
<1>9. CASE LineTooLong
  BY <1>1, <1>2, <1>9, SameLines DEF LineTooLong, Refuse, FramesInv
<1>10. CASE EndOfFile
  BY <1>1, <1>2, <1>10, SameLines DEF EndOfFile, Refuse, FramesInv
<1>11. CASE UNCHANGED vars
  BY <1>1, <1>2, <1>11, SameLines DEF vars, FramesInv
<1>12. QED
  BY <1>2, <1>3, <1>4, <1>5, <1>6, <1>7, <1>8, <1>9, <1>10, <1>11
  DEF Next, Reader, FramesInv

\* The read buffer and the line buffer are never overrun, the terminating 0
\* included, whatever the peer sends (rio_read, rio_readlineb).
THEOREM BuffersFit == Spec => []TypeOK
<1>1. Init => FramesInv
  BY InitFrames
<1>2. FramesInv /\ [Next]_vars => FramesInv'
  BY NextFrames
<1>3. FramesInv => TypeOK
  BY DEF FramesInv
<1>4. QED
  BY <1>1, <1>2, <1>3, PTL DEF Spec

\* The reader accepts the written lines, whole and in order, and nothing else
\* (rio_readlineb, and the loops that stop at a line without newline).
THEOREM Framing == Spec => []WholeLines
<1>1. Init => FramesInv
  BY InitFrames
<1>2. FramesInv /\ [Next]_vars => FramesInv'
  BY NextFrames
<1>3. FramesInv => WholeLines
  BY DEF FramesInv
<1>4. QED
  BY <1>1, <1>2, <1>3, PTL DEF Spec
=============================================================================
