------------------------------- MODULE Frames -------------------------------
(***************************************************************************)
(* One direction of a connection: rio_writen on one side, rio_readlineb and *)
(* rio_read (csapp.c) with the loop that decodes what they return on the    *)
(* other.  TCP carries the bytes in order, but writes and reads move them   *)
(* in pieces of any size, and the writer may end in the middle of a line.   *)
(*                                                                         *)
(* What the bytes are does not matter, only where the newlines stand: the   *)
(* state is a set of newline positions and counters of bytes.               *)
(*                                                                         *)
(*   0 ..... start ..... used ..... fetched ..... written ..... total       *)
(*            | the line read so far | rio_buf    | in the socket  | left  *)
(***************************************************************************)
EXTENDS Integers

CONSTANTS
  MaxLen,    \* MAX_ENCODED_LEN, the size of the reader's buffer
  RioSize,   \* sizeof(rio_buf)
  MaxLine,   \* bound on the length of the lines written
  MaxTotal   \* bound on the bytes written in all

ASSUME FramesAssumption ==
  /\ MaxLen \in Nat /\ MaxLen > 1
  /\ RioSize \in Nat \ {0}
  /\ MaxLine \in Nat /\ MaxTotal \in Nat

VARIABLES
  newlines,  \* positions of the newlines of all lines handed to rio_writen
  total,     \* bytes handed to rio_writen
  written,   \* bytes write() has taken
  writer,    \* "open", or "gone": it has closed or ended
  fetched,   \* bytes read() has put into rio_buf
  used,      \* bytes rio_read has copied out of it
  start,     \* bytes used when rio_readlineb was called
  accepted,  \* lines returned with their newline: <<start, end>>
  reader     \* "reading", "ended" at end of file, "refused" a line

vars == <<newlines, total, written, writer, fetched, used, start, accepted,
          reader>>

TypeOK ==
  /\ newlines \subseteq 1 .. total
  /\ {total, written, fetched, used, start} \subseteq Nat
  /\ start <= used /\ used <= fetched /\ fetched <= written /\ written <= total
  /\ fetched - used <= RioSize
  /\ used - start < MaxLen
  /\ accepted \subseteq Nat \X Nat
  /\ writer \in {"open", "gone"}
  /\ reader \in {"reading", "ended", "refused"}

Init ==
  /\ newlines = {} /\ accepted = {}
  /\ total = 0 /\ written = 0 /\ fetched = 0 /\ used = 0 /\ start = 0
  /\ writer = "open" /\ reader = "reading"

-----------------------------------------------------------------------------
(***************************************************************************)
(* The writer.                                                             *)
(***************************************************************************)

\* rio_writen is called with a line of n bytes, the newline included.
WriteLine(n) ==
  /\ writer = "open"
  /\ written = total
  /\ total + n <= MaxTotal
  /\ total' = total + n
  /\ newlines' = newlines \cup {total + n}
  /\ UNCHANGED <<written, writer, fetched, used, start, accepted, reader>>

\* An iteration of its loop: write takes some of what is left.  (One that is
\* interrupted takes nothing.)
WriteSome(n) ==
  /\ writer = "open"
  /\ written + n <= total
  /\ written' = written + n
  /\ UNCHANGED <<newlines, total, writer, fetched, used, start, accepted,
                 reader>>

\* The writer closes its socket between two lines, or ends anywhere.
WriterGone ==
  /\ writer = "open"
  /\ writer' = "gone"
  /\ UNCHANGED <<newlines, total, written, fetched, used, start, accepted,
                 reader>>

-----------------------------------------------------------------------------
(***************************************************************************)
(* The reader.                                                             *)
(***************************************************************************)

\* Mutant of BufferEmpty: refills whenever there is something to read.
BufferEmptyIgnored == TRUE

\* rp->rio_cnt <= 0
BufferEmpty == used = fetched

\* rio_read refills its buffer: what was in it is overwritten.
Refill(n) ==
  /\ reader = "reading"
  /\ BufferEmpty
  /\ n <= RioSize
  /\ fetched + n <= written
  /\ used' = fetched
  /\ fetched' = fetched + n
  /\ UNCHANGED <<newlines, total, written, writer, start, accepted, reader>>

\* Mutant of Room: no byte is kept for the terminating 0.
RoomOffByOne == used - start < MaxLen

\* The loop of rio_readlineb goes on: n < maxlen.
Room == used - start + 1 < MaxLen

\* One byte that does not end the line.
CopyByte ==
  /\ reader = "reading"
  /\ Room
  /\ used < fetched
  /\ used + 1 \notin newlines
  /\ used' = used + 1
  /\ UNCHANGED <<newlines, total, written, writer, fetched, start, accepted,
                 reader>>

\* The newline: rio_readlineb returns the line, which decode may accept.
TakeLine ==
  /\ reader = "reading"
  /\ Room
  /\ used < fetched
  /\ used + 1 \in newlines
  /\ used' = used + 1
  /\ accepted' = accepted \cup {<<start, used + 1>>}
  /\ start' = used + 1
  /\ UNCHANGED <<newlines, total, written, writer, fetched, reader>>

\* What the reader does with a line that has no newline: decode throws, and
\* chat_with_client and the clients leave their loops.  The mutant reads on.
RefuseAndReadOn == start' = used /\ UNCHANGED reader
Refuse == reader' = "refused" /\ UNCHANGED start

\* The buffer is full before the newline.
LineTooLong ==
  /\ reader = "reading"
  /\ ~Room
  /\ Refuse
  /\ UNCHANGED <<newlines, total, written, writer, fetched, used, accepted>>

\* read() returns 0.  Inside a line the bytes so far are returned as a line.
EndOfFile ==
  /\ reader = "reading"
  /\ Room
  /\ writer = "gone" /\ used = written
  /\ \/ start = used /\ reader' = "ended" /\ UNCHANGED start
     \/ start < used /\ Refuse
  /\ UNCHANGED <<newlines, total, written, writer, fetched, used, accepted>>

Reader == \/ \E n \in 1 .. RioSize : Refill(n)
          \/ CopyByte \/ TakeLine \/ LineTooLong \/ EndOfFile

Next == \/ \E n \in 1 .. MaxLine : WriteLine(n) \/ WriteSome(n)
        \/ WriterGone
        \/ Reader
        \/ reader # "reading" /\ UNCHANGED vars

Spec == Init /\ [][Next]_vars

\* read() blocks until something arrives, write goes on once there is room,
\* and every writer closes or ends at some time.
FairSpec == /\ Spec
            /\ WF_vars(Reader)
            /\ WF_vars(\E n \in 1 .. MaxLine : WriteSome(n))
            /\ WF_vars(writer = "open" /\ written = total /\ WriterGone)

-----------------------------------------------------------------------------
(***************************************************************************)
(* Properties.                                                             *)
(***************************************************************************)

\* The lines handed to rio_writen, as the intervals of the stream they fill.
Lines == {l \in ({0} \cup newlines) \X newlines :
            l[1] < l[2] /\ \A p \in newlines : ~(l[1] < p /\ p < l[2])}

\* What the reader accepts are the lines that were written, each whole, in
\* order and without gaps, whatever pieces they came in, however long they
\* were and wherever the writer ended: neither the beginning nor the rest of
\* a line that was too long or cut off is ever taken for a request.
WholeLines == accepted = {l \in Lines : l[2] <= start}

\* A line is accepted once it has been written, if it and the lines before it
\* are shorter than the buffer.
Delivered ==
  \A p \in 1 .. MaxTotal :
    (/\ p \in newlines /\ p <= written
     /\ \A l \in Lines : l[2] <= p => l[2] - l[1] < MaxLen)
    ~> (\E l \in accepted : l[2] = p)
=============================================================================
