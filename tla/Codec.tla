-------------------------------- MODULE Codec --------------------------------
(***************************************************************************)
(* Message (message.cpp) and MessageSerialization (encode and decode).      *)
(*                                                                         *)
(* A line is a sequence of symbols: words, each standing for a maximal run  *)
(* of characters that are no white space, and the white space between them. *)
(* An argument of a Message is any such sequence, the empty one included:   *)
(* the clients pass on what stands on their command lines.  A length is     *)
(* counted in symbols.                                                      *)
(***************************************************************************)
EXTENDS Naturals, SequencesExt

CONSTANTS
  Identifiers,  \* words of letters, digits and _ that begin with a letter
  OtherWords,   \* the other words
  MaxLen,       \* MAX_ENCODED_LEN
  Args,         \* the arguments messages are made with
  MaxArgs,      \* bound on their number
  Heard,        \* the words that peers send
  MaxSymbols    \* bound on the lines a peer sends

NoArgTypes == {"POP", "TOP", "ADD", "SUB", "MUL", "DIV", "BEGIN", "COMMIT",
               "BYE", "OK"}
Types == NoArgTypes \cup {"LOGIN", "CREATE", "PUSH", "SET", "GET", "FAILED",
                          "ERROR", "DATA"}
White == {"space", "tab"}
Words == Types \cup Identifiers \cup OtherWords

ASSUME CodecAssumption ==
  /\ {"NONE", "newline"} \cup White \subseteq STRING \ Words
  /\ \A a \in Args : a \in Seq(Words \cup White)
  /\ Heard \subseteq Words
  /\ {MaxLen, MaxArgs, MaxSymbols} \subseteq Nat

VARIABLES
  msg,   \* a Message that is being put together
  line   \* a line that is being received

vars == <<msg, line>>

-----------------------------------------------------------------------------
(***************************************************************************)
(* Message.                                                                *)
(***************************************************************************)
NewMessage == [type |-> "NONE", args |-> << >>]

IsWord(arg)        == Len(arg) = 1 /\ arg[1] \in Words
is_identifier(arg) == IsWord(arg) /\ arg[1] \notin OtherWords
is_value(arg)      == IsWord(arg)

\* Mutant of is_valid: the number of names is not looked at.
IsValidAnyNumber(m) ==
  \/ /\ m.type \in {"LOGIN", "CREATE", "SET", "GET"}
     /\ \A i \in DOMAIN m.args : is_identifier(m.args[i])
  \/ m.type \in {"PUSH", "DATA"} /\ Len(m.args) = 1 /\ is_value(m.args[1])
  \/ m.type \in NoArgTypes /\ m.args = << >>
  \/ m.type \in {"FAILED", "ERROR"} /\ Len(m.args) = 1

is_valid(m) ==
  \/ /\ m.type \in {"LOGIN", "CREATE"}
     /\ Len(m.args) = 1 /\ is_identifier(m.args[1])
  \/ /\ m.type \in {"PUSH", "DATA"}
     /\ Len(m.args) = 1 /\ is_value(m.args[1])
  \/ /\ m.type \in {"SET", "GET"}
     /\ Len(m.args) = 2 /\ is_identifier(m.args[1]) /\ is_identifier(m.args[2])
  \/ m.type \in NoArgTypes /\ m.args = << >>
  \/ m.type \in {"FAILED", "ERROR"} /\ Len(m.args) = 1

-----------------------------------------------------------------------------
(***************************************************************************)
(* MessageSerialization.  The empty line and NewMessage stand for a throw.  *)
(***************************************************************************)
encode(m) ==
  LET text == <<m.type>>
              \o FlattenSeq([i \in DOMAIN m.args |-> <<"space">> \o m.args[i]])
              \o <<"newline">>
  IN  IF m.type \in Types /\ Len(text) <= MaxLen THEN text ELSE << >>

From(s, i) == SubSeq(s, i, Len(s))

IsWhite(x)   == x \in White \cup {"newline"}
NotWhite(x)  == ~IsWhite(x)
IsSpace(x)   == x = "space"

\* The words of a text: the loop that reads them from a stringstream.
WordsOf(s) ==
  LET words[n \in 0 .. Len(s)] ==
        IF n = 0 THEN << >>
        ELSE IF NotWhite(s[n]) THEN Append(words[n - 1], s[n])
        ELSE words[n - 1]
  IN  words[Len(s)]

StripLeft(s) ==
  LET start == SelectInSeq(s, NotWhite)
  IN  IF start = 0 THEN << >> ELSE From(s, start)

\* The arguments in the text that follows the command and the space at i.
\* Mutant: the text of FAILED and ERROR is split too.
ArgumentsSplit(cmd, s, i) ==
  LET ws == WordsOf(From(s, i + 1)) IN [j \in DOMAIN ws |-> <<ws[j]>>]
Arguments(cmd, s, i) ==
  IF cmd \in {<<"FAILED">>, <<"ERROR">>} THEN <<From(s, i + 1)>>
  ELSE LET ws == WordsOf(From(s, i + 1)) IN [j \in DOMAIN ws |-> <<ws[j]>>]

\* decode's limit, and a mutant without it.
NeverTooLong(s) == FALSE
TooLong(s) == Len(s) > MaxLen

\* Only a space ends the command, although any white space may precede it.
decode(encoded) ==
  IF encoded = << >> \/ TooLong(encoded) \/ Last(encoded) # "newline"
  THEN NewMessage
  ELSE LET s   == StripLeft(Front(encoded))
           i   == SelectInSeq(s, IsSpace)
           cmd == IF i = 0 THEN s ELSE SubSeq(s, 1, i - 1)
           m   == [type |-> cmd[1],
                   args |-> IF i = 0 THEN << >> ELSE Arguments(cmd, s, i)]
       IN  IF Len(cmd) = 1 /\ cmd[1] \in Types /\ is_valid(m)
           THEN m ELSE NewMessage

-----------------------------------------------------------------------------
(***************************************************************************)
(* A program puts a Message together, or a line comes in.                  *)
(***************************************************************************)
Init == msg = NewMessage /\ line = << >>

set_message_type(t) ==
  msg.type = "NONE" /\ msg' = [msg EXCEPT !.type = t]

push_arg(arg) ==
  /\ msg.type # "NONE"
  /\ Len(msg.args) < MaxArgs
  /\ msg' = [msg EXCEPT !.args = Append(@, arg)]

Receive(x) ==
  /\ msg = NewMessage
  /\ Len(line) < MaxSymbols
  /\ line # << >> => /\ Last(line) # "newline"
                     /\ ~(x \in Words /\ Last(line) \in Words)
  /\ line' = Append(line, x)

\* The next Message, the next line.
Renew == (msg # NewMessage \/ line # << >>) /\ msg' = NewMessage /\ line' = << >>

Next == \/ /\ line = << >>
           /\ \/ \E t \in Types : set_message_type(t)
              \/ \E arg \in Args : push_arg(arg)
           /\ UNCHANGED line
        \/ /\ \E x \in Heard \cup White \cup {"newline"} : Receive(x)
           /\ UNCHANGED msg
        \/ Renew

Spec == Init /\ [][Next]_vars

-----------------------------------------------------------------------------
(***************************************************************************)
(* Properties.                                                             *)
(***************************************************************************)
AllWords(m) == <<m.type>> \o WordsOf(FlattenSeq(m.args))

\* What is encoded is decoded to the same message; and a message that is not
\* valid, which encode does not look at, is refused by decode or loses
\* nothing but white space: it never becomes another command or other names.
RoundTrip ==
  LET back == decode(encode(msg))
  IN  /\ is_valid(msg) /\ encode(msg) # << >> => back = msg
      /\ back # NewMessage => AllWords(back) = AllWords(msg)

\* Whatever line a peer sends, what decode makes of it can be sent on: it
\* encodes to a line that is no longer and decodes to the same message.
Normalised ==
  LET m == decode(line)
  IN  m # NewMessage =>
        LET again == encode(m)
        IN  /\ again # << >>
            /\ Len(again) <= Len(line)
            /\ decode(again) = m

\* The handlers read m_args[0] and m_args[1] without looking at the size: the
\* arguments they use are there, and are names or values as they expect.
ArgumentsPresent ==
  LET m == decode(line)
  IN  /\ m.type \in {"GET", "SET"} =>
           \A i \in {1, 2} : i \in DOMAIN m.args /\ is_identifier(m.args[i])
      /\ m.type \in {"LOGIN", "CREATE"} =>
           1 \in DOMAIN m.args /\ is_identifier(m.args[1])
      /\ m.type \in {"PUSH", "DATA"} =>
           1 \in DOMAIN m.args /\ is_value(m.args[1])
=============================================================================
