------------------------------ MODULE MCCodec ------------------------------
(* Constants of the TLC models of Codec. *)
EXTENDS Codec

\* A name, a number, a command as a name, nothing, white space before, after
\* and between words.
MCArgs == {<<"name">>, <<"42">>, <<"GET">>, << >>, <<"space", "name">>,
           <<"name", "tab">>, <<"name", "space", "42">>}
=============================================================================
