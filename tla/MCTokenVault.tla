------------------------------ MODULE MCTokenVault ------------------------------
(* TokenVault with two numerals: a token is the beginning of another from the
   second on, where it takes ten with decimal numbers. *)
EXTENDS TokenVault

MCNumerals == <<"0", "1">>

h0 == <<"h", "0">>
h1 == <<"h", "1">>
h10 == <<"h", "1", "0">>
h11 == <<"h", "1", "1">>
And(v, w) == v \o <<" ">> \o w
Port(number) == <<":">> \o number

\* One address, two of the same length, one that begins like another, one at the
\* end of a sentence, which the extractor does not find, and one after a dot,
\* which it does; a port that is the number of the second address's token, one
\* that is in no token, and one that another number begins with.
MCRequests == {h1, And(h1, h0), And(And(h10, h11), h1), And(h1 \o <<".">>, <<".">> \o h0),
               And(And(h1, h0), Port(<<"1", "0">>)), And(h1, Port(<<"0", "0">>)),
               And(Port(<<"1", "0">>), <<"1", "0", "0">>)}
MCResults == {h0, h10, And(h11, h1 \o <<".">>), And(h0, h1), And(Port(<<"0", "0">>), <<"1", "0">>)}
MCPrivate == {h0, h10}
================================================================================
