----------------------------- MODULE MCStartup -----------------------------
EXTENDS Startup

\* The keywords, shortened to two characters; the writer needs that many.
MCWord == [address |-> <<"a", "d", "=">>, server |-> <<"s", "v", "=">>,
           port |-> <<"p", "o", "=">>, id |-> <<"i", "d", "=">>]

MCDigit == {"1", "2"}

\* Lines that say something, lines that say nothing, and lines that end too
\* early or too late.
MCLines == {<<"#", "i">>, <<>>, <<"p", "o">>,
            <<"p", "o", "=", "1", "2", "1">>,
            <<"i", "d", "=">>, <<"i", "d", "=", "1">>, <<"i", "d", "x", "1">>,
            <<"a", "d", "=", "1">>, <<"s", "v", "=", "2">>,
            <<"x", "i", "d", "=", "2">>}

MCEnded == {line \o <<"NL">> : line \in MCLines}

MCFiles ==
  MCLines \cup MCEnded \cup {one \o two : one \in MCEnded, two \in MCLines \cup MCEnded}

MCValues == {<<"2">>}

MCNames == {<<"r", "e", "p">>, <<"e", "p", "o">>}

\* Lists of up to three names, with and without the last newline.
MCLists ==
  LET line == {name \o <<"NL">> : name \in MCNames \cup {<<"r">>}}
      two == {a \o b : a, b \in line}
  IN line \cup MCNames \cup two \cup {a \o b : a \in two, b \in line \cup MCNames}

MCDirs == SUBSET (MCNames \cup {<<"e", "p">>, <<"p", "o">>})
=============================================================================
