--------------------------- MODULE MCCommandLine ---------------------------
(* Small texts for CommandLine. *)
EXTENDS CommandLine

\* The texts of at most n of these characters, with a newline behind them.
Over(characters, n) ==
  LET of[k \in 0..n] ==
        IF k = 0 THEN {<<>>}
        ELSE of[k - 1] \cup {text \o c : text \in of[k - 1], c \in characters}
  IN  {text \o <<"newline">> : text \in of[n]}

Common == {<<"a">>, <<" ">>, <<"newline">>}

\* What the documentation calls for: UTF-8.
MCUtf8Texts ==
  {<<>>}
    \cup Over(Common \cup {<<".">>, <<"C2", "BF">>}, 6)
    \cup Over(Common \cup {<<"?">>, <<"C2", "BF">>}, 5)
    \cup Over(Common \cup {<<"!">>, <<"C2", "A1">>, <<")">>}, 5)
    \cup Over(Common \cup {<<"E2", "80", "A6">>, <<"E2", "80", "9D">>}, 5)
    \cup Over({<<"a">>, <<"vtab">>, <<"C2", "BB">>, <<".">>}, 5)

\* With texts in which the last byte of a character stands alone.
MCTexts ==
  MCUtf8Texts
    \cup Over({<<"a">>, <<" ">>, <<"80">>}, 8)
    \cup Over({<<"a">>, <<";">>, <<"80">>, <<"?">>, <<")">>}, 5)
=============================================================================
