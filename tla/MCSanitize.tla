----------------------------- MODULE MCSanitize -----------------------------
(* Texts put together from pieces: addresses and dates, parts of them, and     *)
(* what stands between them.                                                  *)
EXTENDS Sanitize

Addresses == {<<"1", ".", "2", ".", "3", ".", "4">>,
              <<"2", "5", "6", ".", "1", "0", ".", "0", ".", "1">>,
              <<":", ":", "1">>,
              <<"a", ":", "b", ":", "c">>,
              <<"1", "2", ":", "3", "0", ":", "5", "9">>}

Dates == {<<"2", "0", "1", "3", "-", "1", "2", "-", "3", "1">>,
          <<"1", "2", "/", "3", "1", "/", "1", "9", "2", "0">>,
          <<"3", "1", ".", "1", "2", ".", "1", "9", "2", "0">>,
          <<"2", "0", "1", "4", "-", "0", "1", "-", "0", "1">>}

Parts == {<<"1">>, <<"a">>, <<"g">>, <<".">>, <<":">>, <<":", ":">>, <<"@">>,
          <<"b", ".", "c", "o">>, <<" ">>, <<"T">>, <<" ", "1", "0", ":">>,
          <<"wide">>}

Piece == Addresses \cup Dates \cup Parts

Mapped == <<":", ":", "f", ":", "1", ".", "2", ".", "3", ".", "4">>

Eight == <<"1", ":", "2", ":", "3", ":", "4", ":", "5", ":", "6", ":", "7", ":", "8">>

(* Longer than the placeholder that takes its place. *)
LongDomain == [n \in 1..14 |-> "g"] \o <<".", "c", "o">>

(* Every text of up to three pieces, every one of up to four short ones with   *)
(* an "@" in it, two long addresses beside a piece, and a piece, an address    *)
(* and another that begins with the domain of the first.                       *)
MCTexts ==
    {a \o b \o c : a, b, c \in Piece \cup {<<>>}}
    \cup {a \o <<"@">> \o b \o c \o d : a, b, c, d \in Parts \ {<<" ", "1", "0", ":">>}}
    \cup {a \o l \o b : a, b \in Piece \cup {<<>>}, l \in {Mapped, Eight}}
    \cup {a \o <<"a", "@">> \o d \o b \o <<"@", "b", ".", "c", "o">> :
               a \in Piece \cup {<<>>}, b \in {<<>>, <<"_">>},
               d \in {LongDomain, <<"b", ".", "c", "o">>, <<".", "c", "o">>}}

MCChar == PlaceholderChar \cup Alphanumeric
              \cup {".", ":", "@", "-", "/", " ", "wide"}
============================================================================
