--------------------------- MODULE MCRowDecoding ---------------------------
(* RowDecoding with a text value that COPY escapes to its NULL marker's     *)
(* letters: a backslash and an N.                                           *)
EXTENDS RowDecoding

TextsWithMarker == {<<"a">>, <<"\\", "N">>}
ShortTexts == {<<"a">>}
=============================================================================
