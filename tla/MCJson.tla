------------------------------- MODULE MCJson -------------------------------
(***************************************************************************)
(* The instance of CJsonUse that TLC checks.                               *)
(***************************************************************************)
EXTENDS CJsonUse

MCNames == {<<"a">>, <<"A">>}
MCValues == {<<>>, <<Quote>>}
MCAlphabet == {"[", "]", "{", "}", ",", ":", "1", "a", " ", Quote, Backslash}

(* Two to four calls on nothing and on small trees, no call but parsing    *)
(* for texts of three characters, two edits away from an object and one    *)
(* edit away from an object with an array, from nested arrays and from an  *)
(* array with strings.                                                     *)
Seed(t, e, c) == [text |-> t, edits |-> e, calls |-> c]
MCSeeds ==
  {Seed(<<"[", "[", "1", "]", "]">>, 0, 2),
   Seed(<<"{", Quote, "a", Quote, ":", "1", "}">>, 0, 4),
   Seed(<<>>, 3, 0),
   Seed(<<"{", Quote, Quote, ":", "1", "}">>, 2, 0),
   Seed(<<"{", Quote, "a", Quote, ":", "[", "1", "]", "}">>, 1, 0),
   Seed(<<"[", "[", "[", "]", "]">>, 1, 0),
   Seed(<<"[", " ", Quote, Backslash, Quote, " ", "a", Quote, ",", "{", "}", ",", "[", "]",
          ",", "t", "r", "u", "e", " ", "]", " ">>, 1, 0)}
=============================================================================
