------------------------------ MODULE MemSize -------------------------------
(***************************************************************************)
(* The size of an arena as the configuration files write it: a number and  *)
(* a unit, where kB is 1024 and KB is 1000 bytes (lm.h and Sdb.h hold the  *)
(* same parser).  A text is a sequence of characters; a size is n times    *)
(* base to the power exp, as the real numbers pass the checker's integers. *)
(* strtoull is external: blanks, then digits; signs are left out.          *)
(***************************************************************************)
EXTENDS Integers, Sequences, SequencesExt

Size(n, base, exp) == [n |-> n, base |-> base, exp |-> exp]
Nothing == Size(0, 1, 0)

Digit == [d \in {"0", "4", "9"} |-> CASE d = "0" -> 0 [] d = "4" -> 4 [] d = "9" -> 9]
Digits == DOMAIN Digit
Blanks == {" "}
strtoull(digits) == FoldLeft(LAMBDA n, d : 10 * n + Digit[d], 0, digits)

(* The switch on the letter of the unit.                                   *)
Multiplier ==
  [u \in {"T", "t", "G", "g", "M", "m", "K", "k"} |->
     <<IF u \in {"T", "G", "M", "K"} THEN 1000 ELSE 1024,
       CASE u \in {"T", "t"} -> 4 [] u \in {"G", "g"} -> 3
         [] u \in {"M", "m"} -> 2 [] u \in {"K", "k"} -> 1>>]

(* What follows the characters of S that s starts with.                    *)
Skip(s, S) == LET i == SelectInSeq(s, LAMBDA c : c \notin S)
              IN  IF i = 0 THEN <<>> ELSE SubSeq(s, i, Len(s))

(* Fault: the end of the text behind the unit is not checked.              *)
lm_mem_sz_from_stringPrefix(s) ==
  LET text == Skip(s, Blanks)
      end  == Skip(text, Digits)
      n    == strtoull(SubSeq(text, 1, Len(text) - Len(end)))
      unit == Skip(end, Blanks)
  IN  CASE end = text -> Nothing
        [] end # text /\ unit \in {<<>>, <<"B">>} -> Size(n, 1, 0)
        [] end # text /\ Len(unit) >= 2 /\ unit[1] \in DOMAIN Multiplier /\ unit[2] = "B" ->
             Size(n, Multiplier[unit[1]][1], Multiplier[unit[1]][2])
        [] OTHER -> Nothing

lm_mem_sz_from_string(s) ==
  LET text == Skip(s, Blanks)
      end  == Skip(text, Digits)
      n    == strtoull(SubSeq(text, 1, Len(text) - Len(end)))
      unit == Skip(end, Blanks)
  IN  CASE end = text -> Nothing
        [] end # text /\ unit \in {<<>>, <<"B">>} -> Size(n, 1, 0)
        [] end # text /\ Len(unit) = 2 /\ unit[1] \in DOMAIN Multiplier /\ unit[2] = "B" ->
             Size(n, Multiplier[unit[1]][1], Multiplier[unit[1]][2])
        [] OTHER -> Nothing

(* At least need bytes, for a need of less than 1000.                      *)
AtLeast(size, need) == size.n * (IF size.exp = 0 THEN 1 ELSE size.base) >= need
=============================================================================
