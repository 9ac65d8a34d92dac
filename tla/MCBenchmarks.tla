---------------------------- MODULE MCBenchmarks ----------------------------
(* Values for the constants of Benchmarks.                                 *)
EXTENDS Benchmarks

Conf(n, d, tests, t) ==
  [enabled |-> TRUE, starts |-> n, debugger |-> d, suite |-> tests, text |-> t]
MCConfs ==
  {Conf(2, d, <<"arena">>, t) : d \in BOOLEAN, t \in {<<"4", "B">>, <<"9">>, <<"4", "k", "B">>, <<"4", "K">>}}
  \cup {Conf(1, d, <<"malloc", "sdhs">>, <<"9">>) : d \in BOOLEAN}
  \cup {Conf(2, FALSE, <<"malloc">>, <<"9">>), Conf(1, FALSE, <<"arna">>, <<"9">>)}
  \cup {[Conf(1, FALSE, <<>>, <<"9">>) EXCEPT !.enabled = FALSE]}
MCArenaFns == <<"ua", "ka">>
MCMallocFns == <<"malloc">>
MCClasses == <<"small">>
MCSizesOf == [c \in {"small"} |-> <<1, 2>>]

(* The sizes a text denotes: blanks, a number, blanks and a unit.          *)
Chars == {"0", "4", " ", "K", "k", "B", "x"}
Units == [u \in {<<>>, <<"B">>, <<"K", "B">>, <<"k", "B">>} |->
            CASE Len(u) < 2 -> <<1, 0>> [] u = <<"K", "B">> -> <<1000, 1>> [] u = <<"k", "B">> -> <<1024, 1>>]
Denoted(s) ==
  {Size(strtoull(SubSeq(s, p[1] + 1, p[2])), Units[SubSeq(s, p[3] + 1, Len(s))][1],
        Units[SubSeq(s, p[3] + 1, Len(s))][2]) :
     p \in {p \in (0 .. Len(s)) \X (0 .. Len(s)) \X (0 .. Len(s)) :
              /\ p[1] < p[2] /\ p[2] <= p[3] /\ SubSeq(s, p[3] + 1, Len(s)) \in DOMAIN Units
              /\ \A i \in 1 .. p[3] : s[i] \in IF i \in p[1] + 1 .. p[2] THEN Digits ELSE Blanks}}

(* When the configuration is read: for every text the parser returns the   *)
(* size it denotes, and nothing if it denotes none (lm_mem_sz_from_string, *)
(* SdbMemSizeFromString).                                                  *)
SizesParsed ==
  pc = "conf" => \A s \in BoundedSeq(Chars, 4) :
    LET d == Denoted(s)
    IN  lm_mem_sz_from_string(s) = IF d = {} THEN Nothing ELSE CHOOSE x \in d : d = {x}
=============================================================================
