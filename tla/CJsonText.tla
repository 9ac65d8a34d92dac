----------------------------- MODULE CJsonText -----------------------------
(***************************************************************************)
(* The texts of cJSON (src/cJSON/cJSON.c): parsing a buffer into items,    *)
(* printing items into a buffer that grows or is given, and minifying.     *)
(*                                                                         *)
(* A text is a sequence of characters.  The word true stands for the three *)
(* literals, runs of the digit 1 for numbers, the blank for everything not *)
(* above 32 and the letter a for everything else; of the escapes only the  *)
(* quote and the backslash are kept.  Byte order marks, the position of an *)
(* error and sizes near INT_MAX are left out.                              *)
(***************************************************************************)
EXTENDS CJson, SequencesExt

CONSTANTS
  CJSON_NESTING_LIMIT,
  NumberMax          \* characters of a number that are read: 63 in the code

NUL == "NUL"
Quote == "quote"
Backslash == "backslash"
True == <<"t", "r", "u", "e">>

-----------------------------------------------------------------------------
(* Reading.  Offsets count from 0.                                         *)

At(buf, off, c) == off < Len(buf) /\ buf[off + 1] = c

(* At the end of the buffer the offset stays on the last character.        *)
buffer_skip_whitespace(buf, off) ==
  LET stop == {i \in off .. Len(buf) - 1 : buf[i + 1] \notin {" ", NUL}} IN
  IF off >= Len(buf) THEN off ELSE IF stop = {} THEN Len(buf) - 1 ELSE Min(stop)

Parsed(h, ok, off) == [h |-> h, ok |-> ok, off |-> off]

parse_number(h, a, buf, off) ==
  LET digits == {n \in 1 .. NumberMax : \A i \in 0 .. n - 1 : At(buf, off + i, "1")} IN
  Parsed([h EXCEPT !.cell[a].type = "Number"], digits # {}, off + Max({0} \cup digits))

(* Fault: an escaped character is looked at like any other.                *)
RECURSIVE StringEndUnescaped(_, _)
StringEndUnescaped(buf, i) ==
  IF i >= Len(buf) THEN i
  ELSE IF buf[i + 1] = Quote THEN i
  ELSE StringEndUnescaped(buf, i + 1)

(* The offset of the closing quote, or the end of the buffer.              *)
RECURSIVE StringEnd(_, _)
StringEnd(buf, i) ==
  IF i >= Len(buf) THEN i
  ELSE IF buf[i + 1] = Quote THEN i
  ELSE IF buf[i + 1] = Backslash THEN StringEnd(buf, i + 2)
  ELSE StringEnd(buf, i + 1)

(* The characters of a string literal, <<NUL>> for a bad escape.           *)
RECURSIVE Unescape(_)
Unescape(s) ==
  IF s = <<>> THEN <<>>
  ELSE IF s[1] # Backslash THEN <<s[1]>> \o Unescape(Tail(s))
  ELSE IF Len(s) > 1 /\ s[2] \in {Quote, Backslash}
  THEN <<s[2]>> \o Unescape(SubSeq(s, 3, Len(s)))
  ELSE <<NUL>>

(* The copy is allocated before it is known whether the escapes are right. *)
parse_string(h, a, buf, off) ==
  LET end == StringEnd(buf, off + 1)
      chars == Unescape(SubSeq(buf, off + 2, end))
      copy == cJSON_strdup(h, chars)
  IN  IF off >= Len(buf) THEN Parsed([h EXCEPT !.bad = TRUE], FALSE, off)
      ELSE IF ~At(buf, off, Quote) \/ end >= Len(buf) \/ copy.ret = {}
              \/ (chars # <<>> /\ Last(chars) = NUL)
      THEN Parsed(h, FALSE, off)
      ELSE Parsed([copy.h EXCEPT !.cell[a].type = "String", !.cell[a].valuestring = copy.ret],
                  TRUE, end + 1)

(* A name is parsed as a value and then moved; a colon follows it.         *)
NameParsed(p, a, buf, off) ==
  IF ~p.ok THEN p
  ELSE Parsed([p.h EXCEPT !.cell[a].string = p.h.cell[a].valuestring,
                          !.cell[a].valuestring = {}], At(buf, off, ":"), off + 1)
NameThen(p, a, buf) == NameParsed(p, a, buf, buffer_skip_whitespace(buf, p.off))
ParseName(h, a, buf, off) == NameThen(parse_string(h, a, buf, off), a, buf)

(* Fault: a list that cannot be completed is dropped, not deleted.         *)
GiveUpDrops(h, head, off) == Parsed(h, FALSE, off)

GiveUp(h, head, off) == Parsed(cJSON_Delete(h, head), FALSE, off)

(* parse_array and parse_object differ in their brackets and in the name   *)
(* in front of each value.  l is the list that is parsed: the item it is   *)
(* for, its type, its first item, the buffer and the depth.                *)
Closing(type) == IF type = "Array" THEN "]" ELSE "}"

RECURSIVE parse_value(_, _, _, _, _), ParseItem(_, _, _, _)

(* The value p of the item n has been parsed; off is behind it.            *)
ItemParsed(p, n, l, off) ==
  IF ~p.ok THEN GiveUp(p.h, l.head, p.off)
  ELSE IF At(l.buf, off, ",") THEN ParseItem(cJSON_New_Item(p.h), n, l, off)
  ELSE IF ~At(l.buf, off, Closing(l.type)) THEN GiveUp(p.h, l.head, off)
  ELSE Parsed([p.h EXCEPT !.cell[l.head].prev = n, !.cell[l.item].type = l.type,
                          !.cell[l.item].child = l.head], TRUE, off + 1)
ValueThen(p, n, l) == ItemParsed(p, n, l, buffer_skip_whitespace(l.buf, p.off))

(* The name has been parsed, or there is none.                             *)
ItemNamed(p, n, l) ==
  IF ~p.ok THEN GiveUp(p.h, l.head, p.off)
  ELSE ValueThen(parse_value(p.h, n, l.buf, buffer_skip_whitespace(l.buf, p.off), l.depth),
                 n, l)
NameOrNot(h, n, l, off) ==
  IF l.type = "Array" THEN ItemNamed(Parsed(h, TRUE, off + 1), n, l)
  ELSE IF off + 1 >= Len(l.buf) THEN GiveUp(h, l.head, off)
  ELSE ItemNamed(ParseName(h, n, l.buf, buffer_skip_whitespace(l.buf, off + 1)), n, l)

(* The next item, behind last; the bracket or a comma is at off.           *)
ParseItem(new, last, l, off) ==
  IF new.ret = NULL THEN GiveUp(new.h, l.head, off)
  ELSE NameOrNot(IF last = NULL THEN new.h ELSE suffix_object(new.h, last, new.ret), new.ret,
                 IF last = NULL THEN [l EXCEPT !.head = new.ret] ELSE l, off)

(* off is behind the opening bracket.                                      *)
ParseList(h, a, type, buf, off, depth) ==
  IF At(buf, off, Closing(type))
  THEN Parsed([h EXCEPT !.cell[a].type = type, !.cell[a].child = NULL], TRUE, off + 1)
  ELSE IF off >= Len(buf) THEN Parsed(h, FALSE, off - 1)
  ELSE ParseItem(cJSON_New_Item(h), NULL,
                 [item |-> a, type |-> type, head |-> NULL, buf |-> buf, depth |-> depth],
                 off - 1)

(* Fault: the depth is not counted.                                        *)
ParseListUnlimited(h, a, type, buf, off, depth) ==
  ParseList(h, a, type, buf, buffer_skip_whitespace(buf, off + 1), depth)

parse_list(h, a, type, buf, off, depth) ==
  IF depth >= CJSON_NESTING_LIMIT THEN Parsed(h, FALSE, off)
  ELSE ParseList(h, a, type, buf, buffer_skip_whitespace(buf, off + 1), depth + 1)

parse_value(h, a, buf, off, depth) ==
  IF off + 4 <= Len(buf) /\ SubSeq(buf, off + 1, off + 4) = True
  THEN Parsed([h EXCEPT !.cell[a].type = "True"], TRUE, off + 4)
  ELSE IF At(buf, off, Quote) THEN parse_string(h, a, buf, off)
  ELSE IF At(buf, off, "1") THEN parse_number(h, a, buf, off)
  ELSE IF At(buf, off, "[") \/ At(buf, off, "{")
  THEN parse_list(h, a, IF At(buf, off, "[") THEN "Array" ELSE "Object", buf, off, depth)
  ELSE Parsed(h, FALSE, off)

(* The root item has been parsed.                                          *)
RootParsed(p, a, buf, require_null_terminated) ==
  IF p.ok /\ (require_null_terminated => At(buf, buffer_skip_whitespace(buf, p.off), NUL))
  THEN Result(p.h, a)
  ELSE Result(cJSON_Delete(p.h, a), NULL)

ParseRoot(new, buf, require_null_terminated) ==
  IF new.ret = NULL THEN new
  ELSE RootParsed(parse_value(new.h, new.ret, buf, buffer_skip_whitespace(buf, 0), 0),
                  new.ret, buf, require_null_terminated)

cJSON_ParseWithLengthOpts(h, buf, require_null_terminated) ==
  IF buf = <<>> THEN Result(h, NULL)
  ELSE ParseRoot(cJSON_New_Item(h), buf, require_null_terminated)

(* cJSON_ParseWithOpts hands over the terminating NUL with the text.       *)
cJSON_ParseWithOpts(h, s, require_null_terminated) ==
  cJSON_ParseWithLengthOpts(h, s \o <<NUL>>, require_null_terminated)

-----------------------------------------------------------------------------
(* Printing.  A print buffer p holds what has been printed and its length; *)
(* over says that a byte behind its end has been written.                  *)

Buffer(length, noalloc, format, left) ==
  [out |-> <<>>, length |-> length, noalloc |-> noalloc, format |-> format, depth |-> 0,
   left |-> left, ok |-> TRUE, over |-> FALSE]

(* Fault: the end of the string is forgotten.                              *)
ensureNoEnd(p, needed) ==
  LET want == needed + Len(p.out) - 2 IN
  IF ~p.ok \/ (p.length > 0 /\ Len(p.out) >= p.length) THEN [p EXCEPT !.ok = FALSE]
  ELSE IF want <= p.length THEN p
  ELSE IF p.noalloc \/ p.left = 0 THEN [p EXCEPT !.ok = FALSE]
  ELSE [p EXCEPT !.length = want * 2, !.left = @ - 1]

ensure(p, needed) ==
  LET want == needed + Len(p.out) + 1 IN
  IF ~p.ok \/ (p.length > 0 /\ Len(p.out) >= p.length) THEN [p EXCEPT !.ok = FALSE]
  ELSE IF want <= p.length THEN p
  ELSE IF p.noalloc \/ p.left = 0 THEN [p EXCEPT !.ok = FALSE]
  ELSE [p EXCEPT !.length = want * 2, !.left = @ - 1]

(* ensure(needed), then the characters s and end bytes behind them.        *)
Put(p, needed, s, end) ==
  LET q == ensure(p, needed) IN
  IF ~q.ok THEN q
  ELSE [q EXCEPT !.out = @ \o s, !.over = @ \/ Len(p.out) + Len(s) + end > q.length]

Blanks(n) == [i \in 1 .. n |-> " "]
Escaped(s) ==
  FlattenSeq([i \in DOMAIN s |-> IF s[i] \in {Quote, Backslash} THEN <<Backslash, s[i]>>
                                                                ELSE <<s[i]>>])

print_string_ptr(p, string) ==
  LET s == IF string = {} THEN <<>> ELSE Escaped(CHOOSE t \in string : TRUE) IN
  Put(p, Len(s) + 3, <<Quote>> \o s \o <<Quote>>, 1)

RECURSIVE print_value(_, _, _), print_array(_, _, _), print_object(_, _, _)
RECURSIVE PrintElements(_, _, _), PrintMembers(_, _, _)
print_value(h, a, p) ==
  LET c == h.cell[a] IN
  CASE c.type = "True" -> Put(p, 5, True, 1)
    [] c.type = "Number" -> Put(p, 2, <<"1">>, 1)
    [] c.type = "String" -> print_string_ptr(p, Texts(h, c.valuestring))
    [] c.type = "Array" -> print_array(h, c.child, p)
    [] c.type = "Object" -> print_object(h, c.child, p)
    [] OTHER -> [p EXCEPT !.ok = FALSE]

print_array(h, child, p) ==
  LET open == Put(p, 1, <<"[">>, 0)
      q == PrintElements(h, child, [open EXCEPT !.depth = @ + 1])
  IN  [Put(q, 2, <<"]">>, 1) EXCEPT !.depth = p.depth]

Extra(p) == IF p.format THEN 1 ELSE 0

PrintElements(h, a, p) ==
  LET v == print_value(h, a, p) IN
  IF a = NULL \/ ~p.ok THEN p
  ELSE IF h.cell[a].next = NULL THEN v
  ELSE PrintElements(h, h.cell[a].next,
                     Put(v, Extra(p) + 2, <<",">> \o Blanks(Extra(p)), 1))

print_object(h, child, p) ==
  LET open == Put(p, Extra(p) + 2, <<"{">> \o Blanks(Extra(p)), 0)
      q == PrintMembers(h, child, [open EXCEPT !.depth = @ + 1])
  IN  [Put(q, IF p.format THEN q.depth + 1 ELSE 2,
           Blanks(IF p.format THEN p.depth ELSE 0) \o <<"}">>, 1) EXCEPT !.depth = p.depth]

PrintMembers(h, a, p) ==
  LET tabs == IF p.format THEN Put(p, p.depth, Blanks(p.depth), 0) ELSE p
      key == print_string_ptr(tabs, Texts(h, h.cell[a].string))
      colon == Put(key, Extra(p) + 1, <<":">> \o Blanks(Extra(p)), 0)
      v == print_value(h, a, colon)
      comma == IF h.cell[a].next = NULL THEN <<>> ELSE <<",">>
  IN  IF a = NULL \/ ~p.ok THEN p
      ELSE PrintMembers(h, h.cell[a].next,
             Put(v, Extra(p) + Len(comma) + 1, comma \o Blanks(Extra(p)), 1))

(* print and cJSON_PrintBuffered, with left allocations that succeed.      *)
cJSON_PrintBuffered(h, a, prebuffer, fmt, left) ==
  print_value(h, a, Buffer(prebuffer, FALSE, fmt, left))

cJSON_PrintPreallocated(h, a, length, format) ==
  print_value(h, a, Buffer(length, TRUE, format, 0))

-----------------------------------------------------------------------------
(* Minifying a text in place: blanks and comments outside strings go.      *)
(* There are no comments in the texts here.                                *)

(* The text behind a string's opening quote: what is copied and the rest.  *)
RECURSIVE minify_string(_, _)
minify_string(s, done) ==
  IF s = <<>> THEN [out |-> done, rest |-> s]
  ELSE IF s[1] = Quote THEN [out |-> Append(done, Quote), rest |-> Tail(s)]
  ELSE IF s[1] = Backslash /\ Len(s) > 1 /\ s[2] = Quote
  THEN minify_string(SubSeq(s, 3, Len(s)), done \o <<Backslash, Quote>>)
  ELSE minify_string(Tail(s), Append(done, s[1]))

(* Fault: strings are minified too.                                        *)
RECURSIVE MinifyAll(_)
MinifyAll(s) ==
  IF s = <<>> THEN <<>>
  ELSE IF s[1] = " " THEN MinifyAll(Tail(s))
  ELSE <<s[1]>> \o MinifyAll(Tail(s))

RECURSIVE cJSON_Minify(_)
cJSON_Minify(s) ==
  IF s = <<>> THEN <<>>
  ELSE IF s[1] = " " THEN cJSON_Minify(Tail(s))
  ELSE IF s[1] = Quote
  THEN LET m == minify_string(Tail(s), <<Quote>>) IN m.out \o cJSON_Minify(m.rest)
  ELSE <<s[1]>> \o cJSON_Minify(Tail(s))
=============================================================================
