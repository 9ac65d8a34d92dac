------------------------------ MODULE CJsonUse ------------------------------
(***************************************************************************)
(* A program that uses cJSON (src/cJSON/cJSON.c).  It takes a text, right  *)
(* or wrong, parses it, and builds, changes, copies and deletes the trees  *)
(* of items it owns, with every allocation liable to fail.                 *)
(*                                                                         *)
(* The program keeps to the interface: it gives away only items it owns    *)
(* (roots), never makes a tree part of itself, and neither changes a list  *)
(* that a reference shares nor frees items or a string that one shares.    *)
(***************************************************************************)
EXTENDS CJsonText

CONSTANTS
  MaxItems,          \* bound: items of the heap
  MaxStrings,        \* bound: strings of the heap
  MaxAllocs,         \* bound: allocations of one call before one fails
  Names,             \* names of the items of objects
  Values,            \* values of strings
  Seeds,             \* bounds: texts to start from, with the edits and the
                     \* calls made afterwards
  Alphabet           \* the characters put into texts

VARIABLES
  heap,
  roots,             \* the items the program owns
  text, edits,       \* a text and how often it may still be edited
  calls              \* calls still to be made

vars == <<heap, roots, text, edits, calls>>

Init ==
  /\ heap = Empty(MaxItems, MaxStrings) /\ roots = {}
  /\ \E s \in Seeds : text = s.text /\ edits = s.edits /\ calls = s.calls

(* The text of a file: any text at a distance of a few edits from a seed.  *)
Edit ==
  /\ edits > 0 /\ edits' = edits - 1
  /\ \E i \in 1 .. Len(text) + 1 :
       \/ \E c \in Alphabet : text' = InsertAt(text, i, c)
       \/ i <= Len(text) /\ text' = RemoveAt(text, i)
       \/ i <= Len(text) /\ \E c \in Alphabet : text' = ReplaceAt(text, i, c)
  /\ UNCHANGED <<heap, roots, calls>>

-----------------------------------------------------------------------------
(* Calls.  The heap is given the allocations that will succeed.            *)

Heap(k) == [heap EXCEPT !.left = k]
Returns(h) == /\ heap' = [h EXCEPT !.left = 0]
              /\ calls' = calls - 1 /\ UNCHANGED <<text, edits>>
Owns(r) == r \ {NULL}

Parse ==
  \E k \in 0 .. MaxAllocs, nul, strict \in BOOLEAN :
    LET r == cJSON_ParseWithLengthOpts(Heap(k), IF nul THEN Append(text, NUL) ELSE text, strict)
    IN  /\ edits = 0 /\ text # <<>>
        /\ heap' = [r.h EXCEPT !.left = 0]
        /\ roots' = Owns({r.ret})
        /\ text' = <<>> /\ UNCHANGED <<edits, calls>>

Ready == text = <<>> /\ edits = 0 /\ calls > 0

(* A list that a reference shares.                                         *)
Shared(a) ==
  \E r \in Live(heap) : /\ heap.cell[r].ref /\ heap.cell[r].child # NULL
                        /\ heap.cell[r].child = heap.cell[a].child
Holders == {a \in Live(heap) : /\ heap.cell[a].type \in {"Array", "Object"}
                               /\ ~heap.cell[a].ref /\ ~Shared(a)}
Objects == {a \in Holders : heap.cell[a].type = "Object"}

(* References outside of a set of items that share a value of one of them. *)
Borrowers(items) ==
  {r \in Live(heap) \ items :
     heap.cell[r].ref /\ \E a \in items : heap.cell[r].valuestring \cap OwnedValue(heap.cell[a]) # {}}
MayDelete(a) ==
  /\ Borrowers(Tree(heap, a)) = {}
  /\ \A r \in Live(heap) \ Tree(heap, a) :
       heap.cell[r].ref => heap.cell[r].child \notin Tree(heap, a)

Create ==
  \E k \in 0 .. 2 :
    \E r \in {cJSON_Create(Heap(k), t) : t \in {"Number", "Array", "Object"}}
             \cup {cJSON_CreateString(Heap(k), v) : v \in Values}
             \cup {cJSON_CreateStringReference(Heap(k), v) : v \in Values}
             \cup {cJSON_CreateIntArray(Heap(k), n) : n \in 0 .. 2} :
      /\ Ready /\ Returns(r.h) /\ roots' = Owns(roots \cup {r.ret})

AddItem ==
  \E a \in Holders, i \in roots, k \in 0 .. 1 :
    \E r \in {add_item_to_array(heap, a, i)}
             \cup {add_item_to_object(Heap(k), b, n, i, cs) :
                     b \in {a} \cap Objects, n \in Names, cs \in BOOLEAN} :
      /\ Ready /\ (a # i => a \notin Tree(heap, i))
      /\ Returns(r.h) /\ roots' = IF r.ret THEN roots \ {i} ELSE roots

AddReference ==
  \E a \in Holders, i \in Live(heap), k \in 0 .. 2 :
    \E r \in {cJSON_AddItemReferenceToArray(Heap(k), a, i)}
             \cup {cJSON_AddItemReferenceToObject(Heap(k), b, n, i) :
                     b \in {a} \cap Objects, n \in Names} :
      /\ Ready /\ a \notin Tree(heap, i)
      /\ Returns(r.h) /\ UNCHANGED roots

AddNew ==
  \E a \in Objects, n \in Names, k \in 0 .. 3 :
    \E new \in {cJSON_Create(Heap(k), "Number")}
               \cup {cJSON_CreateString(Heap(k), v) : v \in Values} :
      /\ Ready /\ Returns(cJSON_AddToObject(new.h, a, n, new).h) /\ UNCHANGED roots

Detach ==
  \E a \in Holders :
    \E i \in {get_array_item(heap, a, n) : n \in 0 .. MaxItems}
             \cup {get_object_item(heap, a, n, cs) : n \in Names, cs \in BOOLEAN} :
      LET r == cJSON_DetachItemViaPointer(heap, a, i) IN
      /\ Ready /\ Returns(r.h) /\ roots' = Owns(roots \cup {r.ret})

(* cJSON_DeleteItemFromArray and cJSON_DeleteItemFromObject.               *)
DeleteItem ==
  \E a \in Holders :
    \E i \in {get_array_item(heap, a, n) : n \in 0 .. MaxItems}
             \cup {get_object_item(heap, a, n, cs) : n \in Names, cs \in BOOLEAN} :
      LET r == cJSON_DetachItemViaPointer(heap, a, i) IN
      /\ Ready /\ (i # NULL => MayDelete(i))
      /\ Returns(cJSON_Delete(r.h, r.ret)) /\ UNCHANGED roots

Insert ==
  \E a \in Holders, i \in roots, n \in 0 .. MaxItems :
    LET r == cJSON_InsertItemInArray(heap, a, n, i) IN
    /\ Ready /\ a \notin Tree(heap, i)
    /\ Returns(r.h) /\ roots' = IF r.ret THEN roots \ {i} ELSE roots

Replace ==
  \E a \in Holders, i \in roots, k \in 0 .. 1 :
    \E r \in {cJSON_ReplaceItemViaPointer(heap, a, get_array_item(heap, a, n), i) :
                n \in 0 .. MaxItems}
             \cup {replace_item_in_object(Heap(k), a, n, i, cs) : n \in Names, cs \in BOOLEAN} :
      /\ Ready /\ a \notin Tree(heap, i)
      /\ \A c \in 1 .. Len(Children(heap, a)) : MayDelete(Children(heap, a)[c])
      /\ Returns(r.h) /\ roots' = IF r.ret THEN roots \ {i} ELSE roots

(* The new value is a literal or the value of an item, also of the same.   *)
(* A value that a reference shares is written over, but not replaced.      *)
SetValue ==
  \E a \in Live(heap), k \in 0 .. 1 :
    \E p \in {Literal(v) : v \in Values} \cup UNION {heap.cell[b].valuestring : b \in Live(heap)} :
      /\ Ready
      /\ Borrowers({a}) = {} \/ \E old \in Texts(heap, heap.cell[a].valuestring) :
                                  Len(Text(heap, p)) <= Len(old)
      /\ Returns(cJSON_SetValuestring(Heap(k), a, p)) /\ UNCHANGED roots

Duplicate ==
  \E a \in Live(heap), recurse \in BOOLEAN, k \in 0 .. MaxAllocs :
    LET r == cJSON_Duplicate_rec(Heap(k), a, 0, recurse) IN
    /\ Ready /\ Returns(r.h) /\ roots' = Owns(roots \cup {r.ret})

Delete ==
  \E a \in roots :
    /\ Ready /\ MayDelete(a)
    /\ Returns(cJSON_Delete(heap, a)) /\ roots' = roots \ {a}

Next == \/ Edit \/ Parse \/ Create \/ AddItem \/ AddReference \/ AddNew \/ Detach
        \/ DeleteItem \/ Insert \/ Replace \/ SetValue \/ Duplicate \/ Delete

Spec == Init /\ [][Next]_vars

-----------------------------------------------------------------------------
(* Properties.                                                             *)

(* The heap holds items whose pointers lead to items, the program owns     *)
(* items of it, and nothing has been freed twice or read outside a buffer. *)
ItemsTypeOK ==
  /\ ~heap.bad /\ heap.left = 0
  /\ roots \subseteq Live(heap)
  /\ \A a \in Live(heap) :
       /\ heap.cell[a].type \in {"True", "Number", "String", "Array", "Object"}
       /\ {heap.cell[a].next, heap.cell[a].prev, heap.cell[a].child}
            \subseteq Live(heap) \cup {NULL}
  /\ edits \in Nat

(* After any sequence of calls every list of children is a list: it ends,  *)
(* prev undoes next and the first item's prev is the last item, on which   *)
(* appending to it rests.                                                  *)
ListsWellFormed ==
  \A a \in Live(heap) : heap.cell[a].child # NULL =>
    LET cs == Children(heap, a) IN
    /\ Len(cs) <= MaxItems /\ IsInjective(cs)
    /\ heap.cell[cs[1]].prev = Last(cs)
    /\ \A i \in 2 .. Len(cs) : heap.cell[cs[i]].prev = cs[i - 1]

(* Every item has one owner, the program or the item whose child it is, so *)
(* that deleting what the program owns frees everything once, also when an *)
(* allocation has failed halfway.  The code loses one kind of item, the    *)
(* reference it has made when there is no memory for its name.             *)
OwnedOnce ==
  LET Parents(a) == {p \in Live(heap) : ~heap.cell[p].ref
                                        /\ a \in Range(Children(heap, p))}
  IN  \A a \in Live(heap) :
        IF a \in roots
        THEN Parents(a) = {} /\ heap.cell[a].next = NULL
        ELSE \/ Cardinality(Parents(a)) = 1
             \/ Parents(a) = {} /\ heap.cell[a].ref /\ heap.cell[a].string = {}

(* Every allocated string is the value or the name of exactly one item     *)
(* that owns it: none is lost or owned twice when an item is renamed,      *)
(* replaced, copied or given a new value.  What an item owns is allocated, *)
(* and what a reference points to is so as well, or a literal.             *)
StringsOwned ==
  LET Valued(p) == {a \in Live(heap) : p \in OwnedValue(heap.cell[a])}
      Named(p) == {a \in Live(heap) : p \in OwnedName(heap.cell[a])}
  IN  /\ \A t \in DOMAIN heap.text :
           Cardinality(Valued(Allocated(t))) + Cardinality(Named(Allocated(t))) = 1
      /\ \A a \in Live(heap) :
           LET c == heap.cell[a] IN
           /\ \A p \in OwnedValue(c) \cup OwnedName(c) : p.at \in DOMAIN heap.text
           /\ \A p \in c.valuestring \cup c.string : p.at \in DOMAIN heap.text \cup {NULL}

(* The JSON value of an item.                                              *)
RECURSIVE ValueOf(_, _)
ValueOf(h, a) ==
  LET c == h.cell[a]
      cs == Children(h, a)
      Name(x) == IF h.cell[x].string = {} THEN {<<>>} ELSE Texts(h, h.cell[x].string)
  IN  <<c.type, Texts(h, c.valuestring),
        [i \in DOMAIN cs |-> <<IF c.type = "Object" THEN Name(cs[i]) ELSE {},
                               ValueOf(h, cs[i])>>]>>

RECURSIVE Nesting(_, _)
Nesting(h, a) ==
  LET cs == Children(h, a) IN
  IF h.cell[a].type \notin {"Array", "Object"} THEN 0
  ELSE 1 + Max({0} \cup {Nesting(h, cs[i]) : i \in DOMAIN cs})

RECURSIVE Depth(_, _)
Depth(h, a) ==
  LET cs == Children(h, a) IN Max({0} \cup {1 + Depth(h, cs[i]) : i \in DOMAIN cs})

(* The value that has been parsed, if any.                                 *)
Meaning(r) == IF r.ret = NULL THEN {} ELSE {ValueOf(r.h, r.ret)}

Scratch == [Empty(12, 99) EXCEPT !.left = 99]

(* What is printed, with or without formatting, parses to what was printed *)
(* unless it is nested too deeply.                                         *)
RoundTrip ==
  \A a \in roots, fmt \in BOOLEAN :
    LET p == cJSON_PrintBuffered(heap, a, 1, fmt, 99) IN
    /\ p.ok
    /\ Meaning(cJSON_ParseWithOpts(Scratch, p.out, TRUE)) =
         IF Nesting(heap, a) > CJSON_NESTING_LIMIT THEN {} ELSE {ValueOf(heap, a)}

(* Whatever the size of the buffer, nothing is written behind its end, and *)
(* five bytes more than the text and its end are enough (cJSON.h:188).     *)
PrintFits ==
  \A a \in roots, fmt \in BOOLEAN :
    LET printed == cJSON_PrintBuffered(heap, a, 1, fmt, 99)
        need == Len(printed.out) + 1
    IN  /\ ~printed.over
        /\ \A n \in 0 .. need + 5 :
             LET p == cJSON_PrintPreallocated(heap, a, n, fmt) IN
             ~p.over /\ (p.ok => n >= need /\ p.out = printed.out)
        /\ cJSON_PrintPreallocated(heap, a, need + 5, fmt).ok

(* A copy is made of every tree that is not too deep, and only of these.   *)
(* It compares equal to the original, exactly and without regard to case,  *)
(* if no object has two items whose names compare equal.                   *)
CopyEqual ==
  \A a \in roots, case_sensitive \in BOOLEAN :
    LET wide == [heap EXCEPT !.cell = [b \in 1 .. 2 * MaxItems + 1 |->
                                         IF b <= MaxItems THEN heap.cell[b] ELSE Free],
                             !.room = 99, !.left = 99]
        copy == cJSON_Duplicate_rec(wide, a, 0, TRUE)
        Distinct(b) == LET cs == Children(heap, b) IN
          \A i, j \in DOMAIN cs :
            \E s \in Texts(heap, heap.cell[cs[i]].string),
               t \in Texts(heap, heap.cell[cs[j]].string) :
              i # j => ~SameName(s, t, case_sensitive)
    IN  /\ copy.ret # NULL <=> Depth(heap, a) <= CJSON_CIRCULAR_LIMIT
        /\ copy.ret # NULL /\ (\A b \in Live(heap) : heap.cell[b].type = "Object" => Distinct(b))
           => cJSON_Compare(copy.h, a, copy.ret, case_sensitive)

-----------------------------------------------------------------------------
(* The grammar of JSON, for the texts of this model.                       *)

Blank(s) == Range(s) \subseteq {" "}
IsString(s) ==
  /\ Len(s) >= 2 /\ s[1] = Quote /\ s[Len(s)] = Quote
  /\ LET in == SubSeq(s, 2, Len(s) - 1)
         Escapes(i) == in[i] = Backslash /\ Cardinality({j \in 1 .. i - 1 :
                         \A m \in j .. i - 1 : in[m] = Backslash}) % 2 = 0
     IN  \A i \in DOMAIN in :
           /\ Escapes(i) => i < Len(in) /\ in[i + 1] \in {Quote, Backslash}
           /\ in[i] = Quote => i > 1 /\ Escapes(i - 1)

RECURSIVE IsValue(_, _), IsList(_, _, _)
IsValue(s, depth) ==
  \/ s = True
  \/ Len(s) \in 1 .. NumberMax /\ Range(s) = {"1"}
  \/ IsString(s)
  \/ /\ depth > 0 /\ Len(s) >= 2
     /\ \E t \in {"Array", "Object"} :
          /\ s[1] = (IF t = "Array" THEN "[" ELSE "{")
          /\ s[Len(s)] = (IF t = "Array" THEN "]" ELSE "}")
          /\ LET in == SubSeq(s, 2, Len(s) - 1) IN Blank(in) \/ IsList(in, t, depth - 1)

Trim(s) ==
  LET full == {i \in DOMAIN s : s[i] # " "} IN
  IF full = {} THEN <<>> ELSE SubSeq(s, Min(full), Max(full))

(* Values separated by commas, behind a name and a colon in objects.       *)
IsList(s, t, depth) ==
  LET IsMember(m) ==
        IF t = "Array" THEN IsValue(Trim(m), depth)
        ELSE \E c \in DOMAIN m : /\ m[c] = ":" /\ IsString(Trim(SubSeq(m, 1, c - 1)))
                                 /\ IsValue(Trim(SubSeq(m, c + 1, Len(m))), depth)
  IN  \/ IsMember(s)
      \/ \E c \in DOMAIN s : /\ s[c] = "," /\ IsMember(SubSeq(s, 1, c - 1))
                             /\ IsList(SubSeq(s, c + 1, Len(s)), t, depth)

(* A text is accepted exactly if it is a value of the grammar, with blanks *)
(* around it; without require_null_terminated, if it begins with one.      *)
ParserExact ==
  \A nul, strict \in BOOLEAN :
    LET buf == IF nul THEN Append(text, NUL) ELSE text
        accepted == cJSON_ParseWithLengthOpts(Scratch, buf, strict).ret # NULL
    IN  accepted <=>
          IF strict THEN nul /\ IsValue(Trim(text), CJSON_NESTING_LIMIT)
          ELSE \E n \in 1 .. Len(text) :
                 IsValue(Trim(SubSeq(text, 1, n)), CJSON_NESTING_LIMIT)

(* Minifying a text does not change what it means.  A backslash that is    *)
(* itself escaped in front of a quote is out of step with minify_string    *)
(* (cJSON.c:2723) and left aside.                                          *)
MinifySame ==
  LET Doubled == \E i \in 1 .. Len(text) - 1 : text[i] = Backslash /\ text[i + 1] = Backslash
      Read(t) == Meaning(cJSON_ParseWithOpts(Scratch, t, TRUE))
  IN  ~Doubled /\ Read(text) # {} => Read(cJSON_Minify(text)) = Read(text)

(* After any calls, failing ones too, the heap is in order: lists are      *)
(* lists, every item and every string has one owner, nothing is freed      *)
(* twice, and nothing that an item points to has been freed, as long as    *)
(* the program frees nothing that a reference shares (MayDelete, SetValue).*)
HeapSound == ItemsTypeOK /\ ListsWellFormed /\ OwnedOnce /\ StringsOwned

(* A tree survives being printed and parsed, and being copied.             *)
TreesSurvive == RoundTrip /\ CopyEqual
=============================================================================
