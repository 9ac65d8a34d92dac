------------------------------- MODULE CJson -------------------------------
(***************************************************************************)
(* The items of cJSON (src/cJSON/cJSON.c), the library that holds the      *)
(* configuration and the sensor schemas: how trees of items are built,     *)
(* changed, copied and freed, with an allocation failing anywhere.         *)
(*                                                                         *)
(* A heap is a record.  cell maps each address to an item or to Free, text *)
(* the addresses of allocated strings to their characters, left is the     *)
(* number of allocations that will still succeed, which also fail when     *)
(* there are no cells or no room for strings left, and bad says that what  *)
(* is not allocated has been freed.  A field that points to a string is {} *)
(* when NULL and otherwise holds one pointer, to a string of the heap or   *)
(* to a literal of the program, which the pointer brings along.  An opera- *)
(* tion that returns something returns it as ret beside the heap.          *)
(* The number of an item is left out: all numbers are equal.               *)
(***************************************************************************)
EXTENDS Integers, Sequences, FiniteSets, FiniteSetsExt

CONSTANT CJSON_CIRCULAR_LIMIT

NULL == 0
Result(h, r) == [h |-> h, ret |-> r]

Item(t) == [type |-> t, ref |-> FALSE, const |-> FALSE, next |-> NULL, prev |-> NULL,
            child |-> NULL, string |-> {}, valuestring |-> {}]
Free == Item("Free")
Empty(n, room) == [cell |-> [a \in 1 .. n |-> Free], text |-> <<>>, room |-> room, left |-> 0,
                   bad |-> FALSE]
Live(h) == {a \in DOMAIN h.cell : h.cell[a] # Free}

Allocated(at) == [at |-> at, literal |-> <<>>]
Literal(s) == [at |-> NULL, literal |-> s]
Text(h, p) == IF p.at = NULL THEN p.literal ELSE h.text[p.at]
Texts(h, ps) == {Text(h, p) : p \in ps}

(* cJSON_IsReference keeps value and children, cJSON_StringIsConst the     *)
(* name, from being freed with the item.                                   *)
OwnedValue(c) == IF c.ref THEN {} ELSE c.valuestring
OwnedName(c) == IF c.const THEN {} ELSE c.string

(* The list of items from a on; the bound stops a cyclic list.             *)
RECURSIVE Chain(_, _, _)
Chain(h, a, n) == IF a = NULL \/ n = 0 THEN <<>>
                                       ELSE <<a>> \o Chain(h, h.cell[a].next, n - 1)
Children(h, a) == Chain(h, h.cell[a].child, Cardinality(DOMAIN h.cell) + 1)

RECURSIVE Subtree(_, _, _)
Subtree(h, a, n) ==
  {a} \cup (IF n = 0 \/ h.cell[a].ref THEN {}
            ELSE UNION {Subtree(h, Children(h, a)[i], n - 1) : i \in 1 .. Len(Children(h, a))})
Tree(h, a) == Subtree(h, a, Cardinality(DOMAIN h.cell))

-----------------------------------------------------------------------------
(* Memory.                                                                 *)

cJSON_New_Item(h) ==
  IF h.left = 0 \/ Live(h) = DOMAIN h.cell
  THEN Result(h, NULL)
  ELSE LET a == Min(DOMAIN h.cell \ Live(h))
       IN  Result([h EXCEPT !.cell[a] = Item("Invalid"), !.left = @ - 1], a)

cJSON_strdup(h, s) ==
  LET used == DOMAIN h.text
      at == Min(1 .. Cardinality(used) + 1 \ used)
  IN  IF h.left = 0 \/ Cardinality(used) = h.room THEN Result(h, {})
      ELSE Result([h EXCEPT !.text = [t \in used \cup {at} |-> IF t = at THEN s ELSE @[t]],
                            !.left = @ - 1], {Allocated(at)})

(* The strings pointed to, if any, are freed.                              *)
deallocate(h, ps) ==
  [h EXCEPT !.text = [t \in DOMAIN @ \ {p.at : p \in ps} |-> @[t]],
            !.bad = @ \/ \E p \in ps : p.at \notin DOMAIN h.text]

FreeItem(h, a) ==
  LET c == h.cell[a] IN
  [deallocate(deallocate(h, OwnedValue(c)), OwnedName(c)) EXCEPT !.cell[a] = Free]

(* Fault: the children of a reference are deleted with it.                 *)
RECURSIVE DeleteShared(_, _)
DeleteShared(h, a) ==
  IF a = NULL THEN h
  ELSE IF h.cell[a] = Free THEN [h EXCEPT !.bad = TRUE]
  ELSE LET c == h.cell[a]
           below == DeleteShared(h, c.child)
       IN  DeleteShared(FreeItem(below, a), c.next)

RECURSIVE cJSON_Delete(_, _)
cJSON_Delete(h, a) ==
  IF a = NULL THEN h
  ELSE IF h.cell[a] = Free THEN [h EXCEPT !.bad = TRUE]
  ELSE LET c == h.cell[a]
           below == IF c.ref THEN h ELSE cJSON_Delete(h, c.child)
       IN  cJSON_Delete(FreeItem(below, a), c.next)

-----------------------------------------------------------------------------
(* Access.                                                                 *)

cJSON_GetArraySize(h, a) == IF a = NULL THEN 0 ELSE Len(Children(h, a))

get_array_item(h, a, index) ==
  IF a = NULL \/ index >= Len(Children(h, a)) THEN NULL ELSE Children(h, a)[index + 1]

tolower(s) == [i \in DOMAIN s |-> IF s[i] = "A" THEN "a" ELSE s[i]]
SameName(s, t, case_sensitive) == IF case_sensitive THEN s = t ELSE tolower(s) = tolower(t)

(* The search for an exact name ends at the first item without a name.     *)
get_object_item(h, a, name, case_sensitive) ==
  LET cs == IF a = NULL THEN <<>> ELSE Children(h, a)
      Stops(i) == \/ \E s \in Texts(h, h.cell[cs[i]].string) : SameName(name, s, case_sensitive)
                  \/ case_sensitive /\ h.cell[cs[i]].string = {}
      stops == {i \in DOMAIN cs : Stops(i)}
  IN  IF stops = {} \/ h.cell[cs[Min(stops)]].string = {} THEN NULL ELSE cs[Min(stops)]

-----------------------------------------------------------------------------
(* Building.                                                               *)

suffix_object(h, prev, item) == [h EXCEPT !.cell[prev].next = item, !.cell[item].prev = prev]

(* Fault: the first item is not told of the new last one.                  *)
AttachForgetsTail(h, array, item) ==
  LET child == h.cell[array].child IN
  IF array = item THEN Result(h, FALSE)
  ELSE IF child = NULL
  THEN Result([h EXCEPT !.cell[array].child = item, !.cell[item].prev = item,
                        !.cell[item].next = NULL], TRUE)
  ELSE Result(suffix_object(h, h.cell[child].prev, item), TRUE)

(* To find the last item of a list, the first one's prev points to it.     *)
Attach(h, array, item) ==
  LET child == h.cell[array].child IN
  IF array = item THEN Result(h, FALSE)
  ELSE IF child = NULL
  THEN Result([h EXCEPT !.cell[array].child = item, !.cell[item].prev = item,
                        !.cell[item].next = NULL], TRUE)
  ELSE IF h.cell[child].prev = NULL THEN Result(h, TRUE)
  ELSE Result([suffix_object(h, h.cell[child].prev, item) EXCEPT !.cell[child].prev = item],
              TRUE)

add_item_to_array(h, array, item) ==
  IF item = NULL \/ array = NULL THEN Result(h, FALSE) ELSE Attach(h, array, item)

(* The item's own name is freed, unless it is a constant.                  *)
Rename(h, item, name, constant) ==
  [deallocate(h, OwnedName(h.cell[item])) EXCEPT !.cell[item].string = name,
                                                 !.cell[item].const = constant]

add_item_to_object(h, object, name, item, constant_key) ==
  IF object = NULL \/ item = NULL \/ object = item THEN Result(h, FALSE)
  ELSE IF constant_key
  THEN add_item_to_array(Rename(h, item, {Literal(name)}, TRUE), object, item)
  ELSE LET copy == cJSON_strdup(h, name)
       IN  IF copy.ret = {} THEN Result(h, FALSE)
           ELSE add_item_to_array(Rename(copy.h, item, copy.ret, FALSE), object, item)

(* The item is copied: value and children are shared with it.              *)
create_reference(h, item) ==
  LET new == cJSON_New_Item(h) IN
  IF new.ret = NULL THEN new
  ELSE Result([new.h EXCEPT !.cell[new.ret] =
                 [h.cell[item] EXCEPT !.string = {}, !.ref = TRUE, !.next = NULL,
                                      !.prev = NULL]], new.ret)

cJSON_AddItemReferenceToArray(h, array, item) ==
  LET r == create_reference(h, item) IN add_item_to_array(r.h, array, r.ret)

cJSON_AddItemReferenceToObject(h, object, name, item) ==
  LET r == create_reference(h, item) IN add_item_to_object(r.h, object, name, r.ret, FALSE)

(* cJSON_CreateNull, ...True, ...Number, ...Array, ...Object.              *)
cJSON_Create(h, t) ==
  LET new == cJSON_New_Item(h) IN
  IF new.ret = NULL THEN new ELSE Result([new.h EXCEPT !.cell[new.ret].type = t], new.ret)

(* Also cJSON_CreateRaw.                                                   *)
cJSON_CreateString(h, v) ==
  LET new == cJSON_Create(h, "String")
      copy == cJSON_strdup(new.h, v)
  IN  IF new.ret = NULL THEN new
      ELSE IF copy.ret = {} THEN Result(cJSON_Delete(new.h, new.ret), NULL)
      ELSE Result([copy.h EXCEPT !.cell[new.ret].valuestring = copy.ret], new.ret)

cJSON_CreateStringReference(h, v) ==
  LET new == cJSON_Create(h, "String") IN
  IF new.ret = NULL THEN new
  ELSE Result([new.h EXCEPT !.cell[new.ret].ref = TRUE,
                            !.cell[new.ret].valuestring = {Literal(v)}], new.ret)

(* cJSON_AddNullToObject and the other eight.                              *)
cJSON_AddToObject(h, object, name, new) ==
  LET added == add_item_to_object(new.h, object, name, new.ret, FALSE) IN
  IF added.ret THEN Result(added.h, new.ret)
               ELSE Result(cJSON_Delete(added.h, new.ret), NULL)

(* cJSON_CreateIntArray and the other three, from the item p on: n more    *)
(* numbers are created and linked.                                         *)
RECURSIVE Numbers(_, _, _, _)
Numbers(h, a, p, n) ==
  LET new == cJSON_Create(h, "Number") IN
  IF n = 0
  THEN Result(IF p = NULL THEN h ELSE [h EXCEPT !.cell[h.cell[a].child].prev = p], a)
  ELSE IF new.ret = NULL THEN Result(cJSON_Delete(new.h, a), NULL)
  ELSE Numbers(IF p = NULL THEN [new.h EXCEPT !.cell[a].child = new.ret]
                           ELSE suffix_object(new.h, p, new.ret), a, new.ret, n - 1)

cJSON_CreateIntArray(h, count) ==
  LET a == cJSON_Create(h, "Array") IN
  IF a.ret = NULL THEN a ELSE Numbers(a.h, a.ret, NULL, count)

-----------------------------------------------------------------------------
(* Changing.                                                               *)

(* Fault: the first item is not told of the new last one.                  *)
DetachForgetsTail(h, parent, item) ==
  LET c == h.cell[item]
      first == item = h.cell[parent].child
      skip == IF first THEN h ELSE [h EXCEPT !.cell[c.prev].next = c.next]
      back == IF c.next = NULL THEN skip ELSE [skip EXCEPT !.cell[c.next].prev = c.prev]
      head == IF first THEN [back EXCEPT !.cell[parent].child = c.next] ELSE back
  IN  Result([head EXCEPT !.cell[item].prev = NULL, !.cell[item].next = NULL], item)

Unlink(h, parent, item) ==
  LET c == h.cell[item]
      first == item = h.cell[parent].child
      skip == IF first THEN h ELSE [h EXCEPT !.cell[c.prev].next = c.next]
      back == IF c.next = NULL THEN skip ELSE [skip EXCEPT !.cell[c.next].prev = c.prev]
      head == IF first THEN [back EXCEPT !.cell[parent].child = c.next]
              ELSE IF c.next = NULL THEN [back EXCEPT !.cell[h.cell[parent].child].prev = c.prev]
              ELSE back
  IN  Result([head EXCEPT !.cell[item].prev = NULL, !.cell[item].next = NULL], item)

cJSON_DetachItemViaPointer(h, parent, item) ==
  IF parent = NULL \/ item = NULL THEN Result(h, NULL)
  ELSE IF item # h.cell[parent].child /\ h.cell[item].prev = NULL THEN Result(h, NULL)
  ELSE Unlink(h, parent, item)

cJSON_InsertItemInArray(h, array, which, newitem) ==
  LET after == get_array_item(h, array, which)
      prev == h.cell[after].prev
      linked == [h EXCEPT !.cell[newitem].next = after, !.cell[newitem].prev = prev,
                          !.cell[after].prev = newitem]
  IN  IF after = NULL THEN add_item_to_array(h, array, newitem)
      ELSE IF after = h.cell[array].child
      THEN Result([linked EXCEPT !.cell[array].child = newitem], TRUE)
      ELSE IF prev = NULL THEN Result(h, FALSE)
      ELSE Result([linked EXCEPT !.cell[prev].next = newitem], TRUE)

(* The pointers that replacement takes over from item, and those to item.  *)
Relink(h, parent, item, replacement) ==
  LET c == h.cell[item]
      single == c.prev = item
      taken == [h EXCEPT !.cell[replacement].next = c.next, !.cell[replacement].prev = c.prev]
      back == IF c.next = NULL THEN taken ELSE [taken EXCEPT !.cell[c.next].prev = replacement]
      middle == IF c.prev = NULL THEN back ELSE [back EXCEPT !.cell[c.prev].next = replacement]
  IN  IF h.cell[parent].child = item
      THEN [back EXCEPT !.cell[replacement].prev = IF single THEN replacement ELSE @,
                        !.cell[parent].child = replacement]
      ELSE IF c.next = NULL THEN [middle EXCEPT !.cell[h.cell[parent].child].prev = replacement]
      ELSE middle

cJSON_ReplaceItemViaPointer(h, parent, item, replacement) ==
  IF parent = NULL \/ item = NULL THEN Result(h, FALSE)
  ELSE IF h.cell[parent].child = NULL THEN Result(h, FALSE)
  ELSE IF replacement = item THEN Result(h, TRUE)
  ELSE LET r == Relink(h, parent, item, replacement)
       IN  Result(cJSON_Delete([r EXCEPT !.cell[item].next = NULL, !.cell[item].prev = NULL],
                               item), TRUE)

(* Fault: a constant name is freed too.                                    *)
ReplaceFreesConst(h, object, name, replacement, case_sensitive) ==
  LET freed == [deallocate(h, h.cell[replacement].string) EXCEPT !.cell[replacement].string = {}]
      copy == cJSON_strdup(freed, name)
  IN  IF copy.ret = {} THEN Result(freed, FALSE)
      ELSE cJSON_ReplaceItemViaPointer(Rename(copy.h, replacement, copy.ret, FALSE), object,
             get_object_item(h, object, name, case_sensitive), replacement)

(* The replacement gets its new name, and loses its old one, even if there *)
(* is no item to replace.                                                  *)
replace_item_in_object(h, object, name, replacement, case_sensitive) ==
  LET freed == [deallocate(h, OwnedName(h.cell[replacement])) EXCEPT
                  !.cell[replacement].string = {}]
      copy == cJSON_strdup(freed, name)
  IN  IF copy.ret = {} THEN Result(freed, FALSE)
      ELSE cJSON_ReplaceItemViaPointer(Rename(copy.h, replacement, copy.ret, FALSE), object,
             get_object_item(h, object, name, case_sensitive), replacement)

(* Fault: the value of a reference is replaced too.                        *)
SetValuestringOfReference(h, a, p) ==
  LET c == h.cell[a]
      copy == cJSON_strdup(h, Text(h, p))
  IN  IF c.type # "String" \/ c.valuestring \in {{}, {p}} THEN h
      ELSE IF \E old \in c.valuestring : old.at # NULL /\ Len(Text(h, p)) <= Len(Text(h, old))
      THEN [h EXCEPT !.text = [t \in DOMAIN @ |-> IF Allocated(t) \in c.valuestring
                                                  THEN Text(h, p) ELSE @[t]]]
      ELSE IF copy.ret = {} THEN h
      ELSE [deallocate(copy.h, c.valuestring) EXCEPT !.cell[a].valuestring = copy.ret]

(* The characters that p points to become the value.  They are copied over *)
(* an old value that is no shorter, unless the two overlap, which for the  *)
(* starts of strings means that they are the same.                         *)
cJSON_SetValuestring(h, a, p) ==
  LET c == h.cell[a]
      copy == cJSON_strdup(h, Text(h, p))
  IN  IF c.type # "String" \/ c.ref \/ c.valuestring \in {{}, {p}} THEN h
      ELSE IF \E old \in Texts(h, c.valuestring) : Len(Text(h, p)) <= Len(old)
      THEN [h EXCEPT !.text = [t \in DOMAIN @ |-> IF Allocated(t) \in c.valuestring
                                                  THEN Text(h, p) ELSE @[t]]]
      ELSE IF copy.ret = {} THEN h
      ELSE [deallocate(copy.h, c.valuestring) EXCEPT !.cell[a].valuestring = copy.ret]

-----------------------------------------------------------------------------
(* Copying and comparing.                                                  *)

(* Fault: neither the name nor the value is copied.                        *)
DuplicateItemBare(h, item) ==
  LET c == h.cell[item]
      new == cJSON_New_Item(h)
  IN  IF new.ret = NULL THEN new
      ELSE Result([new.h EXCEPT !.cell[new.ret] = [Item(c.type) EXCEPT !.const = c.const]],
                  new.ret)

(* A copy of the string pointed to, if any.                                *)
StringCopy(h, ps) ==
  IF ps = {} THEN Result(h, {}) ELSE cJSON_strdup(h, CHOOSE s \in Texts(h, ps) : TRUE)

(* The item without its children: its strings are copied, a constant name  *)
(* is shared and a reference becomes an item that owns its value.          *)
DuplicateItem(h, item) ==
  LET c == h.cell[item]
      new == cJSON_New_Item(h)
      n == new.ret
      typed == [new.h EXCEPT !.cell[n].type = c.type, !.cell[n].const = c.const]
      value == StringCopy(typed, c.valuestring)
      valued == [value.h EXCEPT !.cell[n].valuestring = value.ret]
      name == IF c.const THEN Result(valued, c.string) ELSE StringCopy(valued, c.string)
  IN  IF n = NULL THEN new
      ELSE IF value.ret = {} /\ c.valuestring # {} THEN Result(cJSON_Delete(typed, n), NULL)
      ELSE IF name.ret = {} /\ c.string # {} THEN Result(cJSON_Delete(valued, n), NULL)
      ELSE Result([name.h EXCEPT !.cell[n].string = name.ret], n)

(* Fault: a copy that cannot be completed is dropped, not deleted.         *)
RECURSIVE DuplicateDrops(_, _, _, _), DuplicateDropsChildren(_, _, _, _, _)
DuplicateDrops(h, item, depth, recurse) ==
  LET new == DuplicateItem(h, item) IN
  IF new.ret = NULL \/ ~recurse THEN new
  ELSE DuplicateDropsChildren(new.h, new.ret, NULL, h.cell[item].child, depth)
DuplicateDropsChildren(h, n, last, child, depth) ==
  LET copy == DuplicateDrops(h, child, depth + 1, TRUE) IN
  IF child = NULL
  THEN Result(IF last = NULL THEN h ELSE [h EXCEPT !.cell[h.cell[n].child].prev = last], n)
  ELSE IF depth >= CJSON_CIRCULAR_LIMIT THEN Result(h, NULL)
  ELSE IF copy.ret = NULL THEN Result(copy.h, NULL)
  ELSE DuplicateDropsChildren(
         IF last = NULL THEN [copy.h EXCEPT !.cell[n].child = copy.ret]
                        ELSE suffix_object(copy.h, last, copy.ret),
         n, copy.ret, h.cell[child].next, depth)

RECURSIVE cJSON_Duplicate_rec(_, _, _, _), DuplicateChildren(_, _, _, _, _)
cJSON_Duplicate_rec(h, item, depth, recurse) ==
  LET new == DuplicateItem(h, item) IN
  IF new.ret = NULL \/ ~recurse THEN new
  ELSE DuplicateChildren(new.h, new.ret, NULL, h.cell[item].child, depth)
DuplicateChildren(h, n, last, child, depth) ==
  LET copy == cJSON_Duplicate_rec(h, child, depth + 1, TRUE) IN
  IF child = NULL
  THEN Result(IF last = NULL THEN h ELSE [h EXCEPT !.cell[h.cell[n].child].prev = last], n)
  ELSE IF depth >= CJSON_CIRCULAR_LIMIT THEN Result(cJSON_Delete(h, n), NULL)
  ELSE IF copy.ret = NULL THEN Result(cJSON_Delete(copy.h, n), NULL)
  ELSE DuplicateChildren(
         IF last = NULL THEN [copy.h EXCEPT !.cell[n].child = copy.ret]
                        ELSE suffix_object(copy.h, last, copy.ret),
         n, copy.ret, h.cell[child].next, depth)

RECURSIVE cJSON_Compare(_, _, _, _)
cJSON_Compare(h, a, b, case_sensitive) ==
  LET as == Children(h, a)
      bs == Children(h, b)
      Matched(xs, y) == \A i \in DOMAIN xs :
        /\ h.cell[xs[i]].string # {}
        /\ LET other == get_object_item(h, y, CHOOSE s \in Texts(h, h.cell[xs[i]].string) : TRUE,
                                        case_sensitive)
           IN other # NULL /\ cJSON_Compare(h, xs[i], other, case_sensitive)
  IN  /\ a # NULL /\ b # NULL
      /\ h.cell[a].type = h.cell[b].type /\ h.cell[a].type # "Invalid"
      /\ \/ a = b
         \/ h.cell[a].type \in {"Number", "True"}
         \/ /\ h.cell[a].type = "String"
            /\ Texts(h, h.cell[a].valuestring) = Texts(h, h.cell[b].valuestring)
            /\ h.cell[a].valuestring # {}
         \/ /\ h.cell[a].type = "Array" /\ Len(as) = Len(bs)
            /\ \A i \in DOMAIN as : cJSON_Compare(h, as[i], bs[i], case_sensitive)
         \/ h.cell[a].type = "Object" /\ Matched(as, b) /\ Matched(bs, a)
=============================================================================
