------------------------- MODULE ArenaStringsProofs -------------------------
(***************************************************************************)
(* Strings in arenas are not overwritten, and results survive the scratch  *)
(* arenas, for any arenas, any sizes and any nesting.                      *)
(***************************************************************************)
EXTENDS ArenaStrings, FiniteSetTheorems, SequenceTheorems, WellFoundedInduction, TLAPS

(* What holds until the caller misuses a string.                           *)
Safe == StringsApart /\ ScratchesNest /\ TextIntact

(* A scratch is not the one conflict that was named, and with two it is    *)
(* the first arena of the thread.                                          *)
ScratchesChosen ==
  \A d \in 1 .. Depth :
    /\ Len(Registered) > 0
    /\ Len(scratch[d].conflicts) = 1 => scratch[d].arena # scratch[d].conflicts[1]
    /\ Len(scratch[d].conflicts) = 2 => scratch[d].arena = Registered[1]

(* The inductive invariant.                                                *)
StringsIInv == StringsInv /\ ScratchesChosen

-----------------------------------------------------------------------------
(* The types.                                                              *)

(* The numbers of a string in use.                                         *)
LEMMA StringFacts ==
  ASSUME StringsTypeOK, NEW s \in InUse
  PROVE  /\ s \in Strings /\ str[s] \in StringInArena /\ str[s].arena \in Arenas
         /\ str[s].at \in Nat /\ str[s].Len \in Nat /\ str[s].Cap \in Nat
         /\ str[s].depth \in Nat /\ str[s].Len <= str[s].Cap
         /\ EndOf(s) = str[s].at + str[s].Cap + 2 /\ EndOf(s) \in Nat
<1>1. s \in Strings /\ str[s].arena \in Arenas /\ str[s].Len <= str[s].Cap
  BY DEF InUse, StringsTypeOK
<1>2. str[s] \in StringInArena
  BY <1>1 DEF StringsTypeOK
<1>3. /\ str[s].at \in Nat /\ str[s].Len \in Nat /\ str[s].Cap \in Nat /\ str[s].depth \in Nat
  BY <1>2 DEF StringInArena
<1> QED
  BY <1>1, <1>2, <1>3 DEF EndOf

LEMMA ArenaFacts ==
  ASSUME StringsTypeOK, NEW a \in Arenas
  PROVE  Cur[a] \in Nat /\ Cur[a] <= Cap /\ Cap \in Nat /\ Mem[a] \in [Places -> Int]
<1>1. Cur[a] \in 0 .. Cap /\ Mem[a] \in [Places -> Int] /\ Cap \in Nat
  BY StringsAssumption DEF StringsTypeOK
<1> QED
  BY <1>1

(* The scratch arenas in use.                                              *)
LEMMA ScratchFacts ==
  ASSUME StringsTypeOK
  PROVE  /\ Depth \in Nat /\ Depth = Len(scratch)
         /\ \A d \in 1 .. Depth : /\ scratch[d] \in Scratch /\ scratch[d].arena \in Arenas
                                  /\ scratch[d].f5 \in Nat /\ scratch[d].f5 <= Cap
                                  /\ scratch[d].conflicts \in Conflicts
<1>1. scratch \in Seq(Scratch) /\ Depth = Len(scratch)
  BY DEF StringsTypeOK, Depth
<1>2. Depth \in Nat /\ \A d \in 1 .. Depth : scratch[d] \in Scratch
  BY <1>1
<1>3. ASSUME NEW x \in Scratch
      PROVE  /\ x.arena \in Arenas /\ x.conflicts \in Conflicts /\ x.f5 \in Nat /\ x.f5 <= Cap
  <2>1. x.f5 \in 0 .. Cap /\ x.arena \in Arenas /\ x.conflicts \in Conflicts
    BY DEF Scratch
  <2> QED
    BY <2>1, StringsAssumption
<1> QED
  BY <1>1, <1>2, <1>3

LEMMA UnusedFacts == Unused \in StringInArena /\ Unused.arena = 0 /\ 0 \notin Arenas
BY StringsAssumption DEF Unused, StringInArena

-----------------------------------------------------------------------------
(* Memory.                                                                 *)

LEMMA WrittenFacts ==
  ASSUME NEW mem \in [Places -> Int], NEW at \in Nat, NEW cells \in Seq(Int)
  PROVE  /\ Written(mem, at, cells) \in [Places -> Int]
         /\ \A i \in Places : i < at \/ i >= at + Len(cells) => Written(mem, at, cells)[i] = mem[i]
         /\ \A k \in 1 .. Len(cells) : at + k - 1 \in Places =>
              Written(mem, at, cells)[at + k - 1] = cells[k]
<1>0. Cap \in Nat /\ Len(cells) \in Nat /\ \A k \in 1 .. Len(cells) : cells[k] \in Int
  BY StringsAssumption
<1>1. ASSUME NEW i \in Places
      PROVE  /\ Written(mem, at, cells)[i] \in Int
             /\ i < at \/ i >= at + Len(cells) => Written(mem, at, cells)[i] = mem[i]
             /\ i >= at /\ i < at + Len(cells) => Written(mem, at, cells)[i] = cells[i - at + 1]
  <2>1. i \in Int
    BY <1>0 DEF Places
  <2>2. Written(mem, at, cells)[i] = IF i \in at .. at + Len(cells) - 1 THEN cells[i - at + 1] ELSE mem[i]
    BY DEF Written
  <2>3. CASE i \in at .. at + Len(cells) - 1
    <3>1. i - at + 1 \in 1 .. Len(cells) /\ ~(i < at) /\ ~(i >= at + Len(cells))
      BY <1>0, <2>1, <2>3
    <3> QED
      BY <1>0, <2>2, <2>3, <3>1
  <2>4. CASE i \notin at .. at + Len(cells) - 1
    <3>1. ~(i >= at /\ i < at + Len(cells))
      BY <1>0, <2>1, <2>4
    <3> QED
      BY <2>2, <2>4, <3>1
  <2> QED
    BY <2>3, <2>4
<1>2. Written(mem, at, cells) \in [Places -> Int]
  <2>1. Written(mem, at, cells) = [i \in Places |-> Written(mem, at, cells)[i]]
    BY DEF Written
  <2> QED
    BY <1>1, <2>1
<1>3. ASSUME NEW k \in 1 .. Len(cells), at + k - 1 \in Places
      PROVE  Written(mem, at, cells)[at + k - 1] = cells[k]
  <2>1. PICK i \in Places : i = at + k - 1
    BY <1>3
  <2>2. k \in Nat /\ i >= at /\ i < at + Len(cells) /\ i - at + 1 = k
    BY <1>0, <1>3, <2>1
  <2> QED
    BY <1>1, <2>1, <2>2
<1> QED
  BY <1>1, <1>2, <1>3

LEMMA TextFacts ==
  ASSUME NEW s \in Int, NEW n \in Nat
  PROVE  Text(s, n) \in Seq(Int) /\ Len(Text(s, n)) = n /\ \A i \in 1 .. n : Text(s, n)[i] = s
<1>1. Text(s, n) \in [1 .. n -> Int] /\ \A i \in 1 .. n : Text(s, n)[i] = s
  BY DEF Text
<1>2. PICK text : text = Text(s, n)
  OBVIOUS
<1> QED
  BY <1>1, <1>2

(* The cells that are written.                                             *)
TextCells(s, n) == Text(s, n) \o <<0>>
StringCells(s, n, ends) == <<-s>> \o Text(s, n) \o (IF ends = 1 THEN <<0>> ELSE <<>>)

LEMMA OneCell == ASSUME NEW x \in Int PROVE <<x>> \in Seq(Int) /\ Len(<<x>>) = 1 /\ <<x>>[1] = x
OBVIOUS

(* A zero is written.                                                      *)
LEMMA ZeroWritten ==
  ASSUME NEW mem \in [Places -> Int], NEW p \in Nat, NEW zero \in Seq(Int),
         Len(zero) = 1, zero[1] = 0, NEW m, m = Written(mem, p, zero)
  PROVE  /\ m \in [Places -> Int] /\ \A i \in Places : i < p \/ i >= p + 1 => m[i] = mem[i]
         /\ p \in Places => m[p] = 0
<1>1. m = [i \in Places |-> IF i \in p .. p + Len(zero) - 1 THEN zero[i - p + 1] ELSE mem[i]]
  BY Zenon DEF Written
<1>2. ASSUME NEW i \in Places
      PROVE  m[i] \in Int /\ (i < p \/ i >= p + 1 => m[i] = mem[i]) /\ (i = p => m[i] = 0)
  <2>1. i \in Nat /\ mem[i] \in Int
    BY StringsAssumption DEF Places
  <2>2. m[i] = IF i \in p .. p + Len(zero) - 1 THEN zero[i - p + 1] ELSE mem[i]
    BY <1>1, Zenon
  <2>3. CASE i = p
    <3>1. i \in p .. p + Len(zero) - 1 /\ i - p + 1 = 1
      BY <2>3
    <3>2. m[i] = 0
      BY <2>2, <3>1, Zenon
    <3> QED
      BY <2>3, <3>2
  <2>4. CASE i # p
    <3>1. i \notin p .. p + Len(zero) - 1
      BY <2>1, <2>4
    <3> QED
      BY <2>1, <2>2, <2>4, <3>1, Zenon
  <2> QED
    BY <2>3, <2>4
<1>3. m \in [Places -> Int]
  BY <1>1, <1>2
<1> QED
  BY <1>2, <1>3

(* What the cells of two sequences, one after the other, are.              *)
LEMMA Joined ==
  ASSUME NEW u \in Seq(Int), NEW v \in Seq(Int)
  PROVE  /\ u \o v \in Seq(Int) /\ Len(u \o v) = Len(u) + Len(v)
         /\ \A i \in 1 .. Len(u) : (u \o v)[i] = u[i]
         /\ \A i \in 1 .. Len(v) : (u \o v)[Len(u) + i] = v[i]
<1>1. PICK w : w = u \o v
  OBVIOUS
<1>2. PICK k \in Nat, l \in Nat : k = Len(u) /\ l = Len(v)
  OBVIOUS
<1>3. /\ w \in Seq(Int) /\ Len(w) = k + l
      /\ \A i \in 1 .. k + l : w[i] = IF i <= k THEN u[i] ELSE v[i - k]
  BY <1>1, <1>2, ConcatProperties
<1>4. ASSUME NEW i \in 1 .. k PROVE w[i] = u[i]
  <2>1. i \in 1 .. k + l /\ i <= k
    BY <1>2
  <2> QED
    BY <1>3, <2>1
<1>5. ASSUME NEW i \in 1 .. l PROVE w[k + i] = v[i]
  <2>1. k + i \in 1 .. k + l /\ ~(k + i <= k) /\ (k + i) - k = i
    BY <1>2
  <2> QED
    BY <1>3, <2>1
<1> QED
  BY <1>1, <1>2, <1>3, <1>4, <1>5

(* The text and a terminator at place at.                                  *)
LEMMA TextWritten ==
  ASSUME NEW mem \in [Places -> Int], NEW at \in Nat, NEW s \in Int, NEW n \in Nat,
         at + n < Cap,
         NEW m, m = Written(mem, at, TextCells(s, n))
  PROVE  /\ m \in [Places -> Int]
         /\ \A i \in Places : i < at \/ i > at + n => m[i] = mem[i]
         /\ \A i \in 0 .. n - 1 : m[at + i] = s
         /\ m[at + n] = 0
<1>0. Cap \in Nat
  BY StringsAssumption
<1>1. PICK text : text = Text(s, n)
  OBVIOUS
<1>2. PICK zero : zero = <<0>>
  OBVIOUS
<1>3. PICK cells : cells = text \o zero
  OBVIOUS
<1>4. text \in Seq(Int) /\ Len(text) = n /\ \A i \in 1 .. n : text[i] = s
  BY <1>1, TextFacts
<1>5. zero \in Seq(Int) /\ Len(zero) = 1 /\ zero[1] = 0 /\ 1 \in 1 .. 1
  BY <1>2, OneCell
<1>6. /\ cells \in Seq(Int) /\ Len(cells) = n + 1 /\ cells[n + 1] = 0
      /\ \A i \in 1 .. n : cells[i] = s
  <2>1. /\ cells \in Seq(Int) /\ Len(cells) = Len(text) + Len(zero)
        /\ \A i \in 1 .. Len(text) : cells[i] = text[i]
        /\ \A i \in 1 .. Len(zero) : cells[Len(text) + i] = zero[i]
    BY <1>3, <1>4, <1>5, Joined
  <2> QED
    BY <1>4, <1>5, <2>1, Zenon
<1>7. m = Written(mem, at, cells)
  <2>1. cells = TextCells(s, n)
    BY <1>1, <1>2, <1>3 DEF TextCells
  <2> QED
    BY <2>1
<1>8. /\ m \in [Places -> Int]
      /\ \A i \in Places : i < at \/ i >= at + (n + 1) => m[i] = mem[i]
      /\ \A k \in 1 .. n + 1 : at + k - 1 \in Places => m[at + k - 1] = cells[k]
  <2>1. PICK l : l = n + 1
    OBVIOUS
  <2>2. Len(cells) = l
    BY <1>6, <2>1
  <2>3. /\ m \in [Places -> Int]
        /\ \A i \in Places : i < at \/ i >= at + Len(cells) => m[i] = mem[i]
        /\ \A k \in 1 .. Len(cells) : at + k - 1 \in Places => m[at + k - 1] = cells[k]
    <3>1. cells \in Seq(Int)
      BY <1>6
    <3>2. /\ Written(mem, at, cells) \in [Places -> Int]
          /\ \A i \in Places : i < at \/ i >= at + Len(cells) => Written(mem, at, cells)[i] = mem[i]
          /\ \A k \in 1 .. Len(cells) : at + k - 1 \in Places =>
               Written(mem, at, cells)[at + k - 1] = cells[k]
      BY <3>1, WrittenFacts
    <3> QED
      BY <1>7, <3>2, Zenon
  <2> QED
    BY <2>1, <2>2, <2>3, Zenon
<1>9. \A i \in Places : i < at \/ i > at + n => m[i] = mem[i]
  <2>1. \A i \in Int : i > at + n => i >= at + (n + 1)
    OBVIOUS
  <2>2. \A i \in Places : i \in Int
    BY <1>0 DEF Places
  <2> QED
    BY <1>8, <2>1, <2>2
<1>10. ASSUME NEW i \in 0 .. n PROVE m[at + i] = cells[i + 1]
  <2>1. i + 1 \in 1 .. n + 1 /\ at + (i + 1) - 1 = at + i /\ at + i \in Places
    BY <1>0 DEF Places
  <2> QED
    BY <1>8, <2>1
<1>11. m[at + n] = 0
  BY <1>6, <1>10
<1>12. ASSUME NEW i \in 0 .. n - 1 PROVE m[at + i] = s
  <2>1. i \in 0 .. n /\ i + 1 \in 1 .. n
    OBVIOUS
  <2> QED
    BY <1>6, <1>10, <2>1
<1> QED
  BY <1>8, <1>9, <1>11, <1>12

(* What the cells of an arena are when string s is written at a place.     *)
HoldsString(m, mem, at, s, n, ends) ==
  /\ m \in [Places -> Int]
  /\ \A i \in Places : i < at \/ i >= at + n + 2 => m[i] = mem[i]
  /\ m[at] = -s
  /\ \A i \in 1 .. n : m[at + i] = s
  /\ ends = 1 => m[at + n + 1] = 0

(* A new string at place at, terminated or not.                            *)
LEMMA StringWritten ==
  \A mem \in [Places -> Int], at \in Nat, s \in Strings, n \in Nat, ends \in {0, 1} :
    at + n + 2 <= Cap =>
      HoldsString(Written(mem, at, StringCells(s, n, ends)), mem, at, s, n, ends)
<1> SUFFICES ASSUME NEW mem \in [Places -> Int], NEW at \in Nat, NEW s \in Strings, NEW n \in Nat,
                    NEW ends \in {0, 1}, at + n + 2 <= Cap
             PROVE  HoldsString(Written(mem, at, StringCells(s, n, ends)), mem, at, s, n, ends)
  OBVIOUS
<1>19. PICK m : m = Written(mem, at, StringCells(s, n, ends))
  OBVIOUS
<1>0. Cap \in Nat /\ s \in Int /\ -s \in Int
  BY StringsAssumption DEF Strings
<1>1. PICK text : text = Text(s, n)
  OBVIOUS
<1>2. PICK head : head = <<-s>>
  OBVIOUS
<1>3. PICK start : start = head \o text
  OBVIOUS
<1>4. PICK end : end = IF ends = 1 THEN <<0>> ELSE <<>>
  OBVIOUS
<1>5. PICK cells : cells = start \o end
  OBVIOUS
<1>6. text \in Seq(Int) /\ Len(text) = n /\ \A i \in 1 .. n : text[i] = s
  BY <1>0, <1>1, TextFacts
<1>7. head \in Seq(Int) /\ Len(head) = 1 /\ head[1] = -s
  BY <1>0, <1>2, OneCell
<1>8. /\ start \in Seq(Int) /\ Len(start) = 1 + n /\ start[1] = -s
      /\ \A i \in 1 .. n : start[1 + i] = s
  <2>1. /\ start \in Seq(Int) /\ Len(start) = Len(head) + Len(text)
        /\ \A i \in 1 .. Len(head) : start[i] = head[i]
        /\ \A i \in 1 .. Len(text) : start[Len(head) + i] = text[i]
    BY <1>3, <1>6, <1>7, Joined
  <2>2. 1 \in 1 .. 1
    OBVIOUS
  <2> QED
    BY <1>6, <1>7, <2>1, <2>2, Zenon
<1>9. /\ end \in Seq(Int) /\ Len(end) \in {0, 1}
      /\ ends = 1 => Len(end) = 1 /\ end[1] = 0
  <2>1. <<0>> \in Seq(Int) /\ Len(<<0>>) = 1 /\ <<0>>[1] = 0
    BY OneCell
  <2>2. <<>> \in Seq(Int) /\ Len(<<>>) = 0
    OBVIOUS
  <2> QED
    BY <1>4, <2>1, <2>2, Zenon
<1>10. /\ cells \in Seq(Int) /\ Len(cells) = 1 + n + Len(end)
       /\ \A i \in 1 .. 1 + n : cells[i] = start[i]
       /\ \A i \in 1 .. Len(end) : cells[1 + n + i] = end[i]
  <2>1. PICK k : k = 1 + n
    OBVIOUS
  <2>2. Len(start) = k
    BY <1>8, <2>1
  <2>3. /\ cells \in Seq(Int) /\ Len(cells) = Len(start) + Len(end)
        /\ \A i \in 1 .. Len(start) : cells[i] = start[i]
        /\ \A i \in 1 .. Len(end) : cells[Len(start) + i] = end[i]
    BY <1>5, <1>8, <1>9, Joined
  <2> QED
    BY <2>1, <2>2, <2>3, Zenon
<1>11. PICK l \in {0, 1} : l = Len(end)
  BY <1>9
<1>12. /\ m \in [Places -> Int]
       /\ \A i \in Places : i < at \/ i >= at + (1 + n + l) => m[i] = mem[i]
       /\ \A k \in 1 .. 1 + n + l : at + k - 1 \in Places => m[at + k - 1] = cells[k]
  <2>1. PICK k : k = 1 + n + l
    OBVIOUS
  <2>2. Len(cells) = k
    BY <1>10, <1>11, <2>1
  <2>3. m = Written(mem, at, cells)
    BY <1>19, <1>1, <1>2, <1>3, <1>5, <1>4 DEF StringCells
  <2>4. /\ m \in [Places -> Int]
        /\ \A i \in Places : i < at \/ i >= at + Len(cells) => m[i] = mem[i]
        /\ \A j \in 1 .. Len(cells) : at + j - 1 \in Places => m[at + j - 1] = cells[j]
    <3>1. cells \in Seq(Int)
      BY <1>10
    <3>2. /\ Written(mem, at, cells) \in [Places -> Int]
          /\ \A i \in Places : i < at \/ i >= at + Len(cells) => Written(mem, at, cells)[i] = mem[i]
          /\ \A j \in 1 .. Len(cells) : at + j - 1 \in Places =>
               Written(mem, at, cells)[at + j - 1] = cells[j]
      BY <3>1, WrittenFacts
    <3> QED
      BY <2>3, <3>2, Zenon
  <2> QED
    BY <2>1, <2>2, <2>4, Zenon
<1>13. \A i \in Places : i < at \/ i >= at + n + 2 => m[i] = mem[i]
  <2>1. \A i \in Int : i >= at + n + 2 => i >= at + (1 + n + l)
    OBVIOUS
  <2>2. \A i \in Places : i \in Int
    BY <1>0 DEF Places
  <2> QED
    BY <1>12, <2>1, <2>2
<1>14. ASSUME NEW i \in 0 .. n PROVE m[at + i] = start[i + 1]
  <2>1. /\ i + 1 \in 1 .. 1 + n + l /\ i + 1 \in 1 .. 1 + n
        /\ at + (i + 1) - 1 = at + i /\ at + i \in Places
    BY <1>0 DEF Places
  <2> QED
    BY <1>10, <1>12, <2>1
<1>15. m[at] = -s
  <2>1. 0 \in 0 .. n /\ at + 0 = at /\ 0 + 1 = 1
    OBVIOUS
  <2> QED
    BY <1>8, <1>14, <2>1
<1>16. ASSUME NEW i \in 1 .. n PROVE m[at + i] = s
  <2>1. i \in 0 .. n /\ i + 1 = 1 + i
    OBVIOUS
  <2> QED
    BY <1>8, <1>14, <2>1
<1>17. ASSUME ends = 1 PROVE m[at + n + 1] = 0
  <2>1. l = 1 /\ 1 \in 1 .. Len(end) /\ end[1] = 0
    BY <1>9, <1>11, <1>17
  <2>2. /\ 1 + n + 1 \in 1 .. 1 + n + l /\ at + (1 + n + 1) - 1 = at + n + 1
        /\ at + n + 1 \in Places
    BY <1>0, <2>1 DEF Places
  <2>3. m[at + n + 1] = cells[1 + n + 1]
    BY <1>12, <2>2
  <2>4. cells[1 + n + 1] = end[1]
    BY <1>10, <2>1
  <2> QED
    BY <2>1, <2>3, <2>4
<1>18. HoldsString(m, mem, at, s, n, ends)
  BY <1>12, <1>13, <1>15, <1>16, <1>17, Zenon DEF HoldsString
<1> QED
  BY <1>19, <1>18, Zenon

-----------------------------------------------------------------------------
(* What a step has to do to keep the strings safe.                         *)

(* The cells of the string at r are the same in two memories.              *)
SameCells(m, n, r) == \A j \in Places : r.at <= j /\ j < r.at + r.Cap + 2 => m[j] = n[j]

(* A string reads the same in a memory that agrees on its cells.           *)
LEMMA ReadsKept ==
  ASSUME NEW r \in StringInArena, r.Len <= r.Cap, r.at + r.Cap + 2 <= Cap,
         NEW m, NEW n, NEW s, NEW R, NEW Q, Reads(n, r, s, s \notin R),
         s \notin Q => s \notin R, SameCells(m, n, r)
  PROVE  Reads(m, r, s, s \notin Q)
<1>1. PICK at \in Nat, len \in Nat, room \in Nat : at = r.at /\ len = r.Len /\ room = r.Cap
  BY DEF StringInArena
<1>2. len <= room /\ at + room + 2 <= Cap /\ Cap \in Nat
  BY <1>1, StringsAssumption
<1>3. ASSUME NEW i \in 0 .. len + 1 PROVE m[at + i] = n[at + i]
  <2>1. at + i \in Places /\ at <= at + i /\ at + i < at + room + 2
    BY <1>2 DEF Places
  <2> QED
    BY <1>1, <2>1 DEF SameCells
<1>4. m[at] = n[at]
  <2>1. 0 \in 0 .. len + 1 /\ at + 0 = at
    OBVIOUS
  <2> QED
    BY <1>3, <2>1
<1>5. \A i \in 1 .. len : m[at + i] = n[at + i]
  <2>1. \A i \in 1 .. len : i \in 0 .. len + 1
    OBVIOUS
  <2> QED
    BY <1>3, <2>1
<1>6. m[at + len + 1] = n[at + len + 1]
  <2>1. len + 1 \in 0 .. len + 1 /\ at + (len + 1) = at + len + 1
    OBVIOUS
  <2> QED
    BY <1>3, <2>1
<1> QED
  BY <1>1, <1>4, <1>5, <1>6, Zenon DEF Reads

(* String s is now r, in arena a with position c and memory m.             *)
Changed(s, a, r, c, m) ==
  /\ str' = [str EXCEPT ![s] = r]
  /\ Cur' = [Cur EXCEPT ![a] = c]
  /\ Mem' = [Mem EXCEPT ![a] = m]

LEMMA ChangedFacts ==
  ASSUME StringsTypeOK, NEW s \in Strings, NEW a \in Arenas, NEW r, NEW c, NEW m,
         Changed(s, a, r, c, m)
  PROVE  /\ str'[s] = r /\ \A t \in Strings : t # s => str'[t] = str[t]
         /\ Cur'[a] = c /\ \A x \in Arenas : x # a => Cur'[x] = Cur[x]
         /\ Mem'[a] = m /\ \A x \in Arenas : x # a => Mem'[x] = Mem[x]
         /\ \A t : t # s => (t \in InUse' <=> t \in InUse)
         /\ s \in InUse' <=> r.arena \in Arenas
<1>1. /\ str'[s] = r /\ \A t \in Strings : t # s => str'[t] = str[t]
      /\ Cur'[a] = c /\ \A x \in Arenas : x # a => Cur'[x] = Cur[x]
      /\ Mem'[a] = m /\ \A x \in Arenas : x # a => Mem'[x] = Mem[x]
  BY Zenon DEF Changed, StringsTypeOK
<1> QED
  BY <1>1, Zenon DEF InUse

LEMMA TypesKept ==
  ASSUME StringsTypeOK, NEW s \in Strings, NEW a \in Arenas, NEW r \in StringInArena,
         NEW c \in 0 .. Cap, NEW m \in [Places -> Int], Changed(s, a, r, c, m),
         r.arena \in Arenas => r.Len <= r.Cap,
         UNCHANGED <<lib, Registered, scratch>>, misused' \in BOOLEAN, raw' \subseteq InUse'
  PROVE  StringsTypeOK'
<1>1. /\ str' \in [Strings -> StringInArena] /\ Cur' \in [Arenas -> 0 .. Cap]
      /\ Mem' \in [Arenas -> [Places -> Int]]
  BY DEF StringsTypeOK, Changed
<1>2. \A t \in InUse' : str'[t].Len <= str'[t].Cap
  <2>1. ASSUME NEW t \in InUse', t # s PROVE str'[t].Len <= str'[t].Cap
    <3>1. t \in InUse /\ t \in Strings
      BY <2>1, ChangedFacts DEF InUse
    <3>2. str'[t] = str[t]
      BY <2>1, <3>1, ChangedFacts
    <3> QED
      BY <3>1, <3>2 DEF StringsTypeOK
  <2>2. s \in InUse' => str'[s].Len <= str'[s].Cap
    BY ChangedFacts
  <2> QED
    BY <2>1, <2>2
<1>3. lib' \in {"lm", "sdb"} /\ Registered' \in Seq(Arenas) /\ Len(Registered') <= MaxCount
  BY DEF StringsTypeOK
<1>4. scratch' \in Seq(Scratch)
  BY DEF StringsTypeOK
<1> QED
  BY <1>1, <1>2, <1>3, <1>4 DEF StringsTypeOK

(* A string is made or written to: it is in the used part, apart from all  *)
(* others, on the right side of every scratch, and its own cells are all   *)
(* that was written.                                                       *)
LEMMA Rewritten ==
  ASSUME StringsTypeOK, Safe, NEW s \in Strings, NEW a \in Arenas,
         NEW r \in StringInArena, r.arena = a, r.Len <= r.Cap,
         NEW c \in 0 .. Cap, NEW m \in [Places -> Int], Changed(s, a, r, c, m), scratch' = scratch,
         Cur[a] <= c, r.at + r.Cap + 2 <= c, r.depth <= Depth,
         \A t \in InUse : t # s /\ str[t].arena = a =>
           EndOf(t) <= r.at \/ r.at + r.Cap + 2 <= str[t].at,
         \A d \in 1 .. Depth : scratch[d].arena = a =>
           IF d <= r.depth THEN scratch[d].f5 <= r.at ELSE r.at + r.Cap + 2 <= scratch[d].f5,
         \A j \in Places : j < r.at \/ j >= r.at + r.Cap + 2 => m[j] = Mem[a][j],
         \A t \in InUse : t # s /\ t \notin raw' => t \notin raw,
         Reads(m, r, s, s \notin raw')
  PROVE  Safe'
<1>1. /\ str'[s] = r /\ Cur'[a] = c /\ Mem'[a] = m
      /\ \A x \in Arenas : x # a => Cur'[x] = Cur[x] /\ Mem'[x] = Mem[x]
  BY ChangedFacts
<1>2. ASSUME NEW t \in InUse', t # s
      PROVE  t \in InUse /\ t \in Strings /\ str'[t] = str[t] /\ EndOf(t)' = EndOf(t)
  <2>1. t \in InUse /\ t \in Strings
    BY <1>2, ChangedFacts DEF InUse
  <2>2. str'[t] = str[t]
    BY <1>2, <2>1, ChangedFacts
  <2> QED
    BY <2>1, <2>2 DEF EndOf
<1>3. EndOf(s)' = r.at + r.Cap + 2
  BY <1>1 DEF EndOf
<1>4. \A x \in Arenas : Cur[x] <= Cur'[x] /\ Cur[x] \in Nat /\ Cur'[x] \in Nat /\ Cur'[x] <= Cap
  <2>1. \A x \in Arenas : Cur[x] \in Nat /\ Cur[x] <= Cap
    BY ArenaFacts
  <2>2. c \in Nat /\ c <= Cap
    BY StringsAssumption
  <2>3. \A x \in Arenas : x # a => Cur'[x] = Cur[x] /\ Cur[x] <= Cur[x]
    BY <1>1, <2>1
  <2> QED
    BY <1>1, <2>1, <2>2, <2>3
<1>5. Depth' = Depth
  BY DEF Depth
<1>6. StringsApart'
  <2>1. ASSUME NEW t \in InUse' PROVE EndOf(t)' <= Cur'[str'[t].arena]
    <3>1. CASE t = s
      BY <1>1, <1>3, <3>1
    <3>2. CASE t # s
      <4>1. t \in InUse /\ str'[t] = str[t] /\ EndOf(t)' = EndOf(t)
        BY <1>2, <3>2
      <4>2. EndOf(t) <= Cur[str[t].arena] /\ EndOf(t) \in Nat /\ str[t].arena \in Arenas
        BY <4>1, StringFacts DEF Safe, StringsApart
      <4>3. PICK x \in Arenas : x = str[t].arena
        BY <4>2
      <4>4. EndOf(t) <= Cur[x] /\ Cur[x] <= Cur'[x] /\ Cur[x] \in Nat /\ Cur'[x] \in Nat
        BY <1>4, <4>2, <4>3
      <4> QED
        BY <4>1, <4>2, <4>3, <4>4
    <3> QED
      BY <3>1, <3>2
  <2>2. ASSUME NEW t \in InUse', NEW u \in InUse', t # u, str'[t].arena = str'[u].arena
        PROVE  EndOf(t)' <= str'[u].at \/ EndOf(u)' <= str'[t].at
    <3>1. CASE t = s
      BY <1>1, <1>2, <1>3, <2>2, <3>1
    <3>2. CASE u = s
      BY <1>1, <1>2, <1>3, <2>2, <3>2
    <3>3. CASE t # s /\ u # s
      BY <1>2, <2>2, <3>3 DEF Safe, StringsApart
    <3> QED
      BY <3>1, <3>2, <3>3
  <2> QED
    BY <2>1, <2>2 DEF StringsApart
<1>7. ScratchesNest'
  <2>1. ASSUME NEW d \in 1 .. Depth
        PROVE  scratch[d].f5 <= Cur'[scratch[d].arena]
    <3>1. PICK x \in Arenas : x = scratch[d].arena
      BY ScratchFacts
    <3>2. scratch[d].f5 <= Cur[x] /\ scratch[d].f5 \in Nat
      BY <3>1, ScratchFacts DEF Safe, ScratchesNest
    <3>3. Cur[x] <= Cur'[x] /\ Cur[x] \in Nat /\ Cur'[x] \in Nat
      BY <1>4
    <3> QED
      BY <3>1, <3>2, <3>3
  <2>2. ASSUME NEW t \in InUse'
        PROVE  /\ str'[t].depth <= Depth
               /\ \A d \in 1 .. Depth : scratch[d].arena = str'[t].arena =>
                    IF d <= str'[t].depth THEN scratch[d].f5 <= str'[t].at
                                          ELSE EndOf(t)' <= scratch[d].f5
    <3>1. CASE t = s
      BY <1>1, <1>3, <3>1
    <3>2. CASE t # s
      BY <1>2, <3>2 DEF Safe, ScratchesNest
    <3> QED
      BY <3>1, <3>2
  <2> QED
    BY <1>5, <2>1, <2>2 DEF Safe, ScratchesNest
<1>8. TextIntact'
  <2>1. ASSUME NEW t \in InUse', t # s, str[t].arena = a
        PROVE  Reads(m, str[t], t, t \notin raw')
    <3>1. t \in InUse /\ t \in Strings
      BY <1>2, <2>1
    <3>2. PICK q : q = str[t]
      OBVIOUS
    <3>3. /\ q \in StringInArena /\ q.Len <= q.Cap /\ q.at \in Nat /\ q.Cap \in Nat
          /\ EndOf(t) = q.at + q.Cap + 2
      BY <3>1, <3>2, StringFacts
    <3>4. q.at + q.Cap + 2 <= Cap
      <4>1. EndOf(t) <= Cur[a] /\ Cur[a] \in Nat /\ Cur[a] <= Cap /\ Cap \in Nat
        BY <2>1, <3>1, ArenaFacts DEF Safe, StringsApart
      <4> QED
        BY <3>3, <4>1
    <3>5. q.at + q.Cap + 2 <= r.at \/ r.at + r.Cap + 2 <= q.at
      BY <2>1, <3>1, <3>2, <3>3
    <3>6. ASSUME NEW j \in Places, q.at <= j, j < q.at + q.Cap + 2
          PROVE  m[j] = Mem[a][j]
      <4>1. j \in Int /\ r.at \in Nat /\ r.Cap \in Nat
        BY StringsAssumption DEF Places, StringInArena
      <4>2. j < r.at \/ j >= r.at + r.Cap + 2
        BY <3>3, <3>5, <3>6, <4>1
      <4> QED
        BY <4>2
    <3>7. Reads(Mem[a], q, t, t \notin raw) /\ (t \notin raw' => t \notin raw)
      BY <2>1, <3>1, <3>2 DEF Safe, TextIntact
    <3>8. SameCells(m, Mem[a], q)
      BY <3>6 DEF SameCells
    <3>9. Reads(m, q, t, t \notin raw')
      BY <3>3, <3>4, <3>7, <3>8, ReadsKept, Zenon
    <3> QED
      BY <3>2, <3>9, Zenon
  <2>2. ASSUME NEW t \in InUse', t # s, str[t].arena # a
        PROVE  Reads(Mem[str[t].arena], str[t], t, t \notin raw')
    <3>1. t \in InUse /\ (t \notin raw' => t \notin raw)
      BY <1>2, <2>2
    <3>2. Reads(Mem[str[t].arena], str[t], t, t \notin raw)
      BY <3>1 DEF Safe, TextIntact
    <3> QED
      BY <3>1, <3>2, Zenon DEF Reads
  <2>3. ASSUME NEW t \in InUse' PROVE Reads(Mem'[str'[t].arena], str'[t], t, t \notin raw')
    <3>1. CASE t = s
      BY <1>1, <3>1
    <3>2. CASE t # s /\ str[t].arena = a
      BY <1>1, <1>2, <2>1, <3>2
    <3>3. CASE t # s /\ str[t].arena # a
      <4>1. str[t].arena \in Arenas /\ str'[t] = str[t]
        BY <1>2, <3>3 DEF InUse
      <4> QED
        BY <1>1, <2>2, <3>3, <4>1
    <3> QED
      BY <3>1, <3>2, <3>3
  <2> QED
    BY <2>3 DEF TextIntact
<1> QED
  BY <1>6, <1>7, <1>8 DEF Safe

(* Strings and scratch arenas are given back: those that stay are in the   *)
(* used parts, and their cells stay as they are.                           *)
LEMMA Dropped ==
  ASSUME StringsTypeOK, Safe, Depth' \in Nat, Depth' <= Depth,
         \A d \in 1 .. Depth' : /\ scratch'[d] = scratch[d]
                                /\ scratch[d].f5 <= Cur'[scratch[d].arena],
         \A t \in InUse' : /\ t \in InUse /\ str'[t] = str[t] /\ str[t].depth <= Depth'
                           /\ EndOf(t) <= Cur'[str[t].arena]
                           /\ t \notin raw' => t \notin raw,
         \A t \in InUse' : \A j \in Places : str[t].at <= j /\ j < EndOf(t) =>
           Mem'[str[t].arena][j] = Mem[str[t].arena][j]
  PROVE  Safe'
<1>1. \A t \in InUse' : EndOf(t)' = EndOf(t)
  BY DEF EndOf
<1>2. \A d \in 1 .. Depth' : d \in 1 .. Depth
  BY ScratchFacts
<1>3. StringsApart'
  BY <1>1 DEF Safe, StringsApart
<1>4. ScratchesNest'
  <2>1. \A d, e \in 1 .. Depth' : d < e /\ scratch'[d].arena = scratch'[e].arena =>
          scratch'[d].f5 <= scratch'[e].f5
    BY <1>2 DEF Safe, ScratchesNest
  <2>2. \A t \in InUse', d \in 1 .. Depth' : scratch'[d].arena = str'[t].arena =>
          IF d <= str'[t].depth THEN scratch'[d].f5 <= str'[t].at ELSE EndOf(t)' <= scratch'[d].f5
    BY <1>1, <1>2 DEF Safe, ScratchesNest
  <2> QED
    BY <2>1, <2>2 DEF ScratchesNest
<1>5. TextIntact'
  <2>1. ASSUME NEW t \in InUse' PROVE Reads(Mem'[str'[t].arena], str'[t], t, t \notin raw')
    <3>1. t \in InUse /\ str'[t] = str[t] /\ (t \notin raw' => t \notin raw)
      OBVIOUS
    <3>2. PICK q : q = str[t]
      OBVIOUS
    <3>3. /\ q \in StringInArena /\ q.Len <= q.Cap /\ q.at \in Nat /\ q.Cap \in Nat
          /\ EndOf(t) = q.at + q.Cap + 2 /\ q.arena \in Arenas
      BY <3>1, <3>2, StringFacts
    <3>4. q.at + q.Cap + 2 <= Cap
      <4>1. /\ EndOf(t) <= Cur[q.arena] /\ Cur[q.arena] \in Nat /\ Cur[q.arena] <= Cap
            /\ Cap \in Nat
        BY <3>1, <3>2, <3>3, ArenaFacts DEF Safe, StringsApart
      <4> QED
        BY <3>3, <4>1
    <3>5. SameCells(Mem'[q.arena], Mem[q.arena], q)
      BY <3>2, <3>3 DEF SameCells
    <3>6. Reads(Mem[q.arena], q, t, t \notin raw)
      BY <3>1, <3>2 DEF Safe, TextIntact
    <3>7. Reads(Mem'[q.arena], q, t, t \notin raw')
      <4>1. PICK m, n : m = Mem'[q.arena] /\ n = Mem[q.arena]
        OBVIOUS
      <4>2. Reads(n, q, t, t \notin raw) /\ SameCells(m, n, q)
        BY <3>5, <3>6, <4>1, Zenon
      <4>3. Reads(m, q, t, t \notin raw')
        BY <3>1, <3>3, <3>4, <4>2, ReadsKept, Zenon
      <4> QED
        BY <4>1, <4>3, Zenon
    <3> QED
      BY <3>1, <3>2, <3>7
  <2> QED
    BY <2>1 DEF TextIntact
<1> QED
  BY <1>3, <1>4, <1>5 DEF Safe

-----------------------------------------------------------------------------
(* Scratch arenas.                                                         *)

(* A finite set of numbers that is not empty has a largest and a smallest  *)
(* element: otherwise the elements beyond one of a least upper part are a  *)
(* smaller one.                                                            *)
LEMMA MaxFacts ==
  ASSUME NEW S, IsFiniteSet(S), S \subseteq Int, S # {}
  PROVE  Max(S) \in S /\ \A y \in S : Max(S) >= y
<1> DEFINE From(x) == {y \in S : y >= x}
           Parts == {From(x) : x \in S}
<1>1. PICK P \in Parts : \A Q \in Parts : ~ (<<Q, P>> \in StrictSubsetOrdering(S))
  <2>1. IsWellFoundedOn(StrictSubsetOrdering(S), FiniteSubsetsOf(S))
    BY FS_StrictSubsetOrderingWellFounded
  <2>2. Parts \subseteq FiniteSubsetsOf(S)
    BY FS_FiniteSubsetsOfFinite
  <2>3. Parts # {}
    OBVIOUS
  <2> HIDE DEF Parts
  <2> QED
    BY <2>1, <2>2, <2>3, WFMin
<1>2. PICK x \in S : P = From(x)
  BY <1>1
<1>3. ASSUME NEW y \in S
      PROVE  x >= y
  <2>0. x \in Int /\ y \in Int
    BY <1>2, <1>3
  <2>1. ASSUME y > x
        PROVE  FALSE
    <3>0. x >= x /\ ~(x >= y) /\ \A z \in Int : z >= y => z >= x
      <4> HIDE DEF Parts
      <4> QED
        BY <2>1, <2>0
    <3>1. From(y) \subseteq P /\ x \in P /\ x \notin From(y) /\ P \subseteq S
      BY <1>2, <3>0, Zenon
    <3>2. <<From(y), P>> \in StrictSubsetOrdering(S)
      BY <3>1 DEF StrictSubsetOrdering
    <3>3. From(y) \in Parts
      OBVIOUS
    <3> HIDE DEF From, Parts
    <3> QED
      BY <1>1, <3>2, <3>3
  <2> HIDE DEF From, Parts
  <2> QED
    BY <2>0, <2>1
<1>4. \E z \in S : \A y \in S : z >= y
  BY <1>3
<1> QED
  BY <1>4 DEF Max

(* The same for the smallest element.                                      *)
LEMMA MinFacts ==
  ASSUME NEW S, IsFiniteSet(S), S \subseteq Int, S # {}
  PROVE  Min(S) \in S /\ \A y \in S : Min(S) <= y
<1> DEFINE To(x) == {y \in S : y <= x}
           Parts == {To(x) : x \in S}
<1>1. PICK P \in Parts : \A Q \in Parts : ~ (<<Q, P>> \in StrictSubsetOrdering(S))
  <2>1. IsWellFoundedOn(StrictSubsetOrdering(S), FiniteSubsetsOf(S))
    BY FS_StrictSubsetOrderingWellFounded
  <2>2. Parts \subseteq FiniteSubsetsOf(S)
    BY FS_FiniteSubsetsOfFinite
  <2>3. Parts # {}
    OBVIOUS
  <2> HIDE DEF Parts
  <2> QED
    BY <2>1, <2>2, <2>3, WFMin
<1>2. PICK x \in S : P = To(x)
  BY <1>1
<1>3. ASSUME NEW y \in S
      PROVE  x <= y
  <2>0. x \in Int /\ y \in Int
    BY <1>2, <1>3
  <2>1. ASSUME y < x
        PROVE  FALSE
    <3>0. x <= x /\ ~(x <= y) /\ \A z \in Int : z <= y => z <= x
      <4> HIDE DEF Parts
      <4> QED
        BY <2>1, <2>0
    <3>1. To(y) \subseteq P /\ x \in P /\ x \notin To(y) /\ P \subseteq S
      BY <1>2, <3>0, Zenon
    <3>2. <<To(y), P>> \in StrictSubsetOrdering(S)
      BY <3>1 DEF StrictSubsetOrdering
    <3>3. To(y) \in Parts
      OBVIOUS
    <3> HIDE DEF To, Parts
    <3> QED
      BY <1>1, <3>2, <3>3
  <2> HIDE DEF To, Parts
  <2> QED
    BY <2>0, <2>1
<1>4. \E z \in S : \A y \in S : z <= y
  BY <1>3
<1> QED
  BY <1>4 DEF Min

(* The scratch a new string belongs to is the innermost of its arena.      *)
LEMMA BelongsToFacts ==
  ASSUME StringsTypeOK, NEW a \in Arenas
  PROVE  /\ BelongsTo(a) \in Nat /\ BelongsTo(a) <= Depth
         /\ \A d \in 1 .. Depth : scratch[d].arena = a => d <= BelongsTo(a)
<1>1. Depth \in Nat
  BY ScratchFacts
<1>2. CASE Depth > 0 /\ a = Top.arena
  <2>1. BelongsTo(a) = Depth
    BY <1>2 DEF BelongsTo
  <2> QED
    BY <1>1, <2>1
<1>3. CASE ~(Depth > 0 /\ a = Top.arena)
  <2>1. PICK S : S = {0} \cup {d \in 1 .. Depth - 1 : scratch[d].arena = a}
    OBVIOUS
  <2>2. S \subseteq 0 .. Depth
    BY <1>1, <2>1
  <2>3. IsFiniteSet(S) /\ S \subseteq Int /\ S # {}
    <3>1. PICK I : I = 0 .. Depth
      OBVIOUS
    <3>2. 0 \in Int /\ Depth \in Int
      BY <1>1
    <3>3. IsFiniteSet(I)
      BY <3>1, <3>2, FS_Interval
    <3>4. IsFiniteSet(S)
      BY <2>2, <3>1, <3>3, FS_Subset
    <3>5. S \subseteq Int
      BY <1>1, <2>2
    <3>6. 0 \in S
      BY <2>1
    <3> QED
      BY <3>4, <3>5, <3>6
  <2>4. Max(S) \in S /\ \A y \in S : Max(S) >= y
    BY <2>3, MaxFacts
  <2>5. BelongsTo(a) = Max(S)
    BY <1>3, <2>1, Zenon DEF BelongsTo
  <2>6. BelongsTo(a) \in 0 .. Depth /\ \A y \in S : BelongsTo(a) >= y
    BY <2>2, <2>4, <2>5
  <2>7. ASSUME NEW d \in 1 .. Depth, scratch[d].arena = a
        PROVE  d <= BelongsTo(a)
    <3>1. d # Depth
      BY <1>1, <1>3, <2>7 DEF Top
    <3>2. d \in S
      BY <1>1, <2>1, <2>7, <3>1
    <3> QED
      BY <1>1, <2>6, <3>2
  <2> QED
    BY <1>1, <2>6, <2>7
<1> QED
  BY <1>2, <1>3

(* Two arenas are conflicts as a pair of different ones.                   *)
LEMMA ConflictFacts ==
  ASSUME StringsTypeOK, NEW conflicts \in Conflicts
  PROVE  \/ conflicts = <<>> /\ Len(conflicts) = 0
         \/ \E x \in Arenas : conflicts = <<x>> /\ Len(conflicts) = 1
         \/ \E x, y \in Arenas : conflicts = <<x, y>> /\ Len(conflicts) = 2 /\ x # y
<1>1. CASE conflicts = <<>>
  BY <1>1
<1>2. CASE conflicts \in {<<a>> : a \in Arenas}
  BY <1>2
<1>3. CASE conflicts \in {c \in Arenas \X Arenas : c[1] < c[2]}
  <2>1. PICK x \in Arenas, y \in Arenas : conflicts = <<x, y>> /\ conflicts[1] < conflicts[2]
    BY <1>3
  <2>2. x < y /\ x \in Nat
    BY <2>1, StringsAssumption
  <2>3. x # y
    BY <2>2
  <2> QED
    BY <2>1, <2>3
<1> QED
  BY <1>1, <1>2, <1>3 DEF Conflicts

(* The scratch arena found is none of a single conflict, and the first one *)
(* for two.                                                                *)
LEMMA ChoiceFacts ==
  ASSUME StringsTypeOK, NEW conflicts \in Conflicts, ScratchChoice(conflicts) # 0
  PROVE  /\ ScratchChoice(conflicts) \in Arenas
         /\ Len(Registered) > 0
         /\ Len(conflicts) = 1 => ScratchChoice(conflicts) # conflicts[1]
         /\ Len(conflicts) = 2 => ScratchChoice(conflicts) = Registered[1]
<1>1. PICK fit : fit = {i \in DOMAIN Registered :
         conflicts = <<>> \/ \E j \in DOMAIN conflicts : Registered[i] # conflicts[j]}
  OBVIOUS
<1>2. ScratchChoice(conflicts) = IF fit = {} THEN 0 ELSE Registered[Min(fit)]
  BY <1>1, Zenon DEF ScratchChoice
<1>3. fit # {} /\ ScratchChoice(conflicts) = Registered[Min(fit)]
  BY <1>2
<1>4. DOMAIN Registered = 1 .. Len(Registered) /\ Len(Registered) \in Nat
      /\ \A i \in 1 .. Len(Registered) : Registered[i] \in Arenas
  BY DEF StringsTypeOK
<1>5. fit \subseteq 1 .. Len(Registered)
  BY <1>1, <1>4
<1>6. IsFiniteSet(fit) /\ fit \subseteq Int
  <2>1. PICK I : I = 1 .. Len(Registered)
    OBVIOUS
  <2>2. 1 \in Int /\ Len(Registered) \in Int
    BY <1>4
  <2>3. IsFiniteSet(I)
    BY <2>1, <2>2, FS_Interval
  <2>4. IsFiniteSet(fit)
    BY <1>5, <2>1, <2>3, FS_Subset
  <2>5. fit \subseteq Int
    BY <1>4, <1>5
  <2> QED
    BY <2>4, <2>5
<1>7. Min(fit) \in fit
  BY <1>3, <1>6, MinFacts
<1>8. ASSUME Len(conflicts) = 1 PROVE Registered[Min(fit)] # conflicts[1]
  <2>1. PICK i \in fit : i = Min(fit)
    BY <1>7
  <2>2. conflicts = <<>> \/ \E j \in DOMAIN conflicts : Registered[i] # conflicts[j]
    BY <1>1, <2>1
  <2>3. conflicts # <<>>
    BY <1>8
  <2>4. PICK j \in DOMAIN conflicts : Registered[i] # conflicts[j]
    BY <2>2, <2>3
  <2>5. DOMAIN conflicts = 1 .. 1
    BY <1>8, ConflictFacts
  <2> QED
    BY <2>1, <2>4, <2>5
<1>9. Min(fit) \in 1 .. Len(Registered) /\ Len(Registered) > 0
  <2>1. PICK m, n : m = Min(fit) /\ n = Len(Registered)
    OBVIOUS
  <2>2. m \in 1 .. n /\ n \in Nat
    BY <1>4, <1>5, <1>7, <2>1
  <2> QED
    BY <2>1, <2>2
<1>10. ASSUME Len(conflicts) = 2 PROVE Min(fit) = 1
  <2>1. PICK x \in Arenas, y \in Arenas : conflicts = <<x, y>> /\ x # y
    BY <1>10, ConflictFacts
  <2>2. conflicts[1] = x /\ conflicts[2] = y /\ {1, 2} \subseteq DOMAIN conflicts
    BY <2>1
  <2>3. \E j \in DOMAIN conflicts : Registered[1] # conflicts[j]
    BY <2>1, <2>2
  <2>4. 1 \in fit
    BY <1>1, <1>4, <1>9, <2>3
  <2>5. Min(fit) <= 1
    BY <1>3, <1>6, <2>4, MinFacts
  <2> QED
    BY <1>4, <1>9, <2>5
<1> QED
  BY <1>3, <1>4, <1>5, <1>7, <1>8, <1>9, <1>10

(* Where the strings are depends on these variables alone.                 *)
LEMMA SameStrings ==
  ASSUME str' = str, Cur' = Cur, InUse' = InUse
  PROVE  StringsApart' = StringsApart
<1>1. \A s : EndOf(s)' = EndOf(s)
  BY DEF EndOf
<1>2. (\A s \in InUse : EndOf(s) <= Cur[str[s].arena])'
        = (\A s \in InUse : EndOf(s) <= Cur[str[s].arena])
  BY <1>1
<1>3. (\A s, t \in InUse : s # t /\ str[s].arena = str[t].arena =>
         EndOf(s) <= str[t].at \/ EndOf(t) <= str[s].at)'
        = (\A s, t \in InUse : s # t /\ str[s].arena = str[t].arena =>
             EndOf(s) <= str[t].at \/ EndOf(t) <= str[s].at)
  BY <1>1
<1> QED
  BY <1>2, <1>3, Zenon DEF StringsApart

LEMMA SameScratches ==
  ASSUME str' = str, Cur' = Cur, scratch' = scratch, InUse' = InUse, Depth' = Depth
  PROVE  ScratchesNest' = ScratchesNest
<1>1. (\A d \in 1 .. Depth : scratch[d].f5 <= Cur[scratch[d].arena])'
        = (\A d \in 1 .. Depth : scratch[d].f5 <= Cur[scratch[d].arena])
  OBVIOUS
<1>2. (\A d, e \in 1 .. Depth : d < e /\ scratch[d].arena = scratch[e].arena =>
         scratch[d].f5 <= scratch[e].f5)'
        = (\A d, e \in 1 .. Depth : d < e /\ scratch[d].arena = scratch[e].arena =>
             scratch[d].f5 <= scratch[e].f5)
  OBVIOUS
<1>3. (\A s \in InUse : str[s].depth <= Depth)' = (\A s \in InUse : str[s].depth <= Depth)
  OBVIOUS
<1>4. \A s : EndOf(s)' = EndOf(s)
  BY DEF EndOf
<1>5. (\A s \in InUse, d \in 1 .. Depth : scratch[d].arena = str[s].arena =>
         IF d <= str[s].depth THEN scratch[d].f5 <= str[s].at ELSE EndOf(s) <= scratch[d].f5)'
        = (\A s \in InUse, d \in 1 .. Depth : scratch[d].arena = str[s].arena =>
             IF d <= str[s].depth THEN scratch[d].f5 <= str[s].at ELSE EndOf(s) <= scratch[d].f5)
  BY <1>4
<1> QED
  BY <1>1, <1>2, <1>3, <1>5, Zenon DEF ScratchesNest

LEMMA SameText ==
  ASSUME str' = str, Mem' = Mem, raw' = raw, InUse' = InUse
  PROVE  TextIntact' = TextIntact
BY Zenon DEF TextIntact

LEMMA AddStep ==
  ASSUME StringsIInv, NEW a \in Arenas, ThreadArenasAdd(a)
  PROVE  StringsIInv'
<1> USE DEF StringsIInv, ThreadArenasAdd
<1>1. Registered' \in Seq(Arenas) /\ Len(Registered') <= MaxCount
  <2>1. Registered \in Seq(Arenas)
    BY DEF StringsInv, StringsTypeOK
  <2>2. Append(Registered, a) \in Seq(Arenas) /\ Len(Append(Registered, a)) = Len(Registered) + 1
    BY <2>1
  <2> QED
    BY <2>2
<1>2. StringsTypeOK'
  BY <1>1 DEF StringsInv, StringsTypeOK, InUse
<1>3. StringsApart' = StringsApart /\ ScratchesNest' = ScratchesNest /\ TextIntact' = TextIntact
  <2>1. /\ str' = str /\ Cur' = Cur /\ Mem' = Mem /\ scratch' = scratch /\ raw' = raw
        /\ misused' = misused
    OBVIOUS
  <2>2. InUse' = InUse /\ Depth' = Depth /\ \A s : EndOf(s)' = EndOf(s)
    BY <2>1 DEF InUse, Depth, EndOf
  <2>3. StringsApart' = StringsApart
    BY <2>1, <2>2, SameStrings, Zenon
  <2>4. ScratchesNest' = ScratchesNest
    BY <2>1, <2>2, SameScratches, Zenon
  <2>5. TextIntact' = TextIntact
    BY <2>1, <2>2, SameText, Zenon
  <2> QED
    BY <2>3, <2>4, <2>5
<1>4. ScratchesChosen'
  <2>1. Registered \in Seq(Arenas) /\ UNCHANGED scratch /\ Depth' = Depth
    BY DEF StringsInv, StringsTypeOK, Depth
  <2>2. Len(Registered) > 0 => Len(Registered') > 0 /\ Registered'[1] = Registered[1]
    BY <2>1
  <2> QED
    BY <2>1, <2>2 DEF ScratchesChosen
<1> QED
  BY <1>2, <1>3, <1>4 DEF StringsInv

LEMMA GetStep ==
  ASSUME StringsIInv, NEW conflicts \in Conflicts, ScratchGet(conflicts)
  PROVE  StringsIInv'
<1> USE DEF StringsIInv, StringsInv
<1>1. PICK a : a = ScratchChoice(conflicts)
  OBVIOUS
<1>2. /\ a \in Arenas /\ Len(Registered) > 0 /\ (Len(conflicts) = 1 => a # conflicts[1])
      /\ Len(conflicts) = 2 => a = Registered[1]
  BY <1>1, ChoiceFacts DEF ScratchGet
<1>3. PICK x : x = [arena |-> a, f5 |-> Cur[a], conflicts |-> conflicts]
  OBVIOUS
<1>4. x.arena = a /\ x.f5 = Cur[a] /\ x.conflicts = conflicts
  BY <1>3
<1>5. Cur[a] \in 0 .. Cap
  BY <1>2 DEF StringsTypeOK
<1>6. x \in Scratch
  BY <1>2, <1>3, <1>5 DEF Scratch
<1>7. scratch' = Append(scratch, x) /\ UNCHANGED <<lib, Cur, Mem, Registered, str, raw, misused>>
  BY <1>1, <1>3 DEF ScratchGet
<1>8. scratch \in Seq(Scratch) /\ Depth \in Nat /\ Depth = Len(scratch)
  BY ScratchFacts DEF StringsTypeOK
<1>9. /\ scratch' \in Seq(Scratch) /\ Depth' = Depth + 1
      /\ \A d \in 1 .. Depth : scratch'[d] = scratch[d]
      /\ scratch'[Depth + 1] = x
  BY <1>6, <1>7, <1>8 DEF Depth
<1>10. StringsTypeOK'
  <2>1. misused' \in BOOLEAN
    BY <1>7 DEF StringsTypeOK
  <2> QED
    BY <1>7, <1>9, <2>1 DEF StringsTypeOK, InUse
<1>11. ASSUME NEW d \in 1 .. Depth' PROVE d \in 1 .. Depth \/ d = Depth + 1
  BY <1>8, <1>9
<1>12. ScratchesChosen'
  <2>1. Registered' = Registered
    BY <1>7
  <2>2. ASSUME NEW d \in 1 .. Depth'
        PROVE  /\ Len(Registered) > 0
               /\ Len(scratch'[d].conflicts) = 1 => scratch'[d].arena # scratch'[d].conflicts[1]
               /\ Len(scratch'[d].conflicts) = 2 => scratch'[d].arena = Registered[1]
    <3>1. CASE d \in 1 .. Depth
      BY <1>9, <3>1 DEF ScratchesChosen
    <3>2. CASE d = Depth + 1
      BY <1>2, <1>4, <1>9, <3>2
    <3> QED
      BY <1>11, <3>1, <3>2
  <2> QED
    BY <2>1, <2>2 DEF ScratchesChosen
<1>13. ASSUME ~misused'
       PROVE  StringsApart' /\ ScratchesNest' /\ TextIntact'
  <2>1. StringsApart /\ ScratchesNest /\ TextIntact
    BY <1>7, <1>13
  <2>2. StringsApart' /\ TextIntact'
    BY <1>7, <2>1 DEF StringsApart, TextIntact, InUse, EndOf
  <2>3. InUse' = InUse /\ \A t \in InUse : EndOf(t)' = EndOf(t)
    BY <1>7 DEF InUse, EndOf
  <2>4. ASSUME NEW d \in 1 .. Depth' PROVE scratch'[d].f5 <= Cur[scratch'[d].arena]
    <3>1. CASE d \in 1 .. Depth
      BY <1>9, <2>1, <3>1 DEF ScratchesNest
    <3>2. CASE d = Depth + 1
      <4>1. Cur[a] <= Cur[a]
        BY <1>5, StringsAssumption
      <4> QED
        BY <1>4, <1>9, <3>2, <4>1
    <3> QED
      BY <1>11, <3>1, <3>2
  <2>5. ASSUME NEW d \in 1 .. Depth', NEW e \in 1 .. Depth', d < e,
               scratch'[d].arena = scratch'[e].arena
        PROVE  scratch'[d].f5 <= scratch'[e].f5
    <3>1. d \in 1 .. Depth
      BY <1>8, <1>9, <2>5
    <3>2. CASE e \in 1 .. Depth
      BY <1>9, <2>1, <2>5, <3>1, <3>2 DEF ScratchesNest
    <3>3. CASE e = Depth + 1
      BY <1>4, <1>9, <2>1, <2>5, <3>1, <3>3 DEF ScratchesNest
    <3> QED
      BY <1>11, <3>2, <3>3
  <2>6. ASSUME NEW t \in InUse PROVE str[t].depth <= Depth + 1 /\ str[t].depth < Depth + 1
    BY <1>8, <2>1, StringFacts DEF ScratchesNest
  <2>7. ASSUME NEW t \in InUse, NEW d \in 1 .. Depth', scratch'[d].arena = str[t].arena
        PROVE  IF d <= str[t].depth THEN scratch'[d].f5 <= str[t].at
                                    ELSE EndOf(t) <= scratch'[d].f5
    <3>1. CASE d \in 1 .. Depth
      BY <1>9, <2>1, <2>7, <3>1 DEF ScratchesNest
    <3>2. CASE d = Depth + 1
      <4>1. ~(d <= str[t].depth)
        BY <1>8, <2>6, <3>2, StringFacts
      <4>2. EndOf(t) <= Cur[a]
        BY <1>4, <1>9, <2>1, <2>7, <3>2 DEF StringsApart
      <4> QED
        BY <1>4, <1>9, <3>2, <4>1, <4>2
    <3> QED
      BY <1>11, <3>1, <3>2
  <2>8. ScratchesNest'
    <3>1. \A d \in 1 .. Depth' : scratch'[d].f5 <= Cur'[scratch'[d].arena]
      BY <1>7, <2>4
    <3>2. \A t \in InUse' : str'[t].depth <= Depth'
      BY <1>7, <1>9, <2>3, <2>6
    <3>3. \A t \in InUse', d \in 1 .. Depth' : scratch'[d].arena = str'[t].arena =>
            IF d <= str'[t].depth THEN scratch'[d].f5 <= str'[t].at ELSE EndOf(t)' <= scratch'[d].f5
      BY <1>7, <2>3, <2>7
    <3> QED
      BY <2>5, <3>1, <3>2, <3>3 DEF ScratchesNest
  <2> QED
    BY <2>2, <2>8
<1> QED
  BY <1>10, <1>12, <1>13

(* What is left of an arena below its new position.                        *)
LEMMA AbandonFacts ==
  ASSUME StringsTypeOK, NEW a \in Arenas, Abandon(a)
  PROVE  /\ Mem' \in [Arenas -> [Places -> Int]]
         /\ \A x \in Arenas : x # a => Mem'[x] = Mem[x]
         /\ \A j \in Places : j < Cur'[a] => Mem'[a][j] = Mem[a][j]
<1>1. PICK m : m = [i \in Places |-> IF i < Cur'[a] THEN Mem[a][i] ELSE Junk]
  OBVIOUS
<1>2. Junk \in Int
  BY StringsAssumption DEF Junk
<1>3. Mem[a] \in [Places -> Int]
  BY ArenaFacts
<1>4. m \in [Places -> Int] /\ \A j \in Places : j < Cur'[a] => m[j] = Mem[a][j]
  BY <1>1, <1>2, <1>3
<1>5. Mem' = [Mem EXCEPT ![a] = m]
  BY <1>1 DEF Abandon
<1>6. Mem \in [Arenas -> [Places -> Int]]
  BY DEF StringsTypeOK
<1> QED
  BY <1>4, <1>5, <1>6

LEMMA ReleaseStep ==
  ASSUME StringsIInv, ScratchRelease
  PROVE  StringsIInv'
<1> USE DEF StringsIInv, StringsInv
<1>1. /\ scratch \in Seq(Scratch) /\ Depth \in Nat /\ Depth = Len(scratch) /\ Depth > 0
      /\ Depth \in 1 .. Depth
  <2>1. scratch \in Seq(Scratch) /\ Depth \in Nat /\ Depth = Len(scratch) /\ Depth > 0
    BY ScratchFacts DEF StringsTypeOK, ScratchRelease
  <2> QED
    BY <2>1
<1>2. PICK a, f5 : a = scratch[Depth].arena /\ f5 = scratch[Depth].f5
  OBVIOUS
<1>3. a \in Arenas /\ f5 \in Nat /\ f5 <= Cap /\ a = Top.arena /\ f5 = Top.f5
  BY <1>1, <1>2, ScratchFacts DEF Top
<1>4. Cur' = [Cur EXCEPT ![a] = f5] /\ Abandon(a)
  BY <1>3 DEF ScratchRelease, SdbArenaSeek
<1>5. /\ str' = [s \in Strings |-> IF str[s].depth = Depth THEN Unused ELSE str[s]]
      /\ raw' = {s \in raw : str[s].depth # Depth}
      /\ scratch' = SubSeq(scratch, 1, Depth - 1)
      /\ UNCHANGED <<lib, Registered, misused>>
  BY <1>1 DEF ScratchRelease, Front
<1>6. /\ scratch' \in Seq(Scratch) /\ Depth' = Depth - 1 /\ Depth' \in Nat /\ Depth' <= Depth
      /\ \A d \in 1 .. Depth' : scratch'[d] = scratch[d] /\ d \in 1 .. Depth /\ d < Depth
  <2>1. PICK k \in Nat : k = Depth - 1
    BY <1>1
  <2>2. /\ scratch' \in Seq(Scratch) /\ Len(scratch') = k
        /\ \A d \in 1 .. k : scratch'[d] = scratch[d]
    BY <1>1, <1>5, <2>1
  <2> QED
    BY <1>1, <2>1, <2>2 DEF Depth
<1>7. ASSUME NEW t \in InUse'
      PROVE  t \in InUse /\ t \in Strings /\ str'[t] = str[t] /\ str[t].depth # Depth
  <2>1. t \in Strings /\ str'[t].arena \in Arenas
    BY <1>7 DEF InUse
  <2>2. str'[t] = IF str[t].depth = Depth THEN Unused ELSE str[t]
    BY <1>5, <2>1
  <2>3. str[t].depth # Depth
    BY <2>1, <2>2, UnusedFacts
  <2> QED
    BY <2>1, <2>2, <2>3 DEF InUse
<1>8. ASSUME NEW t \in InUse, str[t].depth # Depth PROVE t \in InUse'
  <2>1. t \in Strings /\ str'[t] = str[t]
    BY <1>5, <1>8 DEF InUse
  <2> QED
    BY <2>1 DEF InUse
<1>9. StringsTypeOK'
  <2>1. str' \in [Strings -> StringInArena]
    BY <1>5, UnusedFacts DEF StringsTypeOK
  <2>2. \A t \in InUse' : str'[t].Len <= str'[t].Cap
    BY <1>7 DEF StringsTypeOK
  <2>3. Cur' \in [Arenas -> 0 .. Cap]
    <3>1. f5 \in 0 .. Cap
      BY <1>3, StringsAssumption
    <3> QED
      BY <1>3, <1>4, <3>1 DEF StringsTypeOK
  <2>4. Mem' \in [Arenas -> [Places -> Int]]
    BY <1>3, <1>4, AbandonFacts
  <2>5. raw' \subseteq InUse'
    BY <1>5, <1>8 DEF StringsTypeOK
  <2>6. lib' \in {"lm", "sdb"} /\ misused' \in BOOLEAN
    BY <1>5 DEF StringsTypeOK
  <2>7. Registered' \in Seq(Arenas) /\ Len(Registered') <= MaxCount
    BY <1>5 DEF StringsTypeOK
  <2> QED
    BY <1>6, <2>1, <2>2, <2>3, <2>4, <2>5, <2>6, <2>7 DEF StringsTypeOK
<1>10. ScratchesChosen'
  BY <1>5, <1>6 DEF ScratchesChosen
<1>11. ASSUME ~misused' PROVE Safe'
  <2>1. Safe
    BY <1>5, <1>11 DEF Safe
  <2>2. Cur'[a] = f5 /\ \A x \in Arenas : x # a => Cur'[x] = Cur[x]
    BY <1>3, <1>4 DEF StringsTypeOK
  <2>3. ASSUME NEW d \in 1 .. Depth' PROVE scratch[d].f5 <= Cur'[scratch[d].arena]
    <3>1. d \in 1 .. Depth /\ d < Depth /\ scratch[d].arena \in Arenas
      BY <1>6, ScratchFacts
    <3>2. CASE scratch[d].arena = a
      BY <1>1, <1>2, <2>1, <2>2, <3>1, <3>2 DEF Safe, ScratchesNest
    <3>3. CASE scratch[d].arena # a
      BY <2>1, <2>2, <3>1, <3>3 DEF Safe, ScratchesNest
    <3> QED
      BY <3>2, <3>3
  <2>4. ASSUME NEW t \in InUse'
        PROVE  /\ str[t].depth <= Depth' /\ ~(Depth <= str[t].depth)
               /\ str[t].arena = a => EndOf(t) <= f5
               /\ EndOf(t) <= Cur'[str[t].arena] /\ str[t].arena \in Arenas
    <3>1. t \in InUse /\ str[t].depth # Depth /\ str[t].depth <= Depth /\ str[t].depth \in Nat
      BY <1>7, <2>1, StringFacts DEF Safe, ScratchesNest
    <3>2. str[t].depth <= Depth' /\ ~(Depth <= str[t].depth)
      BY <1>1, <1>6, <3>1
    <3>3. str[t].arena = a => EndOf(t) <= f5
      BY <1>1, <1>2, <2>1, <3>1, <3>2 DEF Safe, ScratchesNest
    <3>4. EndOf(t) <= Cur[str[t].arena] /\ str[t].arena \in Arenas
      BY <2>1, <3>1 DEF Safe, StringsApart, InUse
    <3> QED
      BY <2>2, <3>2, <3>3, <3>4
  <2>5. ASSUME NEW t \in InUse', NEW j \in Places, j < EndOf(t)
        PROVE  Mem'[str[t].arena][j] = Mem[str[t].arena][j]
    <3>1. str[t].arena \in Arenas
      BY <2>4
    <3>2. CASE str[t].arena = a
      <4>1. j < Cur'[a]
        <5>1. EndOf(t) <= f5 /\ EndOf(t) \in Nat /\ j \in Int
          BY <1>7, <2>4, <3>2, StringFacts, StringsAssumption DEF Places
        <5> QED
          BY <1>3, <2>2, <2>5, <5>1
      <4> QED
        BY <1>3, <1>4, <3>2, <4>1, AbandonFacts
    <3>3. CASE str[t].arena # a
      BY <1>3, <1>4, <3>1, <3>3, AbandonFacts
    <3> QED
      BY <3>2, <3>3
  <2>6. \A t \in InUse' : t \notin raw' => t \notin raw
    BY <1>5, <1>7
  <2> QED
    BY <1>6, <1>7, <2>1, <2>3, <2>4, <2>5, <2>6, Dropped
<1> QED
  BY <1>9, <1>10, <1>11 DEF Safe

-----------------------------------------------------------------------------
(* Making and freeing strings.                                             *)

(* Nothing is asked of the fresh string but the cells it is written with.  *)
LEMMA NewStep ==
  ASSUME StringsIInv, NEW s \in Strings, NEW a \in Arenas, NEW n \in Nat, NewString(s, a, n),
         NEW ends \in {0, 1},
         Mem' = [Mem EXCEPT ![a] = Written(@, Cur[a], StringCells(s, n, ends))],
         raw' \subseteq raw \cup {s}, raw \subseteq raw', s \notin raw' => ends = 1
  PROVE  StringsIInv'
<1> USE DEF StringsIInv, StringsInv
<1>1. PICK r : r = [arena |-> a, at |-> Cur[a], Len |-> n, Cap |-> n, depth |-> BelongsTo(a)]
  OBVIOUS
<1>2. /\ BelongsTo(a) \in Nat /\ BelongsTo(a) <= Depth
      /\ \A d \in 1 .. Depth : scratch[d].arena = a => d <= BelongsTo(a)
  BY BelongsToFacts
<1>3. /\ Cur[a] \in Nat /\ Cur[a] + n + 2 <= Cap /\ Cap \in Nat /\ Mem[a] \in [Places -> Int]
      /\ s \in Int
  <2>1. Cur[a] \in Nat /\ Cap \in Nat /\ Mem[a] \in [Places -> Int]
    BY ArenaFacts
  <2>2. Cur[a] + (n + 2) <= Cap
    BY DEF NewString, SdbArenaPush
  <2> QED
    BY <2>1, <2>2, StringsAssumption DEF Strings
<1>4. /\ r \in StringInArena /\ r.arena = a /\ r.at = Cur[a] /\ r.Len = n /\ r.Cap = n
      /\ r.depth = BelongsTo(a)
  BY <1>1, <1>2, <1>3 DEF StringInArena
<1>5. PICK m : m = Written(Mem[a], Cur[a], StringCells(s, n, ends))
  OBVIOUS
<1>6. PICK c : c = Cur[a] + n + 2
  OBVIOUS
<1>7. c \in 0 .. Cap /\ c \in Nat /\ Cur[a] <= c
  BY <1>3, <1>6
<1>8. Changed(s, a, r, c, m)
  <2>1. Cur' = [Cur EXCEPT ![a] = c]
    <3>1. Cur' = [Cur EXCEPT ![a] = Cur[a] + (n + 2)]
      BY DEF NewString, SdbArenaPush
    <3>2. Cur[a] + (n + 2) = c
      BY <1>3, <1>6
    <3> QED
      BY <3>1, <3>2
  <2> QED
    BY <1>1, <1>5, <2>1 DEF Changed, NewString
<1>9. /\ m \in [Places -> Int]
      /\ \A i \in Places : i < Cur[a] \/ i >= Cur[a] + n + 2 => m[i] = Mem[a][i]
      /\ m[Cur[a]] = -s
      /\ \A i \in 1 .. n : m[Cur[a] + i] = s
      /\ ends = 1 => m[Cur[a] + n + 1] = 0
  <2>1. PICK mem \in [Places -> Int], at \in Nat : mem = Mem[a] /\ at = Cur[a]
    BY <1>3
  <2>2. m = Written(mem, at, StringCells(s, n, ends)) /\ at + n + 2 <= Cap
    BY <1>3, <1>5, <2>1
  <2>3. HoldsString(Written(mem, at, StringCells(s, n, ends)), mem, at, s, n, ends)
    <3> HIDE DEF StringsIInv, StringsInv
    <3> QED
      BY <2>2, StringWritten, Zenon
  <2>4. HoldsString(m, Mem[a], Cur[a], s, n, ends)
    BY <2>1, <2>2, <2>3, Zenon
  <2> QED
    BY <2>4, Zenon DEF HoldsString
<1>10. s \notin InUse /\ UNCHANGED <<lib, Registered, scratch, misused>>
  BY DEF NewString
<1>11. InUse \subseteq InUse' /\ s \in InUse'
  BY <1>4, <1>8, <1>10, ChangedFacts
<1>12. StringsTypeOK'
  <2>1. misused' \in BOOLEAN /\ raw' \subseteq InUse'
    BY <1>10, <1>11 DEF StringsTypeOK
  <2>2. r.Len <= r.Cap
    BY <1>4
  <2> QED
    BY <1>4, <1>7, <1>8, <1>9, <1>10, <2>1, <2>2, TypesKept
<1>13. ScratchesChosen'
  BY <1>10 DEF ScratchesChosen, Depth
<1>14. ASSUME ~misused' PROVE Safe'
  <2>1. Safe
    BY <1>10, <1>14 DEF Safe
  <2>2. Reads(m, r, s, s \notin raw')
    BY <1>4, <1>9, Zenon DEF Reads
  <2>3. \A t \in InUse : t # s /\ str[t].arena = a =>
          EndOf(t) <= r.at \/ r.at + r.Cap + 2 <= str[t].at
    BY <1>4, <2>1 DEF Safe, StringsApart
  <2>4. \A d \in 1 .. Depth : scratch[d].arena = a =>
          IF d <= r.depth THEN scratch[d].f5 <= r.at ELSE r.at + r.Cap + 2 <= scratch[d].f5
    BY <1>2, <1>4, <2>1 DEF Safe, ScratchesNest
  <2>5. \A j \in Places : j < r.at \/ j >= r.at + r.Cap + 2 => m[j] = Mem[a][j]
    BY <1>4, <1>9
  <2>6. r.at + r.Cap + 2 <= c /\ r.depth <= Depth /\ r.Len <= r.Cap
    BY <1>2, <1>3, <1>4, <1>6
  <2>7. \A t \in InUse : t # s /\ t \notin raw' => t \notin raw
    OBVIOUS
  <2> QED
    BY <1>4, <1>7, <1>8, <1>9, <1>10, <2>1, <2>2, <2>3, <2>4, <2>5, <2>6, <2>7, Rewritten
<1> QED
  BY <1>12, <1>13, <1>14 DEF Safe

LEMMA MakeSteps ==
  ASSUME StringsIInv, NEW s \in Strings, NEW a \in Arenas, NEW n \in Nat,
         \/ lm__string_make__(s, a, n)
         \/ \E null \in BOOLEAN : Sdb__StringMake__(s, a, n, null)
  PROVE  StringsIInv'
<1>1. CASE lm__string_make__(s, a, n)
  <2>1. /\ NewString(s, a, n) /\ raw' = raw
        /\ Mem' = [Mem EXCEPT ![a] = Written(@, Cur[a], <<-s>> \o Text(s, n) \o <<0>>)]
    BY <1>1 DEF lm__string_make__
  <2>2. StringCells(s, n, 1) = <<-s>> \o Text(s, n) \o <<0>>
    BY Zenon DEF StringCells
  <2>3. Mem' = [Mem EXCEPT ![a] = Written(@, Cur[a], StringCells(s, n, 1))]
    BY <2>1, <2>2, Zenon
  <2>4. NewString(s, a, n) /\ raw' = raw
    BY <2>1
  <2> QED
    BY <2>3, <2>4, NewStep
<1>2. ASSUME NEW null \in BOOLEAN, Sdb__StringMake__(s, a, n, null) PROVE StringsIInv'
  <2>1. PICK ends \in {0, 1} : ends = IF null \/ n > 0 THEN 1 ELSE 0
    OBVIOUS
  <2>2. NewString(s, a, n) /\ raw' = IF null \/ n > 0 THEN raw ELSE raw \cup {s}
    BY <1>2 DEF Sdb__StringMake__
  <2>3. CASE null \/ n > 0
    <3>1. ends = 1 /\ raw' = raw
      BY <2>1, <2>2, <2>3
    <3>2. Mem' = [Mem EXCEPT ![a] = Written(@, Cur[a], <<-s>> \o Text(s, n) \o <<0>>)]
      BY <1>2, <2>3, Zenon DEF Sdb__StringMake__
    <3>3. StringCells(s, n, ends) = <<-s>> \o Text(s, n) \o <<0>>
      BY <3>1, Zenon DEF StringCells
    <3>4. Mem' = [Mem EXCEPT ![a] = Written(@, Cur[a], StringCells(s, n, ends))]
      BY <3>2, <3>3, Zenon
    <3>5. NewString(s, a, n)
      BY <2>2
    <3> QED
      BY <3>1, <3>4, <3>5, NewStep
  <2>4. CASE ~(null \/ n > 0)
    <3>1. ends = 0 /\ ends # 1 /\ raw' = raw \cup {s}
      BY <2>1, <2>2, <2>4
    <3>2. Mem' = [Mem EXCEPT ![a] = Written(@, Cur[a], <<-s>> \o Text(s, n) \o <<>>)]
      BY <1>2, <2>4, Zenon DEF Sdb__StringMake__
    <3>3. StringCells(s, n, ends) = <<-s>> \o Text(s, n) \o <<>>
      BY <3>1, Zenon DEF StringCells
    <3>4. Mem' = [Mem EXCEPT ![a] = Written(@, Cur[a], StringCells(s, n, ends))]
      BY <3>2, <3>3, Zenon
    <3>5. NewString(s, a, n)
      BY <2>2
    <3> QED
      BY <3>1, <3>4, <3>5, NewStep
  <2> QED
    BY <2>3, <2>4
<1> QED
  BY <1>1, <1>2

LEMMA LmFreeStep ==
  ASSUME StringsIInv, NEW s \in Strings, lm_string_free(s)
  PROVE  StringsIInv'
<1> USE DEF StringsIInv, StringsInv
<1>1. s \in InUse /\ UNCHANGED <<lib, Cur, Registered, scratch, misused>> /\ raw' = raw \ {s}
  BY DEF lm_string_free
<1>2. PICK a, at, room : a = str[s].arena /\ at = str[s].at /\ room = str[s].Cap
  OBVIOUS
<1>3. a \in Arenas /\ at \in Nat /\ room \in Nat /\ EndOf(s) = at + room + 2
  BY <1>1, <1>2, StringFacts
<1>4. PICK m : m = Written(Mem[a], at, Text(Junk, room + 2))
  OBVIOUS
<1>5. /\ m \in [Places -> Int]
      /\ \A i \in Places : i < at \/ i >= at + (room + 2) => m[i] = Mem[a][i]
  <2>1. PICK text : text = Text(Junk, room + 2)
    OBVIOUS
  <2>2. Junk \in Int /\ room + 2 \in Nat
    BY <1>3, StringsAssumption DEF Junk
  <2>3. text \in Seq(Int) /\ Len(text) = room + 2
    BY <2>1, <2>2, TextFacts
  <2>4. m = Written(Mem[a], at, text)
    BY <1>4, <2>1
  <2>5. Mem[a] \in [Places -> Int]
    BY <1>3, ArenaFacts
  <2>6. /\ Written(Mem[a], at, text) \in [Places -> Int]
        /\ \A i \in Places : i < at \/ i >= at + Len(text) => Written(Mem[a], at, text)[i] = Mem[a][i]
    BY <1>3, <2>3, <2>5, WrittenFacts
  <2> QED
    BY <2>3, <2>4, <2>6, Zenon
<1>6. Changed(s, a, Unused, Cur[a], m)
  <2>1. Cur' = [Cur EXCEPT ![a] = Cur[a]]
    BY <1>1 DEF StringsTypeOK
  <2> QED
    BY <1>2, <1>4, <2>1 DEF Changed, lm_string_free
<1>7. /\ Mem'[a] = m /\ \A x \in Arenas : x # a => Mem'[x] = Mem[x]
      /\ s \notin InUse' /\ \A t : t # s => (t \in InUse' <=> t \in InUse)
      /\ \A t \in Strings : t # s => str'[t] = str[t]
  BY <1>3, <1>6, ChangedFacts, UnusedFacts
<1>8. StringsTypeOK'
  <2>1. misused' \in BOOLEAN /\ raw' \subseteq InUse'
    BY <1>1, <1>7 DEF StringsTypeOK
  <2>2. Cur[a] \in 0 .. Cap
    BY <1>3 DEF StringsTypeOK
  <2> QED
    BY <1>1, <1>3, <1>5, <1>6, <2>1, <2>2, TypesKept, UnusedFacts
<1>9. ScratchesChosen'
  BY <1>1 DEF ScratchesChosen, Depth
<1>10. ASSUME ~misused' PROVE Safe'
  <2>1. Safe
    BY <1>1, <1>10 DEF Safe
  <2>2. Depth' = Depth /\ Depth \in Nat /\ Depth <= Depth
    BY <1>1, ScratchFacts DEF Depth
  <2>3. ASSUME NEW t \in InUse'
        PROVE  /\ t \in InUse /\ t # s /\ str'[t] = str[t] /\ str[t].arena \in Arenas
               /\ str[t].depth <= Depth /\ EndOf(t) <= Cur[str[t].arena]
               /\ t \notin raw' => t \notin raw
    <3>1. t \in InUse /\ t # s /\ t \in Strings
      BY <1>7 DEF InUse
    <3> QED
      BY <1>1, <1>7, <2>1, <3>1 DEF Safe, StringsApart, ScratchesNest, InUse
  <2>4. ASSUME NEW t \in InUse', NEW j \in Places, str[t].at <= j, j < EndOf(t)
        PROVE  Mem'[str[t].arena][j] = Mem[str[t].arena][j]
    <3>1. CASE str[t].arena = a
      <4>1. EndOf(t) <= at \/ EndOf(s) <= str[t].at
        BY <1>1, <1>2, <2>1, <2>3, <3>1 DEF Safe, StringsApart
      <4>2. EndOf(t) \in Nat /\ str[t].at \in Nat /\ j \in Int
        BY <2>3, StringFacts, StringsAssumption DEF Places
      <4>3. j < at \/ j >= at + (room + 2)
        BY <1>3, <2>4, <4>1, <4>2
      <4> QED
        BY <1>5, <1>7, <3>1, <4>3
    <3>2. CASE str[t].arena # a
      BY <1>7, <2>3, <3>2
    <3> QED
      BY <3>1, <3>2
  <2>5. \A d \in 1 .. Depth : scratch'[d] = scratch[d] /\ scratch[d].f5 <= Cur'[scratch[d].arena]
    BY <1>1, <2>1 DEF Safe, ScratchesNest
  <2> QED
    BY <1>1, <2>1, <2>2, <2>3, <2>4, <2>5, Dropped
<1> QED
  BY <1>8, <1>9, <1>10 DEF Safe

LEMMA SdbFreeStep ==
  ASSUME StringsIInv, NEW s \in Strings, SdbStringFree(s)
  PROVE  StringsIInv'
<1> USE DEF StringsIInv, StringsInv
<1>1. /\ s \in InUse /\ UNCHANGED <<lib, Registered, scratch>> /\ raw' = raw \ {s}
      /\ str' = [str EXCEPT ![s] = Unused] /\ misused' = (misused \/ ~IsLast(s))
  BY DEF SdbStringFree
<1>2. PICK a, at, room : a = str[s].arena /\ at = str[s].at /\ room = str[s].Cap
  OBVIOUS
<1>3. a \in Arenas /\ at \in Nat /\ room \in Nat /\ EndOf(s) = at + room + 2
  BY <1>1, <1>2, StringFacts
<1>4. Cur[a] \in Nat /\ Cur[a] <= Cap /\ Cap \in Nat
  BY <1>3, ArenaFacts
<1>5. PICK c : c = IF Cur[a] >= room + 2 THEN Cur[a] - (room + 2) ELSE Cur[a]
  OBVIOUS
<1>6. c \in 0 .. Cap
  BY <1>3, <1>4, <1>5
<1>7. Cur' = [Cur EXCEPT ![a] = c] /\ Abandon(a)
  BY <1>2, <1>5 DEF SdbStringFree, SdbArenaPop
<1>8. /\ Mem' \in [Arenas -> [Places -> Int]]
      /\ \A x \in Arenas : x # a => Mem'[x] = Mem[x]
      /\ \A j \in Places : j < Cur'[a] => Mem'[a][j] = Mem[a][j]
  BY <1>3, <1>7, AbandonFacts
<1>9. Changed(s, a, Unused, c, Mem'[a])
  <2>1. Mem' = [Mem EXCEPT ![a] = Mem'[a]]
    BY <1>8 DEF StringsTypeOK
  <2> QED
    BY <1>1, <1>7, <2>1 DEF Changed
<1>10. /\ Cur'[a] = c /\ \A x \in Arenas : x # a => Cur'[x] = Cur[x]
       /\ s \notin InUse' /\ \A t : t # s => (t \in InUse' <=> t \in InUse)
       /\ \A t \in Strings : t # s => str'[t] = str[t]
  BY <1>3, <1>9, ChangedFacts, UnusedFacts
<1>11. StringsTypeOK'
  <2>1. misused' \in BOOLEAN /\ raw' \subseteq InUse'
    BY <1>1, <1>10 DEF StringsTypeOK
  <2>2. Mem'[a] \in [Places -> Int]
    BY <1>3, <1>8
  <2> QED
    BY <1>1, <1>3, <1>6, <1>9, <2>1, <2>2, TypesKept, UnusedFacts
<1>12. ScratchesChosen'
  BY <1>1 DEF ScratchesChosen, Depth
<1>13. ASSUME ~misused' PROVE Safe'
  <2>1. Safe /\ IsLast(s)
    BY <1>1, <1>13 DEF Safe
  <2>2. /\ Cur[a] = at + room + 2
        /\ \A d \in 1 .. Depth : scratch[d].arena = a => d <= str[s].depth
    BY <1>2, <2>1 DEF IsLast
  <2>3. c = at
    BY <1>3, <1>5, <2>2
  <2>4. Depth' = Depth /\ Depth \in Nat /\ Depth <= Depth
    BY <1>1, ScratchFacts DEF Depth
  <2>5. ASSUME NEW t \in InUse'
        PROVE  /\ t \in InUse /\ t # s /\ str'[t] = str[t] /\ str[t].arena \in Arenas
               /\ str[t].depth <= Depth /\ EndOf(t) <= Cur[str[t].arena]
               /\ t \notin raw' => t \notin raw
    <3>1. t \in InUse /\ t # s /\ t \in Strings
      BY <1>10 DEF InUse
    <3> QED
      BY <1>1, <1>10, <2>1, <3>1 DEF Safe, StringsApart, ScratchesNest, InUse
  <2>6. ASSUME NEW t \in InUse', str[t].arena = a PROVE EndOf(t) <= at
    <3>1. EndOf(t) <= at \/ EndOf(s) <= str[t].at
      BY <1>1, <1>2, <2>1, <2>5, <2>6 DEF Safe, StringsApart
    <3>2. EndOf(t) <= at + room + 2
      BY <2>2, <2>5, <2>6
    <3>3. EndOf(t) \in Nat /\ str[t].at \in Nat /\ str[t].at < EndOf(t)
      <4>1. str[t].at \in Nat /\ str[t].Cap \in Nat /\ EndOf(t) = str[t].at + str[t].Cap + 2
        BY <2>5, StringFacts
      <4> QED
        BY <4>1
    <3> QED
      BY <1>3, <3>1, <3>2, <3>3
  <2>7. ASSUME NEW t \in InUse' PROVE EndOf(t) <= Cur'[str[t].arena]
    BY <1>10, <2>3, <2>5, <2>6
  <2>8. ASSUME NEW t \in InUse', NEW j \in Places, j < EndOf(t)
        PROVE  Mem'[str[t].arena][j] = Mem[str[t].arena][j]
    <3>1. CASE str[t].arena = a
      <4>1. EndOf(t) <= at /\ EndOf(t) \in Nat /\ j \in Int
        BY <2>5, <2>6, <3>1, StringFacts, StringsAssumption DEF Places
      <4>2. j < Cur'[a]
        BY <1>3, <1>10, <2>3, <2>8, <4>1
      <4> QED
        BY <1>8, <3>1, <4>2
    <3>2. CASE str[t].arena # a
      BY <1>8, <2>5, <3>2
    <3> QED
      BY <3>1, <3>2
  <2>9. ASSUME NEW d \in 1 .. Depth
        PROVE  scratch'[d] = scratch[d] /\ scratch[d].f5 <= Cur'[scratch[d].arena]
    <3>1. CASE scratch[d].arena = a
      BY <1>1, <1>2, <1>10, <2>1, <2>2, <2>3, <3>1 DEF Safe, ScratchesNest
    <3>2. CASE scratch[d].arena # a
      BY <1>1, <1>10, <2>1, <3>2, ScratchFacts DEF Safe, ScratchesNest
    <3> QED
      BY <3>1, <3>2
  <2> QED
    BY <2>1, <2>4, <2>5, <2>7, <2>8, <2>9, Dropped
<1> QED
  BY <1>11, <1>12, <1>13 DEF Safe

-----------------------------------------------------------------------------
(* Changing strings.                                                       *)

LEMMA ShortenStep ==
  ASSUME StringsIInv, NEW s \in InUse, NEW n \in Nat, n <= str[s].Len, Shortened(s, n),
         raw' \subseteq raw, \A t \in InUse : t # s /\ t \notin raw' => t \notin raw,
         n = 0 \/ (s \notin raw' => s \notin raw)
  PROVE  StringsIInv'
<1> USE DEF StringsIInv, StringsInv
<1>1. PICK q : q = str[s]
  OBVIOUS
<1>2. PICK a, at, room : a = q.arena /\ at = q.at /\ room = q.Cap
  OBVIOUS
<1>3. /\ s \in Strings /\ q \in StringInArena /\ a \in Arenas /\ at \in Nat /\ room \in Nat
      /\ q.Len \in Nat /\ n <= q.Len /\ n <= room /\ EndOf(s) = at + room + 2
  <2>1. /\ s \in Strings /\ q \in StringInArena /\ a \in Arenas /\ at \in Nat /\ room \in Nat
        /\ q.Len \in Nat /\ n <= q.Len /\ q.Len <= room /\ EndOf(s) = at + room + 2
    BY <1>1, <1>2, StringFacts
  <2> QED
    BY <2>1
<1>4. PICK r : r = [q EXCEPT !.Len = n, !.Cap = room]
  OBVIOUS
<1>5. /\ r \in StringInArena /\ r.arena = a /\ r.at = at /\ r.depth = q.depth
      /\ r.Len = n /\ r.Cap = room
  BY <1>2, <1>3, <1>4 DEF StringInArena
<1>6. PICK m : m = Written(Mem[a], at + 1 + n, <<0>>)
  OBVIOUS
<1>7. /\ Cap \in Nat /\ Mem[a] \in [Places -> Int] /\ at + 1 + n \in Nat
  BY <1>3, ArenaFacts
<1>8. /\ m \in [Places -> Int]
      /\ \A i \in Places : i < at + 1 + n \/ i >= at + 1 + n + 1 => m[i] = Mem[a][i]
      /\ at + 1 + n \in Places => m[at + 1 + n] = 0
  <2>1. PICK p \in Nat : p = at + 1 + n
    BY <1>7
  <2>2. PICK y \in [Places -> Int] : y = Mem[a]
    BY <1>7
  <2>3. PICK zero : zero = <<0>>
    OBVIOUS
  <2>4. zero \in Seq(Int) /\ Len(zero) = 1 /\ zero[1] = 0
    BY <2>3, OneCell
  <2>5. m = Written(y, p, zero)
    BY <1>6, <2>1, <2>2, <2>3
  <2>6. /\ m \in [Places -> Int] /\ \A i \in Places : i < p \/ i >= p + 1 => m[i] = y[i]
        /\ p \in Places => m[p] = 0
    BY <2>4, <2>5, ZeroWritten
  <2> QED
    BY <2>1, <2>2, <2>6, Zenon
<1>9. UNCHANGED <<lib, Cur, Registered, scratch, misused>>
  BY DEF Shortened
<1>10. Changed(s, a, r, Cur[a], m)
  <2>1. Cur' = [Cur EXCEPT ![a] = Cur[a]]
    BY <1>3, <1>9 DEF StringsTypeOK
  <2>2. [q EXCEPT !.Len = n] = r
    BY <1>2, <1>3, <1>4 DEF StringInArena
  <2>3. str' = [str EXCEPT ![s] = [q EXCEPT !.Len = n]]
    BY <1>1 DEF Shortened
  <2>4. Mem' = [Mem EXCEPT ![a] = m]
    BY <1>1, <1>2, <1>6 DEF Shortened
  <2> QED
    BY <2>1, <2>2, <2>3, <2>4 DEF Changed
<1>11. InUse' = InUse
  BY <1>3, <1>5, <1>10, ChangedFacts
<1>12. Cur[a] \in 0 .. Cap /\ Cur[a] <= Cur[a]
  <2>1. Cur[a] \in 0 .. Cap
    BY <1>3 DEF StringsTypeOK
  <2> QED
    BY <1>7, <2>1
<1>13. StringsTypeOK'
  <2>1. misused' \in BOOLEAN /\ raw' \subseteq InUse'
    BY <1>9, <1>11 DEF StringsTypeOK
  <2> QED
    BY <1>3, <1>5, <1>8, <1>9, <1>10, <1>12, <2>1, TypesKept
<1>14. ScratchesChosen'
  BY <1>9 DEF ScratchesChosen, Depth
<1>15. ASSUME ~misused' PROVE Safe'
  <2>1. Safe
    BY <1>9, <1>15 DEF Safe
  <2>2. at + room + 2 <= Cur[a] /\ at + room + 2 <= Cap
    <3>1. EndOf(s) <= Cur[a] /\ Cur[a] \in Nat /\ Cur[a] <= Cap
      BY <1>1, <1>2, <1>3, <2>1, ArenaFacts DEF Safe, StringsApart
    <3> QED
      BY <1>3, <1>7, <3>1
  <2>3. \A i \in 0 .. n : m[at + i] = Mem[a][at + i]
    <3>1. \A i \in 0 .. n : at + i \in Places /\ at + i < at + 1 + n
      BY <1>3, <1>7, <2>2 DEF Places
    <3> QED
      BY <1>8, <3>1
  <2>4. m[at + n + 1] = 0
    <3>1. at + 1 + n \in Places /\ at + 1 + n = at + n + 1
      BY <1>3, <1>7, <2>2 DEF Places
    <3> QED
      BY <1>8, <3>1
  <2>5. Reads(Mem[a], q, s, s \notin raw)
    BY <1>1, <1>2, <2>1 DEF Safe, TextIntact
  <2>6. Reads(m, r, s, s \notin raw')
    <3>1. m[at] = -s
      <4>1. 0 \in 0 .. n /\ at + 0 = at
        BY <1>3
      <4> QED
        BY <1>2, <2>3, <2>5, <4>1 DEF Reads
    <3>2. ASSUME s \notin raw', NEW i \in 1 .. n PROVE m[at + i] = s
      <4>1. s \notin raw /\ i \in 0 .. n /\ i \in 1 .. q.Len
        BY <1>3, <3>2
      <4> QED
        BY <1>2, <2>3, <2>5, <4>1 DEF Reads
    <3> QED
      BY <1>5, <2>4, <3>1, <3>2, Zenon DEF Reads
  <2>7. \A t \in InUse : t # s /\ str[t].arena = a =>
          EndOf(t) <= r.at \/ r.at + r.Cap + 2 <= str[t].at
    BY <1>1, <1>2, <1>3, <1>5, <2>1 DEF Safe, StringsApart
  <2>8. \A d \in 1 .. Depth : scratch[d].arena = a =>
          IF d <= r.depth THEN scratch[d].f5 <= r.at ELSE r.at + r.Cap + 2 <= scratch[d].f5
    BY <1>1, <1>2, <1>3, <1>5, <2>1 DEF Safe, ScratchesNest
  <2>9. \A j \in Places : j < r.at \/ j >= r.at + r.Cap + 2 => m[j] = Mem[a][j]
    <3>1. \A j \in Places : j \in Int
      BY <1>7 DEF Places
    <3>2. \A j \in Int : j < at \/ j >= at + room + 2 => j < at + 1 + n \/ j >= at + 1 + n + 1
      BY <1>3
    <3> QED
      BY <1>5, <1>8, <3>1, <3>2
  <2>10. r.depth <= Depth
    BY <1>1, <1>5, <2>1 DEF Safe, ScratchesNest
  <2> QED
    BY <1>3, <1>5, <1>8, <1>9, <1>10, <1>12, <2>1, <2>2, <2>6, <2>7, <2>8, <2>9, <2>10, Rewritten
<1> QED
  BY <1>13, <1>14, <1>15 DEF Safe

(* A string grows over free room only: it is the last of its arena, and no *)
(* scratch begins behind it.                                               *)
LEMMA WriteStep ==
  ASSUME StringsIInv, NEW s \in InUse, NEW n \in Nat, NEW from \in {0, str[s].Len},
         MakeSpaceAndWrite(s, n, from),
         raw' \subseteq raw \cup {s}, \A t \in InUse : t # s /\ t \notin raw' => t \notin raw,
         from = 0 \/ (s \notin raw' => s \notin raw)
  PROVE  StringsIInv'
<1> USE DEF StringsIInv, StringsInv
<1>1. PICK q : q = str[s]
  OBVIOUS
<1>2. PICK a, at, room : a = q.arena /\ at = q.at /\ room = q.Cap
  OBVIOUS
<1>3. /\ s \in Strings /\ q \in StringInArena /\ a \in Arenas /\ at \in Nat /\ room \in Nat
      /\ q.Len \in Nat /\ q.Len <= room /\ EndOf(s) = at + room + 2
      /\ from \in Nat /\ from <= q.Len /\ s \in Int
  <2>1. /\ s \in Strings /\ q \in StringInArena /\ a \in Arenas /\ at \in Nat /\ room \in Nat
        /\ q.Len \in Nat /\ q.Len <= room /\ EndOf(s) = at + room + 2
    BY <1>1, <1>2, StringFacts
  <2>2. from = 0 \/ from = q.Len
    BY <1>1
  <2> QED
    BY <2>1, <2>2, StringsAssumption DEF Strings
<1>4. Cur[a] \in Nat /\ Cur[a] <= Cap /\ Cap \in Nat /\ Mem[a] \in [Places -> Int]
  BY <1>3, ArenaFacts
<1>5. PICK grows \in BOOLEAN : grows = ~HasSpace(s, n)
  BY Zenon DEF HasSpace
<1>6. PICK more : more = IF grows THEN n ELSE 0
  OBVIOUS
<1>7. /\ more \in Nat /\ (grows => more = n) /\ (~grows => more = 0)
      /\ from + n <= room + more /\ Cur[a] + more <= Cap
  <2>1. CASE grows
    <3>1. SdbArenaReserve(a, n) >= n
      BY <1>1, <1>2, <1>5, <2>1 DEF MakeSpaceAndWrite
    <3>2. Cur[a] + n <= Cap
      BY <1>4, <3>1 DEF SdbArenaReserve
    <3> QED
      BY <1>3, <1>6, <2>1, <3>2
  <2>2. CASE ~grows
    <3>1. room - q.Len >= n
      BY <1>1, <1>2, <1>5, <2>2 DEF HasSpace
    <3> QED
      BY <1>3, <1>4, <1>6, <2>2, <3>1
  <2> QED
    BY <2>1, <2>2
<1>8. PICK r : r = [q EXCEPT !.Len = from + n, !.Cap = room + more]
  OBVIOUS
<1>9. /\ r \in StringInArena /\ r.arena = a /\ r.at = at /\ r.depth = q.depth
      /\ r.Len = from + n /\ r.Cap = room + more /\ r.Len <= r.Cap
  <2>1. from + n \in Nat /\ room + more \in Nat
    BY <1>3, <1>7
  <2> QED
    BY <1>2, <1>3, <1>7, <1>8, <2>1 DEF StringInArena
<1>10. PICK m : m = Written(Mem[a], at + 1 + from, TextCells(s, n))
  OBVIOUS
<1>11. UNCHANGED <<lib, Registered, scratch>> /\ misused' = (misused \/ (grows /\ ~IsLast(s)))
  BY <1>5 DEF MakeSpaceAndWrite
<1>12. PICK c : c = Cur[a] + more
  OBVIOUS
<1>13. c \in 0 .. Cap /\ Cur[a] <= c /\ c \in Nat
  BY <1>4, <1>7, <1>12
<1>14. Changed(s, a, r, c, m)
  <2>1. Cur' = [Cur EXCEPT ![a] = IF grows THEN Cur[a] + n ELSE Cur[a]]
    BY <1>1, <1>2, <1>5 DEF MakeSpaceAndWrite
  <2>2. (IF grows THEN Cur[a] + n ELSE Cur[a]) = c
    BY <1>4, <1>6, <1>12
  <2>3. str' = [str EXCEPT ![s] = [q EXCEPT !.Len = from + n, !.Cap = IF grows THEN room + n ELSE room]]
    BY <1>1, <1>2, <1>5 DEF MakeSpaceAndWrite
  <2>4. (IF grows THEN room + n ELSE room) = room + more
    BY <1>3, <1>6
  <2>5. Mem' = [Mem EXCEPT ![a] = m]
    BY <1>1, <1>2, <1>10 DEF MakeSpaceAndWrite, TextCells
  <2> QED
    BY <1>8, <2>1, <2>2, <2>3, <2>4, <2>5, Zenon DEF Changed
<1>15. InUse' = InUse
  <2>1. s \in InUse' <=> r.arena \in Arenas
    BY <1>3, <1>14, ChangedFacts, Zenon
  <2>2. \A t : t # s => (t \in InUse' <=> t \in InUse)
    BY <1>3, <1>14, ChangedFacts, Zenon
  <2>3. s \in InUse'
    BY <1>3, <1>9, <2>1
  <2> QED
    BY <2>2, <2>3
<1>16. m \in [Places -> Int]
  <2>1. PICK cells : cells = TextCells(s, n)
    OBVIOUS
  <2>2. PICK text : text = Text(s, n)
    OBVIOUS
  <2>3. text \in Seq(Int) /\ <<0>> \in Seq(Int)
    BY <1>3, <2>2, TextFacts, OneCell
  <2>4. cells \in Seq(Int)
    BY <2>1, <2>2, <2>3, Joined DEF TextCells
  <2>5. at + 1 + from \in Nat
    BY <1>3
  <2>6. Written(Mem[a], at + 1 + from, cells) \in [Places -> Int]
    BY <1>4, <2>4, <2>5, WrittenFacts
  <2> QED
    BY <1>10, <2>1, <2>6
<1>17. StringsTypeOK'
  <2>1. misused' \in BOOLEAN /\ raw' \subseteq InUse'
    BY <1>11, <1>15 DEF StringsTypeOK
  <2> QED
    BY <1>3, <1>9, <1>11, <1>13, <1>14, <1>16, <2>1, TypesKept
<1>18. ScratchesChosen'
  BY <1>11 DEF ScratchesChosen, Depth
<1>19. ASSUME ~misused' PROVE Safe'
  <2>1. Safe /\ (grows => IsLast(s))
    BY <1>11, <1>19 DEF Safe
  <2>2. grows => /\ Cur[a] = at + room + 2
                 /\ \A d \in 1 .. Depth : scratch[d].arena = a => d <= q.depth
    BY <1>1, <1>2, <2>1 DEF IsLast
  <2>3. at + room + 2 <= Cur[a] /\ at + (room + more) + 2 <= c /\ at + (room + more) + 2 <= Cap
    <3>1. EndOf(s) <= Cur[a]
      BY <1>1, <1>2, <2>1 DEF Safe, StringsApart
    <3> QED
      BY <1>3, <1>4, <1>7, <1>12, <3>1
  <2>4. /\ \A i \in Places : i < at + 1 + from \/ i > at + 1 + from + n => m[i] = Mem[a][i]
        /\ \A i \in 0 .. n - 1 : m[at + 1 + from + i] = s
        /\ m[at + 1 + from + n] = 0
    <3>1. PICK p \in Nat : p = at + 1 + from
      BY <1>3
    <3>2. p + n < Cap
      BY <1>3, <1>4, <1>7, <2>3, <3>1
    <3>3. m = Written(Mem[a], p, TextCells(s, n))
      BY <1>10, <3>1
    <3>4. /\ \A i \in Places : i < p \/ i > p + n => m[i] = Mem[a][i]
          /\ \A i \in 0 .. n - 1 : m[p + i] = s
          /\ m[p + n] = 0
      <4>1. PICK mem \in [Places -> Int] : mem = Mem[a]
        BY <1>4
      <4>2. m = Written(mem, p, TextCells(s, n))
        BY <3>3, <4>1
      <4>3. /\ \A i \in Places : i < p \/ i > p + n => m[i] = mem[i]
            /\ \A i \in 0 .. n - 1 : m[p + i] = s
            /\ m[p + n] = 0
        BY <1>3, <3>2, <4>2, TextWritten
      <4> QED
        BY <4>1, <4>3, Zenon
    <3> QED
      BY <3>1, <3>4, Zenon
  <2>5. \A i \in 0 .. from : m[at + i] = Mem[a][at + i]
    <3>1. \A i \in 0 .. from : at + i \in Places /\ at + i < at + 1 + from
      BY <1>3, <1>4, <1>7, <2>3 DEF Places
    <3> QED
      BY <2>4, <3>1
  <2>6. Reads(Mem[a], q, s, s \notin raw)
    BY <1>1, <1>2, <2>1 DEF Safe, TextIntact
  <2>7. Reads(m, r, s, s \notin raw')
    <3>1. m[at] = -s
      <4>1. 0 \in 0 .. from /\ at + 0 = at
        BY <1>3
      <4> QED
        BY <1>2, <2>5, <2>6, <4>1 DEF Reads
    <3>2. ASSUME s \notin raw', NEW i \in 1 .. from + n PROVE m[at + i] = s
      <4>1. CASE i <= from
        <5>1. from # 0 /\ i \in 0 .. from /\ i \in 1 .. q.Len
          BY <1>3, <3>2, <4>1
        <5>2. s \notin raw
          BY <3>2, <5>1
        <5> QED
          BY <1>2, <2>5, <2>6, <5>1, <5>2 DEF Reads
      <4>2. CASE ~(i <= from)
        <5>1. PICK j \in 0 .. n - 1 : j = i - from - 1
          BY <1>3, <3>2, <4>2
        <5>2. at + 1 + from + j = at + i
          BY <1>3, <3>2, <5>1
        <5> QED
          BY <2>4, <5>2
      <4> QED
        BY <4>1, <4>2
    <3>3. m[at + (from + n) + 1] = 0
      <4>1. at + (from + n) + 1 = at + 1 + from + n
        BY <1>3
      <4> QED
        BY <2>4, <4>1
    <3> QED
      BY <1>9, <3>1, <3>2, <3>3, Zenon DEF Reads
  <2>8. ASSUME NEW t \in InUse, t # s, str[t].arena = a
        PROVE  EndOf(t) <= r.at \/ r.at + r.Cap + 2 <= str[t].at
    <3>1. EndOf(t) <= at \/ at + room + 2 <= str[t].at
      BY <1>1, <1>2, <1>3, <2>1, <2>8 DEF Safe, StringsApart
    <3>2. str[t].at \in Nat /\ EndOf(t) \in Nat /\ str[t].at < EndOf(t) /\ EndOf(t) <= Cur[a]
      <4>1. str[t].at \in Nat /\ str[t].Cap \in Nat /\ EndOf(t) = str[t].at + str[t].Cap + 2
        BY StringFacts
      <4>2. EndOf(t) <= Cur[a]
        BY <2>1, <2>8 DEF Safe, StringsApart
      <4> QED
        BY <4>1, <4>2
    <3>3. grows => EndOf(t) <= at
      BY <1>3, <1>4, <2>2, <3>1, <3>2
    <3> QED
      BY <1>3, <1>7, <1>9, <3>1, <3>2, <3>3
  <2>9. ASSUME NEW d \in 1 .. Depth, scratch[d].arena = a
        PROVE  IF d <= r.depth THEN scratch[d].f5 <= r.at ELSE r.at + r.Cap + 2 <= scratch[d].f5
    <3>1. IF d <= q.depth THEN scratch[d].f5 <= at ELSE at + room + 2 <= scratch[d].f5
      BY <1>1, <1>2, <1>3, <2>1, <2>9 DEF Safe, ScratchesNest
    <3>2. CASE grows
      BY <1>9, <2>2, <2>9, <3>1, <3>2
    <3>3. CASE ~grows
      <4>1. room + more = room
        BY <1>3, <1>7, <3>3
      <4> QED
        BY <1>9, <3>1, <4>1
    <3> QED
      BY <3>2, <3>3
  <2>10. \A j \in Places : j < r.at \/ j >= r.at + r.Cap + 2 => m[j] = Mem[a][j]
    <3>1. \A j \in Places : j \in Int
      BY <1>4 DEF Places
    <3>2. \A j \in Int : j < at \/ j >= at + (room + more) + 2 =>
            j < at + 1 + from \/ j > at + 1 + from + n
      BY <1>3, <1>7
    <3> QED
      BY <1>9, <2>4, <3>1, <3>2
  <2>11. r.depth <= Depth
    BY <1>1, <1>9, <2>1 DEF Safe, ScratchesNest
  <2>12. r.at + r.Cap + 2 <= c
    BY <1>9, <2>3
  <2> QED
    BY <1>3, <1>9, <1>11, <1>13, <1>14, <1>16, <2>1, <2>7, <2>8, <2>9, <2>10, <2>11, <2>12, Rewritten
<1> QED
  BY <1>17, <1>18, <1>19 DEF Safe

LEMMA ChangeSteps ==
  ASSUME StringsIInv, NEW s \in Strings, NEW n \in Nat,
         \/ StringClear(s) \/ StringBackspace(s, n) \/ StringAppendC(s, n)
         \/ StringAppendFmt(s, n) \/ StringSet(s, n)
         \/ \E other \in Strings : StringAppend(s, other)
  PROVE  StringsIInv'
<1>1. s \in InUse
  BY DEF StringClear, StringBackspace, StringAppendC, StringAppendFmt, StringSet, StringAppend
<1>2. StringsTypeOK
  BY DEF StringsIInv, StringsInv
<1>3. str[s].Len \in Nat
  BY <1>1, <1>2, StringFacts
<1>4. CASE StringClear(s)
  <2>1. Shortened(s, 0) /\ raw' = raw \ {s} /\ 0 <= str[s].Len
    BY <1>3, <1>4 DEF StringClear
  <2> QED
    BY <1>1, <2>1, ShortenStep
<1>5. CASE StringBackspace(s, n)
  <2>1. PICK k \in Nat : k = str[s].Len - n /\ k <= str[s].Len
    BY <1>3, <1>5 DEF StringBackspace
  <2>2. Shortened(s, k) /\ raw' = raw
    BY <1>5, <2>1 DEF StringBackspace
  <2> QED
    BY <1>1, <2>1, <2>2, ShortenStep
<1>6. CASE StringAppendC(s, n)
  <2>1. MakeSpaceAndWrite(s, n, str[s].Len) /\ raw' = raw
    BY <1>6 DEF StringAppendC
  <2> QED
    BY <1>1, <2>1, WriteStep
<1>7. CASE StringAppendFmt(s, n)
  <2>1. /\ MakeSpaceAndWrite(s, n, str[s].Len)
        /\ raw' \in {raw, raw \cup {s}}
    BY <1>7 DEF StringAppendFmt
  <2>2. raw' \subseteq raw \cup {s} /\ raw \subseteq raw'
    BY <2>1
  <2> QED
    BY <1>1, <2>1, <2>2, WriteStep
<1>8. CASE StringSet(s, n)
  <2>1. MakeSpaceAndWrite(s, n, 0) /\ raw' = raw \ {s}
    BY <1>8 DEF StringSet
  <2> QED
    BY <1>1, <2>1, WriteStep
<1>9. ASSUME NEW other \in Strings, StringAppend(s, other) PROVE StringsIInv'
  <2>1. /\ MakeSpaceAndWrite(s, str[other].Len, str[s].Len) /\ other \in InUse
        /\ raw' \in {raw, raw \cup {s}}
    BY <1>9 DEF StringAppend
  <2>2. raw' \subseteq raw \cup {s} /\ raw \subseteq raw'
    BY <2>1
  <2>3. str[other].Len \in Nat
    BY <1>2, <2>1, StringFacts
  <2> QED
    BY <1>1, <2>1, <2>2, <2>3, WriteStep
<1> QED
  BY <1>4, <1>5, <1>6, <1>7, <1>8, <1>9

-----------------------------------------------------------------------------
LEMMA StringsInit == Init => StringsIInv
<1> SUFFICES ASSUME Init PROVE StringsIInv
  OBVIOUS
<1>1. InUse = {}
  BY UnusedFacts DEF Init, InUse
<1>2. Depth = 0 /\ scratch \in Seq(Scratch) /\ Registered \in Seq(Arenas) /\ Len(Registered) = 0
  BY DEF Init, Depth
<1>3. Cur \in [Arenas -> 0 .. Cap] /\ str \in [Strings -> StringInArena]
  BY StringsAssumption, UnusedFacts DEF Init
<1>4. Mem \in [Arenas -> [Places -> Int]]
  BY StringsAssumption DEF Init, Junk
<1>5. StringsTypeOK
  <2>1. lib \in {"lm", "sdb"} /\ raw \subseteq InUse /\ misused \in BOOLEAN
    BY DEF Init
  <2>2. Len(Registered) <= MaxCount
    BY <1>2, StringsAssumption
  <2> QED
    BY <1>1, <1>2, <1>3, <1>4, <2>1, <2>2 DEF StringsTypeOK
<1>6. StringsApart /\ ScratchesNest /\ TextIntact /\ ScratchesChosen
  BY <1>1, <1>2 DEF StringsApart, ScratchesNest, TextIntact, ScratchesChosen
<1> QED
  BY <1>5, <1>6 DEF StringsIInv, StringsInv

LEMMA StringsNext == StringsIInv /\ [Next]_vars => StringsIInv'
<1> SUFFICES ASSUME StringsIInv, [Next]_vars PROVE StringsIInv'
  OBVIOUS
<1>1. \A n \in 1 .. MaxText : n \in Nat
  OBVIOUS
<1>2. \A n \in 0 .. MaxText : n \in Nat
  OBVIOUS
<1>3. CASE \E a \in Arenas : a \notin ToSet(Registered) /\ ThreadArenasAdd(a)
  BY <1>3, AddStep
<1>4. CASE \E conflicts \in Conflicts : ScratchGet(conflicts)
  BY <1>4, GetStep
<1>5. CASE ScratchRelease
  BY <1>5, ReleaseStep
<1>6. CASE \E s \in Strings, a \in Arenas, n \in 0 .. MaxText :
             \/ lm__string_make__(s, a, n)
             \/ \E null \in BOOLEAN : Sdb__StringMake__(s, a, n, null)
  BY <1>2, <1>6, MakeSteps
<1>7. CASE \E s \in Strings : lm_string_free(s) \/ SdbStringFree(s) \/ StringClear(s)
  <2>1. 0 \in Nat
    OBVIOUS
  <2> QED
    BY <1>7, <2>1, LmFreeStep, SdbFreeStep, ChangeSteps
<1>8. CASE \E s \in Strings, n \in 1 .. MaxText :
             StringBackspace(s, n) \/ StringAppendC(s, n) \/ StringAppendFmt(s, n) \/ StringSet(s, n)
  BY <1>1, <1>8, ChangeSteps
<1>9. CASE \E s, other \in Strings : StringAppend(s, other)
  <2>1. 0 \in Nat
    OBVIOUS
  <2> QED
    BY <1>9, <2>1, ChangeSteps
<1>10. CASE UNCHANGED vars
  <2>1. /\ lib' = lib /\ str' = str /\ Cur' = Cur /\ Mem' = Mem /\ scratch' = scratch
        /\ Registered' = Registered /\ raw' = raw /\ misused' = misused
    BY <1>10 DEF vars
  <2>2. InUse' = InUse /\ Depth' = Depth /\ \A s : EndOf(s)' = EndOf(s)
    BY <2>1 DEF InUse, Depth, EndOf
  <2>3. StringsTypeOK' = StringsTypeOK /\ ScratchesChosen' = ScratchesChosen
    BY <2>1, <2>2, Zenon DEF StringsTypeOK, ScratchesChosen
  <2>4. StringsApart' = StringsApart /\ ScratchesNest' = ScratchesNest /\ TextIntact' = TextIntact
    BY <2>1, <2>2, Zenon DEF StringsApart, ScratchesNest, TextIntact
  <2> QED
    BY <2>1, <2>3, <2>4 DEF StringsIInv, StringsInv
<1> QED
  BY <1>3, <1>4, <1>5, <1>6, <1>7, <1>8, <1>9, <1>10 DEF Next

(* StringsInv: for any arenas, strings and nesting, every string reads as  *)
(* what was last written to it, as long as only the last string of an      *)
(* arena grows or is freed (SdbStringMakeSpace, SdbStringFree,             *)
(* Sdb__ScratchRelease__).                                                 *)
THEOREM StringsInvariant == Spec => []StringsInv
<1>1. StringsIInv => StringsInv
  BY DEF StringsIInv
<1> QED
  BY <1>1, StringsInit, StringsNext, PTL DEF Spec

(* What a release does to strings in an arena that was named as a          *)
(* conflict: nothing, as the arena is another one.                         *)
LEMMA ReleaseKeeps ==
  ASSUME StringsIInv, ScratchRelease, ~misused, NEW s \in InUse,
         str[s].arena \in ToSet(Top.conflicts),
         Len(Top.conflicts) = 1 \/ str[s].arena # Registered[1]
  PROVE  /\ EndOf(s) <= Cur'[str[s].arena]
         /\ Reads(Mem'[str[s].arena], str[s], s, s \notin raw)
<1>1. StringsTypeOK /\ StringsApart /\ TextIntact /\ ScratchesChosen
  BY DEF StringsIInv, StringsInv
<1>2. Depth \in 1 .. Depth /\ scratch[Depth] = Top
  BY <1>1, ScratchFacts DEF ScratchRelease, Top
<1>3. Top.conflicts \in Conflicts /\ Top.arena \in Arenas
  BY <1>1, <1>2, ScratchFacts
<1>4. /\ Len(Top.conflicts) = 1 => Top.arena # Top.conflicts[1]
      /\ Len(Top.conflicts) = 2 => Top.arena = Registered[1]
  BY <1>1, <1>2 DEF ScratchesChosen
<1>5. PICK a, b, c : a = str[s].arena /\ b = Top.arena /\ c = Top.conflicts
  OBVIOUS
<1>6. a # b
  <2>1. PICK j \in DOMAIN c : c[j] = a
    BY <1>5 DEF ToSet
  <2>2. CASE Len(c) = 1
    <3>1. \E x \in Arenas : c = <<x>>
      BY <1>1, <1>3, <1>5, <2>2, ConflictFacts
    <3> QED
      BY <1>4, <1>5, <2>1, <2>2, <3>1
  <2>3. CASE Len(c) = 2
    BY <1>4, <1>5, <2>3
  <2>4. CASE c = <<>>
    BY <2>1, <2>4
  <2> QED
    BY <1>1, <1>3, <1>5, <2>2, <2>3, <2>4, ConflictFacts
<1>7. a \in Arenas /\ EndOf(s) <= Cur[a] /\ Reads(Mem[a], str[s], s, s \notin raw)
  BY <1>1, <1>5 DEF StringsApart, TextIntact, InUse
<1>8. Cur'[a] = Cur[a] /\ Mem'[a] = Mem[a]
  <2>1. Cur' = [Cur EXCEPT ![b] = IF Top.f5 <= Cap THEN Top.f5 ELSE @] /\ Abandon(b)
    BY <1>5 DEF ScratchRelease, SdbArenaSeek
  <2>2. Cur \in [Arenas -> 0 .. Cap] /\ b \in Arenas
    BY <1>1, <1>3, <1>5 DEF StringsTypeOK
  <2> QED
    BY <1>1, <1>6, <1>7, <2>1, <2>2, AbandonFacts
<1> QED
  BY <1>5, <1>7, <1>8, Zenon

(* ResultsKept: the release of a scratch keeps what was made in the arenas *)
(* that were named as conflicts, allocated and as it was written, however  *)
(* many arenas the thread has and however scratch arenas nest; with two    *)
(* conflicts except in the thread's first arena (Sdb__ScratchGet__,        *)
(* Sdb__ScratchRelease__).                                                 *)
THEOREM ResultsSurvive == Spec => ResultsKept
<1>1. StringsIInv /\ [Next]_vars =>
        [ScratchRelease /\ ~misused =>
           \A s \in InUse :
             str[s].arena \in ToSet(Top.conflicts)
             /\ (Len(Top.conflicts) = 1 \/ str[s].arena # Registered[1]) =>
               /\ EndOf(s) <= Cur'[str[s].arena]
               /\ Reads(Mem'[str[s].arena], str[s], s, s \notin raw)]_vars
  BY ReleaseKeeps
<1> QED
  BY <1>1, StringsInit, StringsNext, PTL DEF Spec, ResultsKept
=============================================================================
