---------------------------- MODULE ArenaStrings ----------------------------
(***************************************************************************)
(* Strings that live in arenas, as lm.h and Sdb.h have them, with the      *)
(* arenas of Sdb.h and the scratch arenas of a thread.  The two libraries  *)
(* agree but for the making of empty strings and for freeing.              *)
(*                                                                         *)
(* The memory of an arena is a function from places to cells.  A string    *)
(* takes a cell for its header (the negated number of the string), its     *)
(* text (its number in every cell), and a terminator; what the text says   *)
(* is left out, whose text it is tells overwriting.  The calling code is a *)
(* thread that makes strings in its innermost scratch arena, or, as a      *)
(* result for its own caller, in an arena it has named as a conflict.      *)
(***************************************************************************)
EXTENDS Integers, Sequences, SequencesExt, FiniteSetsExt

CONSTANTS
  Arenas,       \* the arenas, numbered from 1; 0 is none
  Cap,          \* their capacity
  MaxCount,     \* room for the arenas of the thread
  MaxStrings,   \* bound on the strings made
  MaxText,      \* bound on the text given to an operation
  MaxDepth,     \* bound on the nesting of scratch arenas
  FmtBuf        \* size of the buffer that formatted text goes through

ASSUME StringsAssumption ==
  /\ Arenas \subseteq Nat \ {0}
  /\ Cap \in Nat /\ MaxCount \in Nat /\ MaxStrings \in Nat
  /\ MaxText \in Nat /\ MaxDepth \in Nat /\ FmtBuf \in Nat

VARIABLES
  lib,          \* "lm" or "sdb"
  Cur, Mem,     \* position and memory of each arena
  Registered,   \* the thread arenas, in order
  scratch,      \* the scratch arenas in use: [arena, f5, conflicts]
  str,          \* the strings in use: [arena, at, Len, Cap, depth]
  raw,          \* history: strings in use whose text the library left incomplete
  misused       \* history: a string that was not the last one grew or was freed

vars == <<lib, Cur, Mem, Registered, scratch, str, raw, misused>>

Strings == 1 .. MaxStrings
Places == 0 .. Cap - 1
Junk == MaxStrings + 1
InUse == {s \in Strings : str[s].arena \in Arenas}
Unused == [arena |-> 0, at |-> 0, Len |-> 0, Cap |-> 0, depth |-> 0]

Init ==
  /\ lib \in {"lm", "sdb"}
  /\ Cur = [a \in Arenas |-> 0] /\ Mem = [a \in Arenas |-> [i \in Places |-> Junk]]
  /\ Registered = <<>> /\ scratch = <<>>
  /\ str = [s \in Strings |-> Unused] /\ raw = {} /\ misused = FALSE

Written(mem, at, cells) ==
  [i \in Places |-> IF i \in at .. at + Len(cells) - 1 THEN cells[i - at + 1] ELSE mem[i]]
Text(s, n) == [i \in 1 .. n |-> s]

-----------------------------------------------------------------------------
(* The arenas.                                                             *)
SdbArenaPush(a, size) == Cur[a] + size <= Cap /\ Cur' = [Cur EXCEPT ![a] = @ + size]
SdbArenaReserve(a, size) == IF Cur[a] + size <= Cap THEN size ELSE Cap - Cur[a]
SdbArenaPop(a, size) == Cur' = [Cur EXCEPT ![a] = IF @ >= size THEN @ - size ELSE @]
SdbArenaSeek(a, pos) == Cur' = [Cur EXCEPT ![a] = IF pos <= Cap THEN pos ELSE @]

(* What memory holds that was given back is not told apart.                *)
Abandon(a) == Mem' = [Mem EXCEPT ![a] = [i \in Places |-> IF i < Cur'[a] THEN @[i] ELSE Junk]]

(* A thread registers its arenas; one too many is an error.                *)
ThreadArenasAdd(a) ==
  /\ Len(Registered) + 1 <= MaxCount
  /\ Registered' = Append(Registered, a)
  /\ UNCHANGED <<lib, Cur, Mem, scratch, str, raw, misused>>

(* Fault: the conflicts are not looked at.                                 *)
ScratchChoiceFirst(conflicts) == Registered[1]

(* The first arena that differs from one of the conflicts; 0 for none.     *)
ScratchChoice(conflicts) ==
  LET fit == {i \in DOMAIN Registered :
                conflicts = <<>> \/ \E j \in DOMAIN conflicts : Registered[i] # conflicts[j]}
  IN IF fit = {} THEN 0 ELSE Registered[Min(fit)]

Depth == Len(scratch)
Top == scratch[Depth]

ScratchGet(conflicts) ==
  /\ Depth < MaxDepth /\ Registered # <<>> /\ ScratchChoice(conflicts) # 0
  /\ LET a == ScratchChoice(conflicts)
     IN scratch' = Append(scratch, [arena |-> a, f5 |-> Cur[a], conflicts |-> conflicts])
  /\ UNCHANGED <<lib, Cur, Mem, Registered, str, raw, misused>>

(* What was made in the scratch arena ends with it.                        *)
ScratchRelease ==
  /\ Depth > 0
  /\ SdbArenaSeek(Top.arena, Top.f5) /\ Abandon(Top.arena)
  /\ str' = [s \in Strings |-> IF str[s].depth = Depth THEN Unused ELSE str[s]]
  /\ raw' = {s \in raw : str[s].depth # Depth}
  /\ scratch' = Front(scratch)
  /\ UNCHANGED <<lib, Registered, misused>>

-----------------------------------------------------------------------------
(* Making strings.                                                         *)

(* The scratch a string in arena a belongs to: the innermost, or an outer  *)
(* one or none for a result.                                               *)
BelongsTo(a) ==
  IF Depth > 0 /\ a = Top.arena THEN Depth
  ELSE Max({0} \cup {d \in 1 .. Depth - 1 : scratch[d].arena = a})

MayMakeIn(a) == Depth > 0 /\ a \in {Top.arena} \cup ToSet(Top.conflicts)

NewString(s, a, n) ==
  /\ MayMakeIn(a) /\ s \notin InUse
  /\ SdbArenaPush(a, n + 2)
  /\ str' = [str EXCEPT ![s] = [arena |-> a, at |-> Cur[a], Len |-> n,
                                Cap |-> n, depth |-> BelongsTo(a)]]
  /\ UNCHANGED <<lib, Registered, scratch, misused>>

(* lm.h: the text, if there is any, and always a terminator.               *)
lm__string_make__(s, a, n) ==
  /\ lib = "lm"
  /\ NewString(s, a, n)
  /\ Mem' = [Mem EXCEPT ![a] = Written(@, Cur[a], <<-s>> \o Text(s, n) \o <<0>>)]
  /\ UNCHANGED raw

(* Sdb.h: memory is cleared for a string from NULL; an empty text that is  *)
(* not NULL writes neither text nor terminator.                            *)
Sdb__StringMake__(s, a, n, null) ==
  /\ lib = "sdb" /\ (null => n = 0)
  /\ NewString(s, a, n)
  /\ LET terminated == null \/ n > 0
     IN /\ Mem' = [Mem EXCEPT ![a] =
                     Written(@, Cur[a], <<-s>> \o Text(s, n) \o (IF terminated THEN <<0>> ELSE <<>>))]
        /\ raw' = IF terminated THEN raw ELSE raw \cup {s}

(* lm_string_free does nothing; the room stays taken.                      *)
lm_string_free(s) ==
  /\ lib = "lm" /\ s \in InUse
  /\ str' = [str EXCEPT ![s] = Unused]
  /\ Mem' = [Mem EXCEPT ![str[s].arena] = Written(@, str[s].at, Text(Junk, str[s].Cap + 2))]
  /\ raw' = raw \ {s}
  /\ UNCHANGED <<lib, Cur, Registered, scratch, misused>>

(* The string is the last allocation of its arena, and no scratch that was *)
(* got after it will set the position of the arena back.                   *)
IsLast(s) ==
  /\ Cur[str[s].arena] = str[s].at + str[s].Cap + 2
  /\ \A d \in 1 .. Depth : scratch[d].arena = str[s].arena => d <= str[s].depth

(* Fault: the terminator is counted twice.                                 *)
SdbStringFreeTooMuch(s) ==
  /\ lib = "sdb" /\ s \in InUse
  /\ SdbArenaPop(str[s].arena, str[s].Cap + 3) /\ Abandon(str[s].arena)
  /\ misused' = (misused \/ ~IsLast(s))
  /\ str' = [str EXCEPT ![s] = Unused] /\ raw' = raw \ {s}
  /\ UNCHANGED <<lib, Registered, scratch>>

(* SdbStringFree pops the size of the string, from wherever it is.         *)
SdbStringFree(s) ==
  /\ lib = "sdb" /\ s \in InUse
  /\ SdbArenaPop(str[s].arena, str[s].Cap + 2) /\ Abandon(str[s].arena)
  /\ misused' = (misused \/ ~IsLast(s))
  /\ str' = [str EXCEPT ![s] = Unused] /\ raw' = raw \ {s}
  /\ UNCHANGED <<lib, Registered, scratch>>

-----------------------------------------------------------------------------
(* Changing strings.                                                       *)

Shortened(s, n) ==
  /\ str' = [str EXCEPT ![s].Len = n]
  /\ Mem' = [Mem EXCEPT ![str[s].arena] = Written(@, str[s].at + 1 + n, <<0>>)]
  /\ UNCHANGED <<lib, Cur, Registered, scratch, misused>>

StringClear(s) == s \in InUse /\ Shortened(s, 0) /\ raw' = raw \ {s}

(* The caller takes off no more than there is.                             *)
StringBackspace(s, n) ==
  s \in InUse /\ n <= str[s].Len /\ Shortened(s, str[s].Len - n) /\ UNCHANGED raw

(* Fault: a string that has some room is thought to have enough.           *)
HasSpaceAny(s, n) == str[s].Cap > str[s].Len \/ n = 0

HasSpace(s, n) == str[s].Cap - str[s].Len >= n

(* Writes n cells into a string at a place after making space for them.    *)
(* To grow, a string takes as much as is added from the end of its arena.  *)
(* Without that much room nothing happens and NULL is returned.            *)
MakeSpaceAndWrite(s, n, from) ==
  LET grows == ~HasSpace(s, n)
      a == str[s].arena
  IN /\ grows => SdbArenaReserve(a, n) >= n
     /\ Cur' = [Cur EXCEPT ![a] = IF grows THEN @ + n ELSE @]
     /\ misused' = (misused \/ (grows /\ ~IsLast(s)))
     /\ str' = [str EXCEPT ![s].Len = from + n,
                           ![s].Cap = IF grows THEN str[s].Cap + n ELSE str[s].Cap]
     /\ Mem' = [Mem EXCEPT ![a] = Written(@, str[s].at + 1 + from, Text(s, n) \o <<0>>)]
     /\ UNCHANGED <<lib, Registered, scratch>>

StringAppendC(s, n) == s \in InUse /\ MakeSpaceAndWrite(s, n, str[s].Len) /\ UNCHANGED raw

StringAppend(s, other) ==
  /\ {s, other} \subseteq InUse /\ s # other
  /\ MakeSpaceAndWrite(s, str[other].Len, str[s].Len)
  /\ raw' = IF other \in raw THEN raw \cup {s} ELSE raw

(* At most FmtBuf - 2 characters get into the buffer, but as many are      *)
(* copied as the text would have had, past the buffer if need be.          *)
StringAppendFmt(s, n) ==
  /\ s \in InUse /\ MakeSpaceAndWrite(s, n, str[s].Len)
  /\ raw' = IF n > FmtBuf - 2 THEN raw \cup {s} ELSE raw

StringSet(s, n) == s \in InUse /\ MakeSpaceAndWrite(s, n, 0) /\ raw' = raw \ {s}

-----------------------------------------------------------------------------
Conflicts == {<<>>} \cup {<<a>> : a \in Arenas} \cup {c \in Arenas \X Arenas : c[1] < c[2]}

Next ==
  \/ \E a \in Arenas : a \notin ToSet(Registered) /\ ThreadArenasAdd(a)
  \/ \E conflicts \in Conflicts : ScratchGet(conflicts)
  \/ ScratchRelease
  \/ \E s \in Strings, a \in Arenas, n \in 0 .. MaxText :
       \/ lm__string_make__(s, a, n)
       \/ \E null \in BOOLEAN : Sdb__StringMake__(s, a, n, null)
  \/ \E s \in Strings : lm_string_free(s) \/ SdbStringFree(s) \/ StringClear(s)
  \/ \E s \in Strings, n \in 1 .. MaxText :
       StringBackspace(s, n) \/ StringAppendC(s, n) \/ StringAppendFmt(s, n) \/ StringSet(s, n)
  \/ \E s, other \in Strings : StringAppend(s, other)

Spec == Init /\ [][Next]_vars

-----------------------------------------------------------------------------
Scratch == [arena : Arenas, f5 : 0 .. Cap, conflicts : Conflicts]
StringInArena == [arena : Arenas \cup {0}, at : Nat, Len : Nat, Cap : Nat, depth : Nat]

(* The variables have their types, no more arenas are registered than      *)
(* there is room for, and no string is longer than it may be.              *)
StringsTypeOK ==
  /\ lib \in {"lm", "sdb"} /\ raw \subseteq InUse /\ misused \in BOOLEAN
  /\ Cur \in [Arenas -> 0 .. Cap] /\ Mem \in [Arenas -> [Places -> Int]]
  /\ Registered \in Seq(Arenas) /\ Len(Registered) <= MaxCount
  /\ scratch \in Seq(Scratch)
  /\ str \in [Strings -> StringInArena] /\ \A s \in InUse : str[s].Len <= str[s].Cap

(* The first place behind a string.                                        *)
EndOf(s) == str[s].at + str[s].Cap + 2

(* The strings in use are inside the used parts of their arenas and apart  *)
(* from each other.                                                        *)
StringsApart ==
  /\ \A s \in InUse : EndOf(s) <= Cur[str[s].arena]
  /\ \A s, t \in InUse : s # t /\ str[s].arena = str[t].arena =>
       EndOf(s) <= str[t].at \/ EndOf(t) <= str[s].at

(* What a scratch will set the position of its arena back to is inside the *)
(* used part and not before what an outer scratch will set it back to; the *)
(* strings that end with it are behind that place, all others before it.   *)
ScratchesNest ==
  /\ \A d \in 1 .. Depth : scratch[d].f5 <= Cur[scratch[d].arena]
  /\ \A d, e \in 1 .. Depth : d < e /\ scratch[d].arena = scratch[e].arena =>
       scratch[d].f5 <= scratch[e].f5
  /\ \A s \in InUse : str[s].depth <= Depth
  /\ \A s \in InUse, d \in 1 .. Depth : scratch[d].arena = str[s].arena =>
       IF d <= str[s].depth THEN scratch[d].f5 <= str[s].at ELSE EndOf(s) <= scratch[d].f5

(* What the cells of an arena say of string s at r: there is its header,   *)
(* and the text and the terminator if it is complete.                      *)
Reads(cells, r, s, complete) ==
  /\ cells[r.at] = -s
  /\ complete => /\ \A i \in 1 .. r.Len : cells[r.at + i] = s
                 /\ cells[r.at + r.Len + 1] = 0

(* Every string in use has its header, reads as what was last written to   *)
(* it, and ends there, unless Sdb.h made it from an empty text or it was   *)
(* formatted past the buffer.                                              *)
TextIntact == \A s \in InUse : Reads(Mem[str[s].arena], str[s], s, s \notin raw)

(* Strings are inside their arenas and read as what was written to them,   *)
(* through growing, freeing and scratch arenas that are released around    *)
(* them: as long as only the last string of an arena grows or is freed,    *)
(* and not inside of a scratch in the same arena.                          *)
StringsInv == StringsTypeOK /\ (~misused => StringsApart /\ ScratchesNest /\ TextIntact)

(* When a function releases its scratch, what it or its callers have made  *)
(* in the arenas it has named as conflicts stays allocated and reads as it *)
(* was written, whatever scratch arenas have come and gone inside.  With   *)
(* two conflicts every arena differs from one of them, and what is in the  *)
(* first arena of the thread is lost if that is one of the two.            *)
ResultsKept ==
  [][ScratchRelease /\ ~misused =>
       \A s \in InUse :
         str[s].arena \in ToSet(Top.conflicts)
         /\ (Len(Top.conflicts) = 1 \/ str[s].arena # Registered[1]) =>
           /\ EndOf(s) <= Cur'[str[s].arena]
           /\ Reads(Mem'[str[s].arena], str[s], s, s \notin raw)]_vars
=============================================================================
