------------------------------- MODULE UArena -------------------------------
(***************************************************************************)
(* The user-space arena allocator (src/allocators/u_arena.c): one arena    *)
(* created by ua_create, arenas bootstrapped out of it and out of one      *)
(* another, and the blocks of memory their clients hold.                   *)
(*                                                                         *)
(* Addresses are offsets into the memory of the created arena.  mem, cap   *)
(* and cur are the fields of the C structure.  What the structure does not *)
(* hold is what the callers believe: the blocks handed out and not yet     *)
(* given up, and the arenas that may still be used.  Moving an arena's     *)
(* position down gives up every block and every arena that reaches above   *)
(* the new position, at any depth.                                         *)
(*                                                                         *)
(* An operation that fails returns NULL and changes nothing, unless it is  *)
(* ua_bootstrap.  What zeroing writes is left out.                         *)
(***************************************************************************)
EXTENDS Integers

CONSTANTS
  Arenas,     \* the UArena structures
  Root,       \* the one ua_create returns
  Cap,        \* its capacity
  StructSize, \* sizeof(UArena)
  MaxRequest, \* bound on the sizes asked for
  HalfMod     \* half the number of values of a size_t

SizeMod == 2 * HalfMod

(* No caller asks for so much that a position plus a size wraps around or  *)
(* that a size is negative as an ssize_t.                                  *)
ASSUME SizesAssumption ==
  /\ Cap \in Nat /\ StructSize \in Nat \ {0} /\ MaxRequest \in Nat /\ HalfMod \in Nat
  /\ StructSize <= MaxRequest
  /\ Cap + MaxRequest < HalfMod
ASSUME RootAssumption == Root \in Arenas

VARIABLES
  mem, cap, cur,  \* the fields of every structure
  usable,         \* the arenas that may be used
  path,           \* path[a]: a and the arenas it was bootstrapped out of
  blocks,         \* the blocks held: [lo, hi, owner]
  flags,          \* the contiguous and mallocd flags of Root
  resources       \* what the process holds of malloc and mmap

vars == <<mem, cap, cur, usable, path, blocks, flags, resources>>

Wrap(n) == n % SizeMod
Signed(n) == IF n < HalfMod THEN n ELSE n - SizeMod

Init ==
  /\ mem = [a \in Arenas |-> 0] /\ cap = [a \in Arenas |-> 0]
  /\ cur = [a \in Arenas |-> 0]
  /\ usable = {} /\ path = [a \in Arenas |-> {a}] /\ blocks = {}
  /\ flags = [contiguous |-> FALSE, mallocd |-> FALSE] /\ resources = {}

-----------------------------------------------------------------------------
(* What ua_create acquires: a header and the memory, in one piece or two.  *)
Acquired(f) ==
  CASE  f.mallocd /\  f.contiguous -> {<<"malloc", "both">>}
    []  f.mallocd /\ ~f.contiguous -> {<<"malloc", "header">>, <<"malloc", "memory">>}
    [] ~f.mallocd /\  f.contiguous -> {<<"mmap", "both">>}
    [] ~f.mallocd /\ ~f.contiguous -> {<<"malloc", "header">>, <<"mmap", "memory">>}

(* Fault: ua_destroy takes a mapped arena with a header of its own for a   *)
(* contiguous one.                                                         *)
ReleasedMappedOnly(f) ==
  IF f.mallocd THEN Acquired(f)
  ELSE IF f.contiguous THEN {<<"mmap", "both">>} ELSE {<<"mmap", "memory">>}

(* What ua_destroy gives back, testing the flags.                          *)
Released(f) ==
  IF f.mallocd
  THEN IF f.contiguous THEN {<<"malloc", "both">>}
                       ELSE {<<"malloc", "memory">>, <<"malloc", "header">>}
  ELSE IF f.contiguous THEN {<<"mmap", "both">>}
                       ELSE {<<"mmap", "memory">>, <<"malloc", "header">>}

ua_create(contiguous, mallocd) ==
  /\ Root \notin usable
  /\ flags' = [contiguous |-> contiguous, mallocd |-> mallocd]
  /\ resources' = resources \cup Acquired(flags')
  /\ mem' = [mem EXCEPT ![Root] = 0]
  /\ cap' = [cap EXCEPT ![Root] = Cap]
  /\ cur' = [cur EXCEPT ![Root] = 0]
  /\ path' = [path EXCEPT ![Root] = {Root}]
  /\ usable' = {Root}
  /\ UNCHANGED blocks

(* ua_destroy of a bootstrapped arena does nothing.                        *)
ua_destroy(a) ==
  /\ a \in usable /\ a = Root
  /\ resources' = resources \ Released(flags)
  /\ usable' = {} /\ blocks' = {}
  /\ UNCHANGED <<mem, cap, cur, path, flags>>

-----------------------------------------------------------------------------
End(a) == mem[a] + cap[a]
Block(lo, size, owner) == [lo |-> lo, hi |-> lo + size, owner |-> owner]

(* Fault: room for one byte more than there is.                            *)
FitsOffByOne(a, pos, size) == Wrap(pos + size) <= cap[a] + 1

(* The test of the checked allocations, with the wrap-around of size_t.    *)
Fits(a, pos, size) == Wrap(pos + size) <= cap[a]

(* A block at the position; the holder of an empty block may not touch it. *)
NewBlocks(a, pos, size) == IF size = 0 THEN {} ELSE {Block(mem[a] + pos, size, a)}

(* Fault: the position is not advanced past the block.                     *)
TakeInPlace(a, size) ==
  /\ blocks' = blocks \cup NewBlocks(a, cur[a], size)
  /\ UNCHANGED <<mem, cap, cur, usable, path, flags, resources>>

Take(a, size) ==
  /\ cur' = [cur EXCEPT ![a] = Wrap(@ + size)]
  /\ blocks' = blocks \cup NewBlocks(a, cur[a], size)
  /\ UNCHANGED <<mem, cap, usable, path, flags, resources>>

(* ua_alloc and ua_zalloc.                                                 *)
ua_alloc(a, size) == a \in usable /\ Fits(a, cur[a], size) /\ Take(a, size)

(* ua_falloc and ua_fzalloc test nothing: that the arena is large enough   *)
(* is asserted by the caller beforehand.                                   *)
ua_falloc(a, size) == a \in usable /\ cur[a] + size <= cap[a] /\ Take(a, size)

ua_reserve(a, size) == a \in usable /\ Fits(a, cur[a], size) /\ Take(a, size)

(* The position of a moves to pos, up or down.                             *)
Lost(a, pos) == {b \in usable : /\ b # a /\ a \in path[b]
                                /\ End(b) > mem[a] + pos}
Remaining(a, pos) == {b \in usable : path[b] \cap Lost(a, pos) = {}}

MoveTo(a, pos) ==
  /\ cur' = [cur EXCEPT ![a] = pos]
  /\ usable' = Remaining(a, pos)
  /\ blocks' = {x \in blocks : /\ x.owner \in Remaining(a, pos)
                               /\ a \in path[x.owner] => x.hi <= mem[a] + pos}
  /\ UNCHANGED <<mem, cap, path, flags, resources>>

ua_free(a) == a \in usable /\ MoveTo(a, 0)

ua_pop(a, size) ==
  /\ a \in usable /\ Signed(cur[a]) - Signed(size) >= 0
  /\ MoveTo(a, Wrap(cur[a] - size))

(* Also ua_scratch_release, with the position saved by ua_scratch_begin.   *)
ua_seek(a, pos) == a \in usable /\ pos <= cap[a] /\ MoveTo(a, pos)

(* ua_bootstrap carves arena b out of arena a: its structure, unless the   *)
(* caller brings one, and then its memory.  If only one of the two is to   *)
(* be had, NULL is returned and the position stays where it got to.        *)
ua_bootstrap(a, b, existing, size) ==
  LET header == IF existing THEN 0 ELSE StructSize
      gotStruct == existing \/ Fits(a, cur[a], header)
      pos1 == IF gotStruct THEN Wrap(cur[a] + header) ELSE cur[a]
      gotMem == Fits(a, pos1, size)
      pos2 == IF gotMem THEN Wrap(pos1 + size) ELSE pos1
  IN /\ a \in usable /\ b \in Arenas \ (usable \cup {Root})
     /\ cur' = IF gotStruct /\ gotMem THEN [cur EXCEPT ![a] = pos2, ![b] = 0]
                                      ELSE [cur EXCEPT ![a] = pos2]
     /\ IF gotStruct /\ gotMem
        THEN /\ mem' = [mem EXCEPT ![b] = mem[a] + pos1]
             /\ cap' = [cap EXCEPT ![b] = size]
             /\ path' = [path EXCEPT ![b] = path[a] \cup {b}]
             /\ usable' = usable \cup {b}
             /\ blocks' = blocks \cup NewBlocks(a, cur[a], header)
        ELSE UNCHANGED <<mem, cap, path, usable, blocks>>
     /\ UNCHANGED <<flags, resources>>

-----------------------------------------------------------------------------
Sizes == 0 .. MaxRequest

Next ==
  \/ \E contiguous, mallocd \in BOOLEAN : ua_create(contiguous, mallocd)
  \/ \E a \in Arenas : \/ ua_destroy(a)
                       \/ ua_free(a)
                       \/ \E size \in Sizes : \/ ua_alloc(a, size)
                                              \/ ua_falloc(a, size)
                                              \/ ua_reserve(a, size)
                                              \/ ua_pop(a, size)
                                              \/ ua_seek(a, size)
                       \/ \E b \in Arenas, existing \in BOOLEAN, size \in Sizes :
                            ua_bootstrap(a, b, existing, size)

Spec == Init /\ [][Next]_vars

-----------------------------------------------------------------------------
(* Every variable has its type.                                            *)
UaTypeOK ==
  /\ mem \in [Arenas -> Nat] /\ cap \in [Arenas -> Nat] /\ cur \in [Arenas -> Nat]
  /\ usable \in SUBSET Arenas /\ path \in [Arenas -> SUBSET Arenas]
  /\ blocks \in SUBSET [lo : Nat, hi : Nat, owner : Arenas]
  /\ flags \in [contiguous : BOOLEAN, mallocd : BOOLEAN]

Apart(lo1, hi1, lo2, hi2) == hi1 <= lo2 \/ hi2 <= lo1

(* No two blocks that clients hold share a byte, whichever arenas they     *)
(* come from and however positions were moved in between.                  *)
NoOverlap ==
  \A x, y \in blocks : x # y => Apart(x.lo, x.hi, y.lo, y.hi)

(* Every block lies inside the memory of the created arena.                *)
InsideMemory == \A x \in blocks : 0 <= x.lo /\ x.lo < x.hi /\ x.hi <= Cap

(* ua_destroy gives back what ua_create acquired, for each kind of arena.  *)
NothingLeaked == Root \notin usable => resources = {}

-----------------------------------------------------------------------------
(* The inductive invariant.                                                *)

PathsAgree ==
  /\ usable # {} => Root \in usable
  /\ \A a \in usable : a \in path[a] /\ path[a] \subseteq usable
  /\ \A a, b \in usable : a \in path[b] => path[a] \subseteq path[b]
  /\ \A a, b \in usable : a \in path[b] /\ b \in path[a] => a = b
  /\ \A a \in usable : cur[a] <= cap[a]
  /\ \A a \in usable : Root \in path[a]
  /\ Root \in usable => mem[Root] = 0 /\ cap[Root] = Cap

(* Two arenas are nested, the inner one below the position of the outer    *)
(* one, or they are apart.                                                 *)
ArenasNested ==
  \A a, b \in usable : a # b =>
    \/ a \in path[b] /\ mem[a] <= mem[b] /\ End(b) <= mem[a] + cur[a]
    \/ b \in path[a] /\ mem[b] <= mem[a] /\ End(a) <= mem[b] + cur[b]
    \/ a \notin path[b] /\ b \notin path[a] /\ Apart(mem[a], End(a), mem[b], End(b))

(* A block lies below the position of its owner, and away from every arena *)
(* its owner is not part of.                                               *)
BlocksPlaced ==
  \A x \in blocks :
    /\ x.owner \in usable
    /\ mem[x.owner] <= x.lo /\ x.lo < x.hi /\ x.hi <= mem[x.owner] + cur[x.owner]
    /\ \A b \in usable : b \notin path[x.owner] => Apart(x.lo, x.hi, mem[b], End(b))

ResourcesAgree == resources = IF Root \in usable THEN Acquired(flags) ELSE {}

UaInv == UaTypeOK /\ PathsAgree /\ ArenasNested /\ BlocksPlaced /\ NoOverlap
=============================================================================
