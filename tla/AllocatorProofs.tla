--------------------------- MODULE AllocatorProofs ---------------------------
(***************************************************************************)
(* For arenas of every size, any number of them, bootstrapped to any       *)
(* depth: no two blocks that clients hold overlap, and all lie inside the  *)
(* memory of the created arena.  For any tests, functions, sizes, threads  *)
(* and failing calls, and however often the benchmark program is started:  *)
(* the files of results hold what their names say, stay, and are all there *)
(* after a start without failures.                                         *)
(***************************************************************************)
EXTENDS UArena, Benchmarks, FiniteSetTheorems, SequenceTheorems, WellFoundedInduction, TLAPS

(* The arena.                                                              *)

(* Below the modulus the arithmetic of size_t is that of the numbers.      *)
LEMMA ModSmall ==
  ASSUME NEW n \in Nat, NEW m \in Nat, n < m
  PROVE  n % m = n
  BY SMT

(* A position plus a request does not wrap around, nor does one size.      *)
LEMMA WrapSmall ==
  ASSUME NEW n \in Nat, n <= Cap + MaxRequest
  PROVE  Wrap(n) = n
<1>1. SizeMod \in Nat /\ n < SizeMod
  BY SizesAssumption DEF SizeMod
<1> QED BY <1>1, ModSmall DEF Wrap

(* Every usable arena lies inside the created one.                         *)
LEMMA ArenaBounds ==
  ASSUME UaInv, NEW a \in usable
  PROVE  /\ a \in Arenas /\ mem[a] \in Nat /\ cap[a] \in Nat /\ cur[a] \in Nat
         /\ cur[a] <= cap[a] /\ End(a) <= Cap
<1>1. /\ a \in Arenas /\ mem[a] \in Nat /\ cap[a] \in Nat /\ cur[a] \in Nat
      /\ Root \in usable /\ Root \in Arenas
      /\ mem[Root] \in Nat /\ cap[Root] \in Nat /\ cur[Root] \in Nat
  BY RootAssumption DEF UaInv, UaTypeOK, PathsAgree
<1>2. cur[a] <= cap[a] /\ cur[Root] <= cap[Root] /\ mem[Root] = 0 /\ cap[Root] = Cap
      /\ Root \in path[a] /\ (a \in path[Root] => a = Root)
  BY <1>1 DEF UaInv, PathsAgree
<1>3. CASE a = Root
  BY <1>1, <1>2, <1>3, SizesAssumption DEF End
<1>4. CASE a # Root
  <2>1. End(a) <= mem[Root] + cur[Root]
    BY <1>1, <1>2, <1>4 DEF UaInv, ArenasNested
  <2> QED BY <2>1, <1>1, <1>2, SizesAssumption DEF End
<1> QED BY <1>3, <1>4

(* Memory above the position of an arena is away from every block, and     *)
(* from every arena it is not part of.                                     *)
LEMMA FreeMemory ==
  ASSUME UaInv, NEW a \in usable, NEW lo \in Nat, NEW hi \in Nat,
         mem[a] + cur[a] <= lo, hi <= End(a), lo <= hi
  PROVE  /\ \A x \in blocks : Apart(x.lo, x.hi, lo, hi)
         /\ \A b \in usable : b \notin path[a] => Apart(lo, hi, mem[b], End(b))
<1>0. /\ a \in Arenas /\ mem[a] \in Nat /\ cap[a] \in Nat /\ cur[a] \in Nat
      /\ \A b \in usable : /\ b \in Arenas /\ mem[b] \in Nat /\ cap[b] \in Nat
                           /\ cur[b] \in Nat /\ End(b) \in Nat /\ cur[b] <= cap[b]
      /\ \A x \in blocks : x.lo \in Nat /\ x.hi \in Nat
  BY DEF UaInv, UaTypeOK, PathsAgree, End
<1>1. ASSUME NEW x \in blocks PROVE Apart(x.lo, x.hi, lo, hi)
  <2> DEFINE o == x.owner
  <2>1. /\ o \in usable /\ x.hi <= mem[o] + cur[o] /\ x.lo < x.hi
        /\ a \notin path[o] => Apart(x.lo, x.hi, mem[a], End(a))
    BY DEF UaInv, BlocksPlaced
  <2>2. CASE a \notin path[o]
    BY <1>0, <2>1, <2>2 DEF Apart, End
  <2>3. CASE a = o
    BY <1>0, <2>1, <2>3 DEF Apart
  <2>4. CASE a \in path[o] /\ a # o
    <3>1. o \notin path[a]
      BY <2>1, <2>4 DEF UaInv, PathsAgree
    <3>2. End(o) <= mem[a] + cur[a]
      BY <2>1, <2>4, <3>1 DEF UaInv, ArenasNested
    <3>3. x.hi <= End(o)
      BY <1>0, <2>1 DEF End
    <3> QED BY <1>0, <2>1, <3>2, <3>3 DEF Apart
  <2> QED BY <2>2, <2>3, <2>4
<1>2. ASSUME NEW b \in usable, b \notin path[a] PROVE Apart(lo, hi, mem[b], End(b))
  <2>1. a # b
    BY <1>2 DEF UaInv, PathsAgree
  <2>2. \/ a \in path[b] /\ End(b) <= mem[a] + cur[a]
        \/ Apart(mem[a], End(a), mem[b], End(b))
    BY <1>2, <2>1 DEF UaInv, ArenasNested
  <2> QED BY <1>0, <2>2 DEF Apart
<1> QED BY <1>1, <1>2

(* A checked request that fits is one that fits without wrapping around.   *)
LEMMA FitsMeans ==
  ASSUME UaInv, NEW a \in usable, NEW pos \in Nat, pos <= cap[a],
         NEW size \in Sizes, Fits(a, pos, size)
  PROVE  pos + size <= cap[a] /\ Wrap(pos + size) = pos + size
<1>1. cap[a] \in Nat /\ mem[a] \in Nat /\ End(a) <= Cap
  BY ArenaBounds
<1>2. pos + size \in Nat /\ pos + size <= Cap + MaxRequest
  BY <1>1, SizesAssumption DEF Sizes, End
<1>3. Wrap(pos + size) = pos + size
  BY <1>2, WrapSmall
<1> QED BY <1>3 DEF Fits

-----------------------------------------------------------------------------
(* Handing out memory above the position keeps the invariant.              *)
LEMMA TakeStep ==
  ASSUME UaInv, NEW a \in usable, NEW size \in Sizes, cur[a] + size <= cap[a],
         Take(a, size)
  PROVE  UaInv'
<1> USE SizesAssumption DEF Sizes
<1>0. /\ a \in Arenas /\ mem[a] \in Nat /\ cap[a] \in Nat /\ cur[a] \in Nat
      /\ cur[a] <= cap[a] /\ End(a) <= Cap
  BY ArenaBounds
<1>1. Wrap(cur[a] + size) = cur[a] + size
  BY <1>0, WrapSmall DEF End
<1>2. cur' = [cur EXCEPT ![a] = cur[a] + size]
  BY <1>1 DEF Take
<1>3. UNCHANGED <<mem, cap, usable, path, flags>>
  BY DEF Take
<1>4. /\ cur' \in [Arenas -> Nat] /\ cur'[a] = cur[a] + size
      /\ \A b \in usable : cur[b] \in Nat /\ cur'[b] \in Nat /\ cur[b] <= cur'[b]
                           /\ cur'[b] <= cap[b] /\ (b # a => cur'[b] = cur[b])
  BY <1>0, <1>2 DEF UaInv, UaTypeOK, PathsAgree
<1> DEFINE N == Block(mem[a] + cur[a], size, a)
<1>5. /\ N.lo = mem[a] + cur[a] /\ N.hi = mem[a] + cur[a] + size /\ N.owner = a
      /\ N \in [lo : Nat, hi : Nat, owner : Arenas]
  BY <1>0 DEF Block
<1>6. /\ \A x \in blocks : Apart(x.lo, x.hi, N.lo, N.hi)
      /\ \A b \in usable : b \notin path[a] => Apart(N.lo, N.hi, mem[b], End(b))
  BY <1>0, <1>5, FreeMemory DEF End
<1>7. \A x \in blocks' : x \in blocks \/ (x = N /\ N.lo < N.hi)
  BY <1>0, <1>5 DEF Take, NewBlocks
<1>8. UaTypeOK'
  BY <1>3, <1>4, <1>5, <1>7 DEF UaInv, UaTypeOK
<1>9. PathsAgree'
  BY <1>3, <1>4 DEF UaInv, PathsAgree
<1>10. ArenasNested'
  <2> SUFFICES ASSUME NEW b \in usable, NEW c \in usable, b # c
               PROVE  \/ b \in path[c] /\ mem[b] <= mem[c] /\ End(c) <= mem[b] + cur'[b]
                      \/ c \in path[b] /\ mem[c] <= mem[b] /\ End(b) <= mem[c] + cur'[c]
                      \/ b \notin path[c] /\ c \notin path[b]
                           /\ Apart(mem[b], End(b), mem[c], End(c))
    BY <1>3 DEF ArenasNested, End
  <2>1. /\ mem[b] \in Nat /\ mem[c] \in Nat /\ End(b) \in Nat /\ End(c) \in Nat
        /\ cur[b] \in Nat /\ cur[c] \in Nat /\ cur'[b] \in Nat /\ cur'[c] \in Nat
        /\ cur[b] <= cur'[b] /\ cur[c] <= cur'[c]
    BY <1>4 DEF UaInv, UaTypeOK, End
  <2> QED BY <2>1 DEF UaInv, ArenasNested
<1>11. BlocksPlaced'
  <2> SUFFICES ASSUME NEW x \in blocks'
               PROVE  /\ x.owner \in usable /\ mem[x.owner] <= x.lo /\ x.lo < x.hi
                      /\ x.hi <= mem[x.owner] + cur'[x.owner]
                      /\ \A b \in usable : b \notin path[x.owner]
                                             => Apart(x.lo, x.hi, mem[b], End(b))
    BY <1>3 DEF BlocksPlaced, End
  <2>1. CASE x \in blocks
    <3>1. /\ x.owner \in usable /\ mem[x.owner] <= x.lo /\ x.lo < x.hi
          /\ x.hi <= mem[x.owner] + cur[x.owner]
          /\ \A b \in usable : b \notin path[x.owner]
                                 => Apart(x.lo, x.hi, mem[b], End(b))
      BY <2>1 DEF UaInv, BlocksPlaced
    <3>2. /\ x.hi \in Nat /\ mem[x.owner] \in Nat /\ cur[x.owner] \in Nat
          /\ cur'[x.owner] \in Nat /\ cur[x.owner] <= cur'[x.owner]
      BY <1>4, <2>1, <3>1 DEF UaInv, UaTypeOK
    <3> QED BY <3>1, <3>2
  <2>2. CASE x = N /\ N.lo < N.hi
    <3>1. /\ x.owner = a /\ x.lo = mem[a] + cur[a] /\ x.hi = mem[a] + cur[a] + size
          /\ x.lo < x.hi
      BY <1>5, <2>2
    <3>2. mem[a] <= x.lo /\ x.hi <= mem[a] + cur'[a]
      BY <1>0, <1>4, <3>1
    <3>3. \A b \in usable : b \notin path[a] => Apart(x.lo, x.hi, mem[b], End(b))
      BY <1>6, <2>2
    <3> QED BY <3>1, <3>2, <3>3
  <2> QED BY <1>7, <2>1, <2>2
<1>12. NoOverlap'
  BY <1>6, <1>7, <1>5, <1>0 DEF UaInv, UaTypeOK, NoOverlap, Apart
<1> QED BY <1>8, <1>9, <1>10, <1>11, <1>12 DEF UaInv

(* Moving the position, with everything above it given up, keeps it.       *)
LEMMA MoveStep ==
  ASSUME UaInv, NEW a \in usable, NEW pos \in Nat, pos <= cap[a], MoveTo(a, pos)
  PROVE  UaInv'
<1>0. /\ a \in Arenas /\ mem[a] \in Nat /\ cap[a] \in Nat /\ cur[a] \in Nat
  BY ArenaBounds
<1>1. UNCHANGED <<mem, cap, path, flags>>
  BY DEF MoveTo
<1>2. /\ cur' \in [Arenas -> Nat] /\ cur'[a] = pos
      /\ \A b \in Arenas : b # a => cur'[b] = cur[b]
  BY <1>0 DEF MoveTo, UaInv, UaTypeOK
<1>3. /\ usable' \subseteq usable
      /\ \A b \in usable' : path[b] \cap Lost(a, pos) = {}
      /\ \A b \in usable : path[b] \cap Lost(a, pos) = {} => b \in usable'
  BY DEF MoveTo, Remaining
<1>4. \A b \in usable' : a \in path[b] /\ b # a => End(b) <= mem[a] + pos
  <2> SUFFICES ASSUME NEW b \in usable', a \in path[b], b # a
               PROVE  End(b) <= mem[a] + pos
    OBVIOUS
  <2>1. b \in path[b] /\ b \notin Lost(a, pos) /\ b \in usable
    BY <1>3 DEF UaInv, PathsAgree
  <2>2. End(b) \in Nat
    BY <2>1 DEF UaInv, UaTypeOK, End
  <2> QED BY <1>0, <2>1, <2>2 DEF Lost
<1>5. \A b \in usable' : path[b] \subseteq usable'
  <2> SUFFICES ASSUME NEW b \in usable', NEW c \in path[b] PROVE c \in usable'
    OBVIOUS
  <2>1. c \in usable /\ path[c] \subseteq path[b]
    BY <1>3 DEF UaInv, PathsAgree
  <2> QED BY <1>3, <2>1
<1>6. usable' # {} => Root \in usable'
  BY <1>3, <1>5 DEF UaInv, PathsAgree
<1>7. /\ blocks' \subseteq blocks
      /\ \A x \in blocks' : x.owner \in usable'
      /\ \A x \in blocks' : a \in path[x.owner] => x.hi <= mem[a] + pos
  BY DEF MoveTo
<1>8. UaTypeOK'
  BY <1>1, <1>2, <1>3, <1>7 DEF UaInv, UaTypeOK
<1>9. PathsAgree'
  BY <1>0, <1>1, <1>2, <1>3, <1>5, <1>6 DEF UaInv, UaTypeOK, PathsAgree
<1>10. ArenasNested'
  <2> SUFFICES ASSUME NEW b \in usable', NEW c \in usable', b # c
               PROVE  \/ b \in path[c] /\ mem[b] <= mem[c] /\ End(c) <= mem[b] + cur'[b]
                      \/ c \in path[b] /\ mem[c] <= mem[b] /\ End(b) <= mem[c] + cur'[c]
                      \/ b \notin path[c] /\ c \notin path[b]
                           /\ Apart(mem[b], End(b), mem[c], End(c))
    BY <1>1 DEF ArenasNested, End
  <2>1. b \in usable /\ c \in usable /\ b \in Arenas /\ c \in Arenas
    BY <1>3 DEF UaInv, UaTypeOK
  <2>2. (b # a => cur'[b] = cur[b]) /\ (c # a => cur'[c] = cur[c])
    BY <1>2, <2>1
  <2>3. /\ b = a /\ b \in path[c] => End(c) <= mem[b] + cur'[b]
        /\ c = a /\ c \in path[b] => End(b) <= mem[c] + cur'[c]
    BY <1>2, <1>4
  <2> QED BY <2>1, <2>2, <2>3 DEF UaInv, ArenasNested
<1>11. BlocksPlaced'
  <2> SUFFICES ASSUME NEW x \in blocks'
               PROVE  /\ x.owner \in usable' /\ mem[x.owner] <= x.lo /\ x.lo < x.hi
                      /\ x.hi <= mem[x.owner] + cur'[x.owner]
                      /\ \A b \in usable' : b \notin path[x.owner]
                                             => Apart(x.lo, x.hi, mem[b], End(b))
    BY <1>1 DEF BlocksPlaced, End
  <2>0. x \in blocks /\ x.owner \in usable' /\ x.owner \in usable
    BY <1>3, <1>7
  <2>9. a \in path[x.owner] => x.hi <= mem[a] + pos
    BY <1>7
  <2>1. /\ mem[x.owner] <= x.lo /\ x.lo < x.hi /\ x.hi <= mem[x.owner] + cur[x.owner]
        /\ \A b \in usable : b \notin path[x.owner] => Apart(x.lo, x.hi, mem[b], End(b))
    BY <2>0 DEF UaInv, BlocksPlaced
  <2>2. x.owner \in path[x.owner] /\ x.owner \in Arenas
    BY <2>0 DEF UaInv, UaTypeOK, PathsAgree
  <2>3. x.hi <= mem[x.owner] + cur'[x.owner]
    <3>1. CASE x.owner = a
      BY <1>2, <2>9, <2>2, <3>1
    <3>2. CASE x.owner # a
      BY <1>2, <2>1, <2>2, <3>2
    <3> QED BY <3>1, <3>2
  <2>4. \A b \in usable' : b \notin path[x.owner] => Apart(x.lo, x.hi, mem[b], End(b))
    BY <1>3, <2>1
  <2> QED BY <2>0, <2>1, <2>3, <2>4
<1>12. NoOverlap'
  BY <1>7 DEF UaInv, NoOverlap
<1> QED BY <1>8, <1>9, <1>10, <1>11, <1>12 DEF UaInv

(* Moving the position up gives up nothing.                                *)
LEMMA RaiseIsMove ==
  ASSUME UaInv, NEW a \in usable, NEW pos \in Nat, cur[a] <= pos
  PROVE  /\ Remaining(a, pos) = usable
         /\ blocks = {x \in blocks : /\ x.owner \in Remaining(a, pos)
                                     /\ a \in path[x.owner] => x.hi <= mem[a] + pos}
<1>0. /\ mem[a] \in Nat /\ cur[a] \in Nat
      /\ \A b \in usable : mem[b] \in Nat /\ cap[b] \in Nat /\ cur[b] \in Nat
                           /\ End(b) \in Nat /\ cur[b] <= cap[b]
  BY DEF UaInv, UaTypeOK, PathsAgree, End
<1>1. \A b \in usable : b # a /\ a \in path[b] => End(b) <= mem[a] + cur[a]
  BY DEF UaInv, PathsAgree, ArenasNested
<1>2. Lost(a, pos) = {}
  BY <1>0, <1>1 DEF Lost
<1>3. Remaining(a, pos) = usable
  BY <1>2 DEF Remaining
<1>4. ASSUME NEW x \in blocks, a \in path[x.owner] PROVE x.hi <= mem[a] + pos
  <2>1. x.owner \in usable /\ x.hi <= mem[x.owner] + cur[x.owner] /\ x.hi \in Nat
    BY DEF UaInv, UaTypeOK, BlocksPlaced
  <2>2. CASE x.owner = a
    BY <1>0, <2>1, <2>2
  <2>3. CASE x.owner # a
    BY <1>0, <1>1, <1>4, <2>1, <2>3 DEF End
  <2> QED BY <2>2, <2>3
<1>5. \A x \in blocks : x.owner \in Remaining(a, pos)
  BY <1>3 DEF UaInv, BlocksPlaced
<1> QED BY <1>3, <1>4, <1>5

(* Carving an arena out of another keeps it, whether it succeeds or leaves *)
(* the position moved.                                                     *)
LEMMA BootstrapStep ==
  ASSUME UaInv, NEW a \in Arenas, NEW b \in Arenas, NEW existing \in BOOLEAN,
         NEW size \in Sizes, ua_bootstrap(a, b, existing, size)
  PROVE  UaInv'
<1> DEFINE header == IF existing THEN 0 ELSE StructSize
           gotStruct == existing \/ Fits(a, cur[a], header)
           pos1 == IF gotStruct THEN Wrap(cur[a] + header) ELSE cur[a]
           gotMem == Fits(a, pos1, size)
           pos2 == IF gotMem THEN Wrap(pos1 + size) ELSE pos1
<1> USE SizesAssumption DEF Sizes
<1>1. a \in usable /\ b \in Arenas /\ b \notin usable /\ b # Root /\ a # b
  BY DEF ua_bootstrap
<1>2. /\ mem[a] \in Nat /\ cap[a] \in Nat /\ cur[a] \in Nat
      /\ cur[a] <= cap[a] /\ End(a) <= Cap
  BY <1>1, ArenaBounds
<1>3. header \in Sizes /\ (existing => header = 0)
  OBVIOUS
<1>4. /\ pos1 \in Nat /\ cur[a] <= pos1 /\ pos1 <= cap[a]
      /\ gotStruct => pos1 = cur[a] + header
  <2>1. CASE existing
    BY <1>2, <2>1, WrapSmall DEF End
  <2>2. CASE ~existing /\ Fits(a, cur[a], header)
    <3>1. cur[a] + header <= cap[a] /\ Wrap(cur[a] + header) = cur[a] + header
      BY <1>1, <1>2, <1>3, <2>2, FitsMeans
    <3> QED BY <1>2, <2>2, <3>1
  <2>3. CASE ~gotStruct
    BY <1>2, <2>3
  <2> QED BY <2>1, <2>2, <2>3
<1>5. /\ pos2 \in Nat /\ pos1 <= pos2 /\ pos2 <= cap[a]
      /\ gotMem => pos2 = pos1 + size
  <2> HIDE DEF pos1
  <2>1. CASE gotMem
    <3>1. pos1 + size <= cap[a] /\ Wrap(pos1 + size) = pos1 + size
      BY <1>1, <1>2, <1>4, <2>1, FitsMeans
    <3> QED BY <1>2, <1>4, <2>1, <3>1
  <2>2. CASE ~gotMem
    BY <1>2, <1>4, <2>2
  <2> QED BY <2>1, <2>2
<1>6. /\ cur' = IF gotStruct /\ gotMem THEN [cur EXCEPT ![a] = pos2, ![b] = 0]
                                      ELSE [cur EXCEPT ![a] = pos2]
      /\ gotStruct /\ gotMem =>
           /\ mem' = [mem EXCEPT ![b] = mem[a] + pos1]
           /\ cap' = [cap EXCEPT ![b] = size]
           /\ path' = [path EXCEPT ![b] = path[a] \cup {b}]
           /\ usable' = usable \cup {b}
           /\ blocks' = blocks \cup NewBlocks(a, cur[a], header)
      /\ ~(gotStruct /\ gotMem) => UNCHANGED <<mem, cap, path, usable, blocks>>
      /\ flags' = flags
  BY DEF ua_bootstrap
<1> HIDE DEF header, gotStruct, pos1, gotMem, pos2
<1>7. CASE ~(gotStruct /\ gotMem)
  <2>1. /\ cur' = [cur EXCEPT ![a] = pos2]
        /\ UNCHANGED <<mem, cap, path, usable, blocks, flags>>
    BY <1>6, <1>7
  <2>2. resources' = resources
    BY DEF ua_bootstrap
  <2>3. cur[a] <= pos2
    BY <1>2, <1>4, <1>5
  <2>4. /\ Remaining(a, pos2) = usable
        /\ blocks = {x \in blocks : /\ x.owner \in Remaining(a, pos2)
                                    /\ a \in path[x.owner] => x.hi <= mem[a] + pos2}
    BY <1>1, <1>5, <2>3, RaiseIsMove
  <2>5. MoveTo(a, pos2)
    BY <2>1, <2>2, <2>4 DEF MoveTo
  <2> QED BY <1>1, <1>5, <2>5, MoveStep
<1>8. CASE gotStruct /\ gotMem
  <2> DEFINE m == mem[a] + pos1
             e == mem[a] + pos2
             H == Block(mem[a] + cur[a], header, a)
  <2>1. /\ m \in Nat /\ e \in Nat /\ e = m + size /\ m <= e
        /\ mem[a] + cur[a] <= m /\ e <= End(a)
        /\ mem[a] + cur[a] + header = m /\ header \in Nat
    BY <1>2, <1>3, <1>4, <1>5, <1>8 DEF End
  <2>2. /\ usable' = usable \cup {b} /\ flags' = flags
        /\ mem' \in [Arenas -> Nat] /\ cap' \in [Arenas -> Nat] /\ cur' \in [Arenas -> Nat]
        /\ path' \in [Arenas -> SUBSET Arenas]
        /\ mem'[b] = m /\ cap'[b] = size /\ cur'[b] = 0 /\ path'[b] = path[a] \cup {b}
        /\ cur'[a] = pos2
    BY <1>1, <1>2, <1>4, <1>5, <1>6, <1>8 DEF UaInv, UaTypeOK
  <2>3. \A c \in usable : /\ c \in Arenas /\ c # b
                          /\ mem'[c] = mem[c] /\ cap'[c] = cap[c] /\ path'[c] = path[c]
                          /\ c # a => cur'[c] = cur[c]
                          /\ mem[c] \in Nat /\ cap[c] \in Nat /\ cur[c] \in Nat
                          /\ b \notin path[c] /\ cur[c] <= cap[c]
    BY <1>1, <1>2, <1>4, <1>5, <1>6, <1>8 DEF UaInv, UaTypeOK, PathsAgree
  <2>4. \A c \in usable : /\ End(c) \in Nat /\ cur[c] <= cur'[c] /\ cur'[c] <= cap[c]
                          /\ End(c)' = End(c) /\ cur'[c] \in Nat
    BY <1>2, <1>4, <1>5, <2>2, <2>3 DEF End
  <2>5. End(b)' = e
    BY <2>1, <2>2 DEF End
  <2>6. /\ \A x \in blocks : Apart(x.lo, x.hi, m, e)
        /\ \A c \in usable : c \notin path[a] => Apart(m, e, mem[c], End(c))
    BY <1>1, <2>1, FreeMemory
  <2>7. /\ H.lo = mem[a] + cur[a] /\ H.hi = m /\ H.owner = a
        /\ H \in [lo : Nat, hi : Nat, owner : Arenas]
    BY <1>1, <1>2, <2>1 DEF Block
  <2>8. /\ \A x \in blocks : Apart(x.lo, x.hi, H.lo, H.hi)
        /\ \A c \in usable : c \notin path[a] => Apart(H.lo, H.hi, mem[c], End(c))
    <3>1. H.lo \in Nat /\ H.hi \in Nat /\ mem[a] + cur[a] <= H.lo /\ H.hi <= End(a)
          /\ H.lo <= H.hi
      BY <1>1, <1>2, <2>1, <2>4, <2>7
    <3> HIDE DEF H
    <3> QED BY <1>1, <3>1, FreeMemory
  <2>9. \A x \in blocks' : x \in blocks \/ (x = H /\ H.lo < H.hi)
    BY <1>2, <1>6, <1>8, <2>1, <2>7 DEF NewBlocks
  <2>10. \A c \in path[a] : c \in usable /\ mem[c] <= m /\ e <= mem[c] + cur'[c]
    <3> SUFFICES ASSUME NEW c \in path[a]
                 PROVE  c \in usable /\ mem[c] <= m /\ e <= mem[c] + cur'[c]
      OBVIOUS
    <3>1. c \in usable /\ (a \in path[c] => a = c)
      BY <1>1 DEF UaInv, PathsAgree
    <3>2. CASE c = a
      BY <1>2, <1>4, <1>5, <2>2, <3>1, <3>2
    <3>3. CASE c # a
      <4>1. mem[c] <= mem[a] /\ End(a) <= mem[c] + cur[c]
        BY <1>1, <3>1, <3>3 DEF UaInv, ArenasNested
      <4> QED BY <1>1, <1>2, <1>4, <2>1, <2>3, <2>4, <3>1, <3>3, <4>1
    <3> QED BY <3>2, <3>3
  <2> HIDE DEF m, e, H
  <2>11. UaTypeOK'
    BY <1>1, <2>2, <2>7, <2>9 DEF UaInv, UaTypeOK
  <2>12. PathsAgree'
    <3>1. (usable' # {} => Root \in usable') /\ \A c \in usable' : Root \in path'[c]
      BY <1>1, <2>2, <2>3 DEF UaInv, PathsAgree
    <3>2. \A c \in usable' : c \in path'[c] /\ path'[c] \subseteq usable'
      BY <1>1, <2>2, <2>3 DEF UaInv, PathsAgree
    <3>3. \A c, d \in usable' : c \in path'[d] => path'[c] \subseteq path'[d]
      <4> SUFFICES ASSUME NEW c \in usable', NEW d \in usable', c \in path'[d]
                   PROVE  path'[c] \subseteq path'[d]
        OBVIOUS
      <4>1. CASE c = b
        BY <2>2, <2>3, <4>1
      <4>2. CASE c # b /\ d = b
        <5>1. c \in usable /\ c \in path[a]
          BY <2>2, <4>2
        <5>2. path[c] \subseteq path[a]
          BY <1>1, <5>1 DEF UaInv, PathsAgree
        <5>3. path'[c] = path[c] /\ path'[d] = path[a] \cup {b}
          BY <2>2, <2>3, <4>2, <5>1
        <5> QED BY <5>2, <5>3
      <4>3. CASE c # b /\ d # b
        BY <2>2, <2>3, <4>3 DEF UaInv, PathsAgree
      <4> QED BY <4>1, <4>2, <4>3
    <3>4. \A c, d \in usable' : c \in path'[d] /\ d \in path'[c] => c = d
      BY <2>2, <2>3 DEF UaInv, PathsAgree
    <3>5. \A c \in usable' : cur'[c] <= cap'[c]
      BY <2>2, <2>3, <2>4
    <3>6. Root \in usable' => mem'[Root] = 0 /\ cap'[Root] = Cap
      BY <1>1, <2>2, <2>3 DEF UaInv, PathsAgree
    <3> QED BY <3>1, <3>2, <3>3, <3>4, <3>5, <3>6 DEF PathsAgree
  <2>13. ArenasNested'
    <3> DEFINE Related(c, d) ==
          \/ c \in path'[d] /\ mem'[c] <= mem'[d] /\ End(d)' <= mem'[c] + cur'[c]
          \/ d \in path'[c] /\ mem'[d] <= mem'[c] /\ End(c)' <= mem'[d] + cur'[d]
          \/ c \notin path'[d] /\ d \notin path'[c]
               /\ Apart(mem'[c], End(c)', mem'[d], End(d)')
    <3>1. ASSUME NEW c \in usable, NEW d \in usable, c # d PROVE Related(c, d)
      <4>1. \/ c \in path[d] /\ mem[c] <= mem[d] /\ End(d) <= mem[c] + cur[c]
            \/ d \in path[c] /\ mem[d] <= mem[c] /\ End(c) <= mem[d] + cur[d]
            \/ c \notin path[d] /\ d \notin path[c]
                 /\ Apart(mem[c], End(c), mem[d], End(d))
        BY <3>1 DEF UaInv, ArenasNested
      <4>2. /\ mem'[c] = mem[c] /\ mem'[d] = mem[d] /\ path'[c] = path[c]
            /\ path'[d] = path[d] /\ End(c)' = End(c) /\ End(d)' = End(d)
            /\ cur[c] <= cur'[c] /\ cur[d] <= cur'[d]
            /\ mem[c] \in Nat /\ mem[d] \in Nat /\ cur[c] \in Nat /\ cur[d] \in Nat
            /\ cur'[c] \in Nat /\ cur'[d] \in Nat /\ End(c) \in Nat /\ End(d) \in Nat
        BY <2>3, <2>4
      <4> QED BY <4>1, <4>2
    <3>2. ASSUME NEW c \in usable PROVE Related(c, b) /\ Related(b, c)
      <4>1. /\ mem'[c] = mem[c] /\ path'[c] = path[c] /\ End(c)' = End(c)
            /\ b \notin path[c] /\ c # b /\ mem[c] \in Nat /\ End(c) \in Nat
        BY <2>3, <2>4
      <4>2. CASE c \in path[a]
        BY <2>2, <2>5, <2>10, <4>1, <4>2
      <4>3. CASE c \notin path[a]
        <5>1. Apart(m, e, mem[c], End(c)) /\ Apart(mem[c], End(c), m, e)
          BY <2>6, <4>3 DEF Apart
        <5> QED BY <2>2, <2>5, <4>1, <4>3, <5>1
      <4> QED BY <4>2, <4>3
    <3>3. \A c, d \in usable' : c # d => Related(c, d)
      <4> HIDE DEF Related
      <4> QED BY <2>2, <3>1, <3>2
    <3> QED BY <3>3 DEF ArenasNested
  <2>14. BlocksPlaced'
    <3> SUFFICES ASSUME NEW x \in blocks'
                 PROVE  /\ x.owner \in usable' /\ mem'[x.owner] <= x.lo /\ x.lo < x.hi
                        /\ x.hi <= mem'[x.owner] + cur'[x.owner]
                        /\ \A c \in usable' : c \notin path'[x.owner]
                                               => Apart(x.lo, x.hi, mem'[c], End(c)')
      BY DEF BlocksPlaced
    <3>1. CASE x \in blocks
      <4>1. /\ x.owner \in usable /\ mem[x.owner] <= x.lo /\ x.lo < x.hi
            /\ x.hi <= mem[x.owner] + cur[x.owner] /\ x.hi \in Nat /\ x.lo \in Nat
            /\ \A c \in usable : c \notin path[x.owner]
                                   => Apart(x.lo, x.hi, mem[c], End(c))
        BY <3>1 DEF UaInv, UaTypeOK, BlocksPlaced
      <4>2. x.hi <= mem'[x.owner] + cur'[x.owner] /\ mem'[x.owner] = mem[x.owner]
            /\ path'[x.owner] = path[x.owner]
        BY <2>3, <2>4, <4>1
      <4>3. ASSUME NEW c \in usable', c \notin path'[x.owner]
            PROVE  Apart(x.lo, x.hi, mem'[c], End(c)')
        <5>1. CASE c = b
          BY <2>2, <2>5, <2>6, <3>1, <5>1
        <5>2. CASE c \in usable
          BY <2>3, <2>4, <4>1, <4>2, <4>3, <5>2
        <5> QED BY <2>2, <5>1, <5>2
      <4> QED BY <2>2, <4>1, <4>2, <4>3
    <3>2. CASE x = H /\ H.lo < H.hi
      <4>1. /\ x.owner = a /\ x.lo = mem[a] + cur[a] /\ x.hi = m /\ x.lo < x.hi
        BY <2>7, <3>2
      <4>2. mem'[a] = mem[a] /\ path'[a] = path[a] /\ a \in usable'
        BY <1>1, <2>2, <2>3
      <4>3. mem[a] <= x.lo /\ x.hi <= mem[a] + cur'[a]
        BY <1>2, <1>5, <1>4, <2>2, <4>1 DEF m
      <4>4. ASSUME NEW c \in usable', c \notin path'[a]
            PROVE  Apart(x.lo, x.hi, mem'[c], End(c)')
        <5>1. CASE c = b
          BY <2>1, <2>2, <2>5, <4>1, <5>1 DEF Apart
        <5>2. CASE c \in usable
          BY <2>3, <2>4, <2>7, <2>8, <4>1, <4>2, <4>4, <5>2
        <5> QED BY <2>2, <5>1, <5>2
      <4> QED BY <4>1, <4>2, <4>3, <4>4
    <3> QED BY <2>9, <3>1, <3>2
  <2>15. NoOverlap'
    BY <2>7, <2>8, <2>9 DEF UaInv, UaTypeOK, NoOverlap, Apart
  <2> QED BY <2>11, <2>12, <2>13, <2>14, <2>15 DEF UaInv
<1> QED BY <1>7, <1>8

-----------------------------------------------------------------------------
(* A program starts with no arena, no block and nothing acquired.          *)
LEMMA UaInitInv == Init => UaInv
<1> SUFFICES ASSUME Init PROVE UaInv
  OBVIOUS
<1>1. UaTypeOK
  BY DEF Init, UaTypeOK
<1>2. PathsAgree /\ ArenasNested /\ BlocksPlaced /\ NoOverlap
  BY RootAssumption DEF Init, PathsAgree, ArenasNested, BlocksPlaced, NoOverlap
<1> QED BY <1>1, <1>2 DEF UaInv

(* Every operation of the allocator keeps the invariant.                   *)
LEMMA UaStepInv == UaInv /\ [Next]_vars => UaInv'
<1> SUFFICES ASSUME UaInv, [Next]_vars PROVE UaInv'
  OBVIOUS
<1>1. ASSUME NEW contiguous \in BOOLEAN, NEW mallocd \in BOOLEAN,
             ua_create(contiguous, mallocd)
      PROVE  UaInv'
  <2>1. usable = {} /\ blocks = {}
    BY <1>1 DEF ua_create, UaInv, PathsAgree, BlocksPlaced
  <2>2. UaTypeOK'
    BY <1>1, <2>1, RootAssumption, SizesAssumption DEF ua_create, UaInv, UaTypeOK
  <2>3. /\ usable' = {Root} /\ blocks' = {} /\ mem'[Root] = 0 /\ cap'[Root] = Cap
        /\ cur'[Root] = 0 /\ path'[Root] = {Root}
    BY <1>1, <2>1, RootAssumption DEF ua_create, UaInv, UaTypeOK
  <2>4. PathsAgree' /\ ArenasNested' /\ BlocksPlaced' /\ NoOverlap'
    BY <2>3, SizesAssumption DEF PathsAgree, ArenasNested, BlocksPlaced, NoOverlap
  <2> QED BY <2>2, <2>4 DEF UaInv
<1>2. ASSUME NEW a \in Arenas, ua_destroy(a) PROVE UaInv'
  BY <1>2 DEF ua_destroy, UaInv, UaTypeOK, PathsAgree, ArenasNested, BlocksPlaced,
              NoOverlap
<1>3. ASSUME NEW a \in Arenas, ua_free(a) PROVE UaInv'
  <2>1. a \in usable /\ cap[a] \in Nat /\ MoveTo(a, 0)
    BY <1>3 DEF ua_free, UaInv, UaTypeOK
  <2> QED BY <2>1, MoveStep
<1>4. ASSUME NEW a \in Arenas, NEW size \in Sizes,
             ua_alloc(a, size) \/ ua_reserve(a, size)
      PROVE  UaInv'
  <2>1. a \in usable /\ Fits(a, cur[a], size) /\ Take(a, size)
    BY <1>4 DEF ua_alloc, ua_reserve
  <2>2. cur[a] \in Nat /\ cur[a] <= cap[a]
    BY <2>1, ArenaBounds
  <2>3. cur[a] + size <= cap[a]
    BY <2>1, <2>2, FitsMeans
  <2> QED BY <2>1, <2>3, TakeStep
<1>5. ASSUME NEW a \in Arenas, NEW size \in Sizes, ua_falloc(a, size) PROVE UaInv'
  BY <1>5, TakeStep DEF ua_falloc
<1>6. ASSUME NEW a \in Arenas, NEW size \in Sizes, ua_pop(a, size) PROVE UaInv'
  <2>1. a \in usable /\ Signed(cur[a]) - Signed(size) >= 0
        /\ MoveTo(a, Wrap(cur[a] - size))
    BY <1>6 DEF ua_pop
  <2>2. /\ cur[a] \in Nat /\ cap[a] \in Nat /\ mem[a] \in Nat
        /\ cur[a] <= cap[a] /\ End(a) <= Cap
    BY <2>1, ArenaBounds
  <2>3. Signed(cur[a]) = cur[a] /\ Signed(size) = size
    BY <2>2, SizesAssumption DEF Signed, Sizes, End
  <2>4. cur[a] - size \in Nat /\ cur[a] - size <= Cap + MaxRequest
        /\ cur[a] - size <= cap[a]
    BY <2>1, <2>2, <2>3, SizesAssumption DEF Sizes, End
  <2>5. Wrap(cur[a] - size) = cur[a] - size
    BY <2>4, WrapSmall
  <2> QED BY <2>1, <2>4, <2>5, MoveStep
<1>7. ASSUME NEW a \in Arenas, NEW pos \in Sizes, ua_seek(a, pos) PROVE UaInv'
  <2>1. a \in usable /\ pos \in Nat /\ pos <= cap[a] /\ MoveTo(a, pos)
    BY <1>7 DEF ua_seek, Sizes
  <2> QED BY <2>1, MoveStep
<1>8. CASE UNCHANGED vars
  BY <1>8 DEF vars, UaInv, UaTypeOK, PathsAgree, ArenasNested, BlocksPlaced, NoOverlap,
              End
<1> QED BY <1>1, <1>2, <1>3, <1>4, <1>5, <1>6, <1>7, <1>8, BootstrapStep DEF Next

(* UaInv is an invariant of the arena allocator: arenas are nested or      *)
(* apart, and blocks lie below the position of their owner.                *)
THEOREM UaInvariant == Spec => []UaInv
<1> QED BY UaInitInv, UaStepInv, PTL DEF Spec

(* Whatever sequence of operations the clients of u_arena.c perform, no    *)
(* two blocks they hold overlap.                                           *)
THEOREM BlocksNeverOverlap == Spec => []NoOverlap
<1>1. UaInv => NoOverlap
  BY DEF UaInv
<1> QED BY <1>1, UaInvariant, PTL

(* Every block lies inside the memory that ua_create obtained.             *)
THEOREM BlocksInsideMemory == Spec => []InsideMemory
<1>1. UaInv => InsideMemory
  <2> SUFFICES ASSUME UaInv, NEW x \in blocks
               PROVE  0 <= x.lo /\ x.lo < x.hi /\ x.hi <= Cap
    BY DEF InsideMemory
  <2>1. /\ x.owner \in usable /\ x.lo \in Nat /\ x.hi \in Nat /\ x.lo < x.hi
        /\ x.hi <= mem[x.owner] + cur[x.owner]
    BY DEF UaInv, UaTypeOK, BlocksPlaced
  <2>2. /\ mem[x.owner] \in Nat /\ cap[x.owner] \in Nat /\ cur[x.owner] \in Nat
        /\ cur[x.owner] <= cap[x.owner] /\ End(x.owner) <= Cap
    BY <2>1, ArenaBounds
  <2> QED BY <2>1, <2>2, SizesAssumption DEF End
<1> QED BY <1>1, UaInvariant, PTL

(* What ua_destroy gives back is what ua_create acquired.                  *)
THEOREM DestroyReleasesAll == Spec => []NothingLeaked
<1>1. Init => ResourcesAgree
  BY DEF Init, ResourcesAgree
<1>2. UaInv /\ ResourcesAgree /\ [Next]_vars => ResourcesAgree'
  <2> SUFFICES ASSUME UaInv, ResourcesAgree, [Next]_vars PROVE ResourcesAgree'
    OBVIOUS
  <2>1. ASSUME NEW contiguous \in BOOLEAN, NEW mallocd \in BOOLEAN,
               ua_create(contiguous, mallocd)
        PROVE  ResourcesAgree'
    BY <2>1 DEF ua_create, ResourcesAgree
  <2>2. ASSUME NEW a \in Arenas, ua_destroy(a) PROVE ResourcesAgree'
    <3>1. flags.contiguous \in BOOLEAN /\ flags.mallocd \in BOOLEAN
      BY DEF UaInv, UaTypeOK
    <3>2. Acquired(flags) \ Released(flags) = {}
      BY <3>1 DEF Acquired, Released
    <3> QED BY <2>2, <3>2 DEF ua_destroy, ResourcesAgree
  <2>3. ASSUME NEW a \in usable, NEW pos, MoveTo(a, pos) PROVE ResourcesAgree'
    <3>1. path[Root] \cap Lost(a, pos) = {} /\ Root \in usable
      BY DEF UaInv, PathsAgree, Lost
    <3>2. Root \in usable'
      BY <2>3, <3>1 DEF MoveTo, Remaining
    <3> QED BY <2>3, <3>1, <3>2 DEF MoveTo, ResourcesAgree
  <2>4. ASSUME NEW a, NEW size, Take(a, size) PROVE ResourcesAgree'
    BY <2>4 DEF Take, ResourcesAgree
  <2>5. ASSUME NEW a \in Arenas, NEW b \in Arenas, NEW existing \in BOOLEAN,
               NEW size \in Sizes, ua_bootstrap(a, b, existing, size)
        PROVE  ResourcesAgree'
    <3>1. /\ resources' = resources /\ flags' = flags /\ b # Root
          /\ usable' = usable \/ usable' = usable \cup {b}
      BY <2>5 DEF ua_bootstrap
    <3> QED BY <3>1 DEF ResourcesAgree
  <2>6. CASE UNCHANGED vars
    BY <2>6 DEF vars, ResourcesAgree
  <2> QED BY <2>1, <2>2, <2>3, <2>4, <2>5, <2>6
          DEF Next, ua_free, ua_pop, ua_seek, ua_alloc, ua_falloc, ua_reserve
<1>3. ResourcesAgree => NothingLeaked
  BY DEF ResourcesAgree, NothingLeaked
<1> QED BY <1>1, <1>2, <1>3, UaInvariant, PTL DEF Spec

-----------------------------------------------------------------------------
(* The benchmark program.                                                  *)

(* Where the program is.                                                   *)
ChildAt == {"child", "each", "all", "write", "body", "close", "sdhs", "sdhs run", "sdhs end"}
InWrite == pc \in {"write", "body"}
InLoop == pc \in {"forked", "child", "each", "all", "close"} \/ (InWrite /\ entry # Sdhs)
InSdhs == pc \in {"sdhs", "sdhs run", "sdhs end"} \/ (InWrite /\ entry = Sdhs)
Running == pc \in {"sdhs run", "sdhs end"} \/ (InWrite /\ entry = Sdhs)
Sizing == pc = "each" \/ (InWrite /\ entry.size # 0)
Summing == pc = "all" \/ (InWrite /\ entry # Sdhs /\ entry.size = 0)

(* What is left of a sequence that is worked off from its head.            *)
Rest(s, t) == Len(s) <= Len(t) /\ \A i \in 1 .. Len(s) : s[i] = t[i + (Len(t) - Len(s))]
Past(s, t) == {t[i] : i \in 1 .. Len(t) - Len(s)}
TestFns == IF Head(suite) = "arena" THEN ArenaFns ELSE MallocFns

(* The tests left are the end of the configured ones, the loops left the   *)
(* end of those of the test.                                               *)
TestOK ==
  /\ pc \notin {"conf", "over"} => Rest(suite, conf.suite)
  /\ pc = "logged" \/ pc = "loop" \/ InLoop \/ InSdhs => suite # <<>>
  /\ pc = "logged" => Head(suite) \in {"arena", "malloc", "sdhs"}
  /\ pc = "loop" \/ InLoop => Head(suite) \in {"arena", "malloc"} /\ Rest(loops, Product(TestFns))
  /\ InLoop => loops # <<>>
  /\ InSdhs => Head(suite) = "sdhs"

(* Who runs: a child when there is no debugger, and which of the two it is.*)
PhaseOK ==
  /\ proc = (IF pc \in ChildAt /\ ~conf.debugger THEN 1 ELSE 0)
  /\ conf.debugger /\ pc = "forked" => phase = 3
  /\ ~conf.debugger /\ (pc = "child" \/ pc = "close") => phase \in {2, 3}
  /\ ~conf.debugger /\ Sizing => phase = 2
  /\ ~conf.debugger /\ Summing => phase = 3

(* The sizes left are the end of those of the class; what is written was   *)
(* just measured.                                                          *)
EntryOK ==
  /\ Sizing => Rest(left, SizesOf[Loop.class])
  /\ InWrite /\ entry # Sdhs => \/ entry = Dir(Loop.fn, 0, Loop.class)
                                \/ left # <<>> /\ entry = Dir(Loop.fn, Head(left), "")

(* What the release of the scratch goes back to.                           *)
ScratchOK ==
  /\ pc = "logged" \/ pc = "loop" => main_ua = prepared
  /\ InLoop => uas = prepared

(* A process forked from the benchmark starts with untouched statics.      *)
FreshOK ==
  ~conf.debugger =>
    /\ parent.coll = FreshMem
    /\ proc = 0 \/ pc \in {"child", "all", "sdhs"} => coll = FreshMem

(* The stores to tcoll.cur and to tstats.iter that are still to come: of   *)
(* thread t those numbered 1 to b[t].                                      *)
Below(b) == {p \in Threads \X (1 .. PerThread) : p[2] <= b[p[1]]}
CurBound(th) == [t \in Threads |-> IF th[t].at = "arr last" THEN th[t].left - 1 ELSE th[t].left]
IterBound(th) ==
  [t \in Threads |-> IF th[t].at \in {"idle", "alloc", "iter"} THEN th[t].left ELSE th[t].left - 1]
CurLeft == Cardinality(Below(CurBound(thread)))
IterLeft == Cardinality(Below(IterBound(thread)))
CurLoaded(t) == thread[t].at \in {"arr first", "cur first", "cur last"}

Shape ==
  \A t \in Threads :
    /\ thread[t].at = "idle" => thread[t].left = 0
    /\ thread[t].at \notin {"idle", "alloc"} => thread[t].left >= 1

CurLimit == IF proc # 0 /\ Running THEN Total ELSE Cells
(* However the threads interleave, no store reaches behind the array: the  *)
(* place a thread has loaded, plus the stores still to come, is inside.    *)
CellsLeft ==
  /\ coll.cur + CurLeft <= CurLimit
  /\ \A t \in Threads : /\ CurLoaded(t) => thread[t].cur + CurLeft <= CurLimit
                        /\ thread[t].at = "arr last" => thread[t].cur < CurLimit

(* Threads exist in a data handler only, or were left behind by it under a *)
(* debugger, where no second one follows.                                  *)
ThreadsOK ==
  /\ pc = "conf" \/ pc = "sdhs" \/ (~conf.debugger /\ ~Running) => thread = NoThreads
  /\ conf.debugger /\ thread # NoThreads /\ pc # "over" => "sdhs" \notin ToSet(IF InSdhs THEN Tail(suite) ELSE suite)
  /\ thread = NoThreads /\ pc # "over" => coll.cur + Total <= Cells
  /\ drained /\ pc # "sdhs run" => \A t \in Threads : thread[t].left = 0

Timing(i) == coll.arr[i] = Sdhs \/ \E t \in Threads : thread[t].at = "arr last" /\ thread[t].cur = i

(* The count of the data handler is positive once a thread has stored it,  *)
(* and never more than its allocations.                                    *)
IterRight ==
  /\ coll.iter + IterLeft <= Total
  /\ \A t \in Threads : thread[t].at = "iter" => thread[t].iter + IterLeft <= Total
  /\ coll.iter = 0 => \A t \in Threads : thread[t].left = PerThread /\ thread[t].at \in {"alloc", "iter"}

(* Below every position, stored or loaded, each cell has a timing or waits *)
(* for the thread that stores position and timing in this order.           *)
CurRight ==
  /\ coll.cur = 0 => \A t \in Threads : thread[t].left = PerThread /\ thread[t].at # "arr last"
  /\ \A i \in 0 .. Cells - 1 :
       /\ i < coll.cur => Timing(i)
       /\ \A t \in Threads : /\ CurLoaded(t) /\ i < thread[t].cur => Timing(i)
                             /\ thread[t].at = "cur last" /\ i = thread[t].cur => Timing(i)

SdhsOK == proc # 0 /\ Running => IterRight /\ CurRight

Count(d) == Iterations * (IF d.size # 0 THEN 1 ELSE Len(SizesOf[d.class]))

(* After a measurement the array holds it and nothing else.                *)
MeasuredOK ==
  /\ InWrite /\ entry # Sdhs /\ drained =>
       coll.cur = Count(entry) /\ \A i \in 0 .. Cells - 1 : i < coll.cur => coll.arr[i] = entry
  /\ proc # 0 /\ Sizing =>
       coll.iter + Iterations * (Len(left) - (IF pc = "each" THEN 0 ELSE 1)) <= Iterations * Len(SizesOf[Loop.class])
  /\ proc # 0 /\ Summing => coll.iter <= Iterations * Len(SizesOf[Loop.class])

Newest(d, f) == f.nr = get_next_run_nr(d) - 1

(* The log of a run is made once; results and logs have different          *)
(* directories.                                                            *)
LogFresh == pc = "logged" => \A f \in disk[LogDir(Head(suite))] : f.nr = run_nr => f.name # "log.txt"
LogsOK ==
  /\ \A d \in Dirs : \A f \in disk[d] : IF d.class = "log" THEN f.name # "bin" /\ f.fate = "whole" ELSE f.name = "bin"
  /\ LogFresh

(* Of a number and a name there is one file.                               *)
NumbersOK == \A d \in Dirs : \A f, g \in disk[d] : f.nr = g.nr /\ f.name = g.name => f = g

(* What is not yet flushed belongs to the running process.                 *)
OpenOK ==
  \A d \in Dirs : \A f \in disk[d] :
    f.fate = "open" => /\ f.start = start /\ f.proc = proc /\ pc # "over"
                       /\ f.proc = (IF conf.debugger THEN 0 ELSE 1)

(* The newest file is the one whose timings are about to be written.       *)
BodyOK ==
  pc = "body" =>
    \A f \in disk[entry] :
      Newest(entry, f) => /\ f.fate = "open" /\ f.drained = drained
                          /\ drained => f.count = coll.cur /\ f.iter = coll.iter

(* A file whose timings have been written.                                 *)
Complete(d, f) ==
  f.fate \in {"open", "whole"} /\ f.drained =>
    /\ d # Sdhs => /\ f.count = Len(f.data) /\ ToSet(f.data) = {d} /\ f.count = Count(d)
                   /\ f.proc = 1 => \E c \in ToSet(Classes) : f.iter <= Iterations * Len(SizesOf[c])
    /\ d = Sdhs /\ f.proc = 1 => /\ f.count = Len(f.data) /\ ToSet(f.data) = {Sdhs}
                                 /\ f.count <= Total /\ f.iter \in 1 .. Total

DataOK ==
  \A d \in Dirs : \A f \in disk[d] :
    f.name = "bin" /\ ~(pc = "body" /\ d = entry /\ Newest(d, f)) => Complete(d, f)

(* What is there, flushed or not, after a test, a loop, a part of a loop or*)
(* a size.                                                                 *)
There(d) == \E f \in disk[d] : f.start = start /\ f.name = "bin" /\ f.fate \in {"open", "whole"}
EachThere(l) == \A s \in ToSet(SizesOf[l.class]) : There(Dir(l.fn, s, ""))
AllThere(l) == There(Dir(l.fn, 0, l.class))
LoopsThere(ls) == \A l \in ls : EachThere(l) /\ AllThere(l)
TestThere(t) ==
  /\ t = "arena" => LoopsThere(ToSet(Product(ArenaFns)))
  /\ t = "malloc" => LoopsThere(ToSet(Product(MallocFns)))
  /\ t = "sdhs" => There(Sdhs)

EachOver == \/ (pc = "forked" /\ phase >= 2) \/ (pc = "child" /\ proc # 0 /\ phase = 3)
            \/ Summing \/ pc = "close"
AllOver == (pc = "forked" /\ phase = 3) \/ (pc = "close" /\ (proc = 0 \/ phase = 3))

(* A measurement has its log and its arena.                                *)
Equipped ==
  pc = "each" \/ pc = "all" \/ pc = "close" \/ (InWrite /\ entry # Sdhs) =>
    log_file = "open" /\ (Measured => arena = "made")

(* Whatever was worked off has left its files.                             *)
PastTests == \A t \in Past(suite, conf.suite) : TestThere(t)
PastLoops == pc = "loop" \/ InLoop => LoopsThere(Past(loops, Product(TestFns)))
PastSizes == Sizing => \A s \in Past(left, SizesOf[Loop.class]) : There(Dir(Loop.fn, s, ""))
PastParts ==
  (EachOver => EachThere(Loop)) /\ (AllOver => AllThere(Loop)) /\ (pc = "sdhs end" => There(Sdhs))

ProgressOK ==
  faults = 0 /\ Roomy /\ pc \notin {"conf", "over"} =>
    PastTests /\ PastLoops /\ PastSizes /\ PastParts /\ Equipped

(* All of it together is inductive.                                        *)
BenchIInv ==
  /\ BenchTypeOK /\ TestOK /\ PhaseOK /\ EntryOK /\ ScratchOK /\ FreshOK
  /\ Shape /\ CellsLeft /\ ThreadsOK /\ SdhsOK /\ MeasuredOK
  /\ LogsOK /\ NumbersOK /\ OpenOK /\ BodyOK /\ DataOK /\ ProgressOK /\ ResultsPresent

(* The head is worked off: what is left stays the end of the whole.        *)
LEMMA RestFacts ==
  ASSUME NEW S, NEW s \in Seq(S), NEW t \in Seq(S)
  PROVE  /\ Rest(t, t) /\ Past(t, t) = {}
         /\ Rest(s, t) /\ s = <<>> => Past(s, t) = ToSet(t)
         /\ Rest(s, t) /\ s # <<>> =>
              /\ Rest(Tail(s), t) /\ Past(Tail(s), t) = Past(s, t) \cup {Head(s)}
              /\ Head(s) \in ToSet(t) /\ Tail(s) \in Seq(S) /\ Len(Tail(s)) = Len(s) - 1
<1> DEFINE n == Len(t) - Len(s)
<1>1. Len(s) \in Nat /\ Len(t) \in Nat /\ (s = <<>> => Len(s) = 0) /\ ToSet(t) = {t[i] : i \in 1 .. Len(t)}
  BY DEF ToSet
<1>2. Rest(t, t) /\ Past(t, t) = {}
  BY <1>1 DEF Rest, Past
<1>3. ASSUME Rest(s, t), s = <<>> PROVE Past(s, t) = ToSet(t)
  BY <1>1, <1>3 DEF Past
<1>4. ASSUME Rest(s, t), s # <<>>
      PROVE  /\ Rest(Tail(s), t) /\ Past(Tail(s), t) = Past(s, t) \cup {Head(s)}
             /\ Head(s) \in ToSet(t) /\ Tail(s) \in Seq(S) /\ Len(Tail(s)) = Len(s) - 1
  <2>1. Len(s) >= 1 /\ Tail(s) \in Seq(S) /\ Len(Tail(s)) = Len(s) - 1 /\ Head(s) = s[1]
        /\ \A i \in 1 .. Len(s) - 1 : Tail(s)[i] = s[i + 1]
    BY <1>4, HeadTailProperties, EmptySeq
  <2>2. n \in Nat /\ \A i \in 1 .. Len(s) : s[i] = t[i + n]
    BY <1>1, <1>4 DEF Rest
  <2>3. Rest(Tail(s), t)
    BY <1>1, <2>1, <2>2 DEF Rest
  <2>4. Head(s) = t[n + 1] /\ n + 1 \in 1 .. Len(t)
    BY <1>1, <2>1, <2>2
  <2>5. Past(Tail(s), t) = {t[i] : i \in 1 .. n + 1} /\ Past(s, t) = {t[i] : i \in 1 .. n}
    BY <1>1, <2>1 DEF Past
  <2>6. 1 .. n + 1 = (1 .. n) \cup {n + 1}
    BY <2>2
  <2>7. Past(Tail(s), t) = Past(s, t) \cup {Head(s)}
    BY <2>4, <2>5, <2>6
  <2> QED BY <1>1, <2>1, <2>3, <2>4, <2>7
<1> QED BY <1>2, <1>3, <1>4

(* The remainder and the quotient of k by m.                               *)
LEMMA DivFacts ==
  ASSUME NEW k \in Nat, NEW m \in Nat \ {0}, NEW n \in Nat, k < n * m
  PROVE  k \div m \in 0 .. n - 1 /\ k % m \in 0 .. m - 1
  BY SMT

LEMMA TimesFacts ==
  ASSUME NEW a \in Nat, NEW b \in Nat
  PROVE  a * b \in Nat /\ (b = 0 => a * b = 0) /\ (b >= 1 => a * (b - 1) = a * b - a)
  BY SMT

(* The lists of the configuration.                                         *)
LEMMA ListFacts ==
  /\ Len(Classes) \in Nat /\ Classes \in Seq(STRING)
  /\ \A i \in 1 .. Len(Classes) : Classes[i] \in ToSet(Classes)
<1>1. Classes \in Seq(STRING \ {"", "log"})
  BY BenchAssumption
<1>2. Classes \in Seq(STRING)
  BY <1>1, SeqMonotonic
<1> QED BY <1>2 DEF ToSet

(* The calls of tight_loop_test are a sequence of functions and classes.   *)
LEMMA ProductType ==
  ASSUME NEW fns \in Seq(STRING)
  PROVE  Product(fns) \in Seq([fn : ToSet(fns), class : ToSet(Classes)])
<1> DEFINE place(k) == [fn    |-> fns[((k - 1) \div Len(Classes)) + 1],
                        class |-> Classes[((k - 1) % Len(Classes)) + 1]]
<1>1. PICK n \in Nat, m \in Nat : n = Len(fns) /\ m = Len(Classes)
  BY ListFacts
<1>2. n * m \in Nat /\ (m = 0 => n * m = 0)
  BY TimesFacts
<1>3. ASSUME NEW k \in 1 .. n * m
      PROVE  place(k) \in [fn : ToSet(fns), class : ToSet(Classes)]
  <2>1. k - 1 \in Nat /\ m \in Nat \ {0} /\ k - 1 < n * m
    BY <1>2
  <2>2. (k - 1) \div m \in 0 .. n - 1 /\ (k - 1) % m \in 0 .. m - 1
    BY <2>1, DivFacts
  <2>3. PICK q \in 0 .. n - 1, r \in 0 .. m - 1 : (k - 1) \div m = q /\ (k - 1) % m = r
    BY <2>2
  <2>4. fns[q + 1] \in ToSet(fns) /\ Classes[r + 1] \in ToSet(Classes)
    <3>1. q + 1 \in 1 .. Len(fns) /\ r + 1 \in 1 .. Len(Classes)
      BY <1>1
    <3> QED BY <3>1, ListFacts DEF ToSet
  <2>5. place(k) = [fn |-> fns[q + 1], class |-> Classes[r + 1]]
    BY <1>1, <2>3, Zenon
  <2> QED BY <2>4, <2>5
<1> DEFINE N == n * m
<1>4. Product(fns) = [k \in 1 .. N |-> place(k)]
  BY <1>1, Zenon DEF Product
<1>5. N \in Nat
  BY <1>2
<1> HIDE DEF place, N
<1>6. Product(fns) \in [1 .. N -> [fn : ToSet(fns), class : ToSet(Classes)]]
  BY <1>3, <1>4 DEF N
<1>7. Product(fns) \in UNION {[1 .. j -> [fn : ToSet(fns), class : ToSet(Classes)]] : j \in Nat}
  BY <1>5, <1>6
<1> QED BY <1>7, SeqDef, Zenon

Loops == [fn : Fns, class : ToSet(Classes)]

LEMMA LoopTypes ==
  /\ Product(ArenaFns) \in Seq(Loops) /\ Product(MallocFns) \in Seq(Loops)
  /\ Fns \subseteq STRING \ {"sdhs"} /\ ToSet(Classes) \subseteq STRING \ {"", "log"}
<1>1. ASSUME NEW S, NEW s \in Seq(S) PROVE ToSet(s) \subseteq S
  <2>1. \A i \in DOMAIN s : s[i] \in S
    BY LenProperties
  <2> QED BY <2>1 DEF ToSet
<1>2. /\ ArenaFns \in Seq(STRING \ {"sdhs"}) /\ MallocFns \in Seq(STRING \ {"sdhs"})
      /\ Classes \in Seq(STRING \ {"", "log"})
  BY BenchAssumption
<1>3. ToSet(ArenaFns) \subseteq STRING \ {"sdhs"} /\ ToSet(MallocFns) \subseteq STRING \ {"sdhs"}
  BY <1>1, <1>2
<1>4. ArenaFns \in Seq(STRING) /\ MallocFns \in Seq(STRING)
  <2>1. ASSUME NEW T \in SUBSET STRING, NEW s \in Seq(T) PROVE s \in Seq(STRING)
    BY <2>1, SeqMonotonic
  <2>2. (STRING \ {"sdhs"}) \in SUBSET STRING
    OBVIOUS
  <2> QED BY <1>2, <2>1, <2>2
<1>5. /\ Product(ArenaFns) \in Seq([fn : ToSet(ArenaFns), class : ToSet(Classes)])
      /\ Product(MallocFns) \in Seq([fn : ToSet(MallocFns), class : ToSet(Classes)])
  BY <1>4, ProductType
<1>6. /\ [fn : ToSet(ArenaFns), class : ToSet(Classes)] \subseteq Loops
      /\ [fn : ToSet(MallocFns), class : ToSet(Classes)] \subseteq Loops
  BY DEF Loops, Fns
<1>7. Product(ArenaFns) \in Seq(Loops) /\ Product(MallocFns) \in Seq(Loops)
  BY <1>5, <1>6, SeqMonotonic
<1>8. ToSet(Classes) \subseteq STRING \ {"", "log"}
  BY <1>1, <1>2
<1> QED BY <1>3, <1>7, <1>8 DEF Fns

LEMMA TypeFacts ==
  ASSUME BenchTypeOK
  PROVE  /\ suite \in Seq(STRING) /\ conf.suite \in Seq(STRING) /\ conf.debugger \in BOOLEAN
         /\ conf.starts \in Nat \ {0} /\ start \in Nat /\ proc \in {0, 1}
         /\ loops \in Seq(Loops) /\ left \in Seq(Nat \ {0})
<1>1. conf \in Confs /\ start \in 1 .. conf.starts /\ suite \in Seq(STRING) /\ proc \in {0, 1}
      /\ loops \in Seq(Loops) /\ left \in Seq(Nat \ {0})
  BY DEF BenchTypeOK, Loops
<1> QED BY <1>1, ConfsAssumption

LEMMA DiesFacts ==
  ASSUME Dies
  PROVE  \/ proc = 0 /\ pc' = "over" /\ result' = "killed" /\ suite' = suite
         \/ proc # 0 /\ Head(suite) # "sdhs" /\ pc' = "forked" /\ result' = result /\ suite' = suite
         \/ proc # 0 /\ Head(suite) = "sdhs" /\ pc' = "test" /\ result' = result /\ suite' = Tail(suite)
BY DEF Dies, Forked

(* The call of tight_loop_test that is running, and the file it writes.    *)
LEMMA LoopFacts ==
  ASSUME BenchTypeOK, TestOK, EntryOK, InLoop
  PROVE  /\ Loop \in Loops /\ Loop.fn \in Fns /\ Loop.class \in ToSet(Classes)
         /\ Loop.fn # "sdhs" /\ Loop.class # "" /\ Loop.class # "log"
         /\ SizesOf[Loop.class] \in Seq(Nat \ {0}) /\ Len(SizesOf[Loop.class]) > 0
<1>1. loops \in Seq(Loops) /\ loops # <<>>
  BY TypeFacts DEF TestOK
<1>2. Loop \in Loops
  BY <1>1, HeadTailProperties DEF Loop
<1>3. Loop.fn \in Fns /\ Loop.class \in ToSet(Classes)
  BY <1>2 DEF Loops
<1>4. Loop.fn # "sdhs" /\ Loop.class # "" /\ Loop.class # "log"
  BY <1>3, LoopTypes
<1> QED BY <1>2, <1>3, <1>4, BenchAssumption

LEMMA EntryFacts ==
  ASSUME BenchTypeOK, TestOK, EntryOK, InWrite
  PROVE  /\ Sdhs.size = 0 /\ Sdhs.fn = "sdhs" /\ Sdhs.class = ""
         /\ entry # Sdhs => /\ entry.fn = Loop.fn /\ entry.fn # "sdhs"
                            /\ entry.size = 0 => entry = Dir(Loop.fn, 0, Loop.class)
                            /\ entry.size # 0 => left # <<>> /\ entry = Dir(Loop.fn, Head(left), "")
<1>1. Sdhs.size = 0 /\ Sdhs.fn = "sdhs" /\ Sdhs.class = ""
  BY DEF Sdhs
<1>2. ASSUME entry # Sdhs
      PROVE  /\ entry.fn = Loop.fn /\ entry.fn # "sdhs"
             /\ entry.size = 0 => entry = Dir(Loop.fn, 0, Loop.class)
             /\ entry.size # 0 => left # <<>> /\ entry = Dir(Loop.fn, Head(left), "")
  <2>1. Loop.fn # "sdhs"
    BY <1>2, LoopFacts DEF InLoop
  <2>2. left # <<>> => Head(left) # 0
    BY TypeFacts, HeadTailProperties
  <2>3. \/ entry = Dir(Loop.fn, 0, Loop.class)
        \/ left # <<>> /\ entry = Dir(Loop.fn, Head(left), "")
    BY <1>2 DEF EntryOK
  <2>4. \A fn, n, c : Dir(fn, n, c).fn = fn /\ Dir(fn, n, c).size = n
    BY DEF Dir
  <2>5. CASE entry = Dir(Loop.fn, 0, Loop.class)
    <3>1. entry.fn = Loop.fn
      BY <2>4, <2>5
    <3>2. entry.size = 0
      BY <2>4, <2>5
    <3> QED BY <2>1, <2>5, <3>1, <3>2
  <2>6. CASE left # <<>> /\ entry = Dir(Loop.fn, Head(left), "")
    <3>1. PICK n : n = Head(left)
      OBVIOUS
    <3>2. entry = Dir(Loop.fn, n, "")
      BY <2>6, <3>1
    <3>3. entry.fn = Loop.fn /\ entry.size = n
      BY <3>2 DEF Dir
    <3> QED BY <2>1, <2>2, <2>6, <3>1, <3>3
  <2> QED BY <2>3, <2>5, <2>6
<1> QED BY <1>1, <1>2

LEMMA TestKept ==
  ASSUME BenchTypeOK, TestOK, PhaseOK, EntryOK, BenchNext
  PROVE  TestOK'
<1> USE DEF TestOK, InLoop, InSdhs, InWrite, TestFns, control, process, Forked
<1>0. suite \in Seq(STRING) /\ conf.suite \in Seq(STRING) /\ loops \in Seq(Loops)
  BY TypeFacts
<1>a. Rest(conf.suite, conf.suite) /\ (Rest(suite, conf.suite) /\ suite # <<>> => Rest(Tail(suite), conf.suite))
  BY <1>0, RestFacts
<1>b. /\ Rest(Product(ArenaFns), Product(ArenaFns)) /\ Rest(Product(MallocFns), Product(MallocFns))
      /\ Rest(loops, Product(TestFns)) /\ loops # <<>> => Rest(Tail(loops), Product(TestFns))
  BY <1>0, LoopTypes, RestFacts
<1>c. pc \notin ChildAt => proc = 0
  BY DEF PhaseOK
<1>d. InWrite => Sdhs.size = 0 /\ Sdhs.fn = "sdhs" /\ (entry # Sdhs => entry.fn # "sdhs")
  BY EntryFacts
<1>e. InLoop => \A s, c : Dir(Loop.fn, s, c) # Sdhs
  BY LoopFacts DEF Dir, Sdhs
<1>1. CASE run_tests
  BY <1>0, <1>a, <1>b, <1>1 DEF run_tests, Return
<1>2. CASE TestsDone
  BY <1>0, <1>a, <1>b, <1>2 DEF TestsDone, Return
<1>3. CASE UnknownTest
  BY <1>0, <1>a, <1>b, <1>c, DiesFacts, <1>3 DEF UnknownTest, Dies, ChildAt
<1>4. CASE prepare_logging
  BY <1>0, <1>a, <1>b, <1>4 DEF prepare_logging
<1>5. CASE arena_test
  BY <1>0, <1>a, <1>b, <1>c, DiesFacts, <1>5 DEF arena_test, Dies, ChildAt
<1>6. CASE malloc_test
  BY <1>0, <1>a, <1>b, <1>6 DEF malloc_test
<1>7. CASE LoopsDone
  BY <1>0, <1>a, <1>b, <1>7 DEF LoopsDone
<1>8. CASE tight_loop_test
  BY <1>0, <1>a, <1>b, <1>c, DiesFacts, <1>8 DEF tight_loop_test, Dies, ChildAt
<1>9. CASE Fork
  BY <1>0, <1>a, <1>b, <1>9 DEF Fork
<1>10. CASE LoopEnds
  BY <1>0, <1>a, <1>b, <1>10 DEF LoopEnds
<1>11. CASE ChildStarts
  BY <1>0, <1>a, <1>b, <1>11 DEF ChildStarts
<1>12. CASE each_size_by_itself
  BY <1>0, <1>a, <1>b, <1>c, DiesFacts, <1>e, <1>12 DEF each_size_by_itself, Measure, Dies, ChildAt
<1>13. CASE EachEnds
  BY <1>0, <1>a, <1>b, <1>13 DEF EachEnds
<1>14. CASE all_sizes_repeatedly
  BY <1>0, <1>a, <1>b, <1>c, DiesFacts, <1>e, <1>14 DEF all_sizes_repeatedly, Measure, Dies, ChildAt
<1>15. CASE OpenEntry
  BY <1>0, <1>a, <1>b, <1>d, <1>15 DEF OpenEntry, WriteFails, Written
<1>16. CASE OpenFails
  BY <1>0, <1>a, <1>b, <1>c, DiesFacts, <1>d, <1>16 DEF OpenFails, Dies, ChildAt
<1>17. CASE WriteBody
  BY <1>0, <1>a, <1>b, <1>d, <1>17 DEF WriteBody, WriteFails, Written
<1>18. CASE CloseLog
  BY <1>0, <1>a, <1>b, <1>c, DiesFacts, <1>18 DEF CloseLog, ChildExits, Dies, ChildAt
<1>19. CASE sdhs_test
  BY <1>0, <1>a, <1>b, <1>19 DEF sdhs_test
<1>20. CASE ForkSdhsFails
  BY <1>0, <1>a, <1>b, <1>20 DEF ForkSdhsFails
<1>21. CASE SdhsStarts
  BY <1>0, <1>a, <1>b, <1>21 DEF SdhsStarts, ChildExits, Return
<1>22. CASE SdhsThread
  BY <1>0, <1>a, <1>b, <1>22 DEF SdhsThread
<1>23. CASE SdhsWaits
  BY <1>0, <1>a, <1>b, <1>23 DEF SdhsWaits
<1>24. CASE SdhsEnds
  BY <1>0, <1>a, <1>b, <1>24 DEF SdhsEnds
<1>25. CASE Restart
  BY <1>0, <1>a, <1>b, <1>25 DEF Restart
<1>26. CASE Terminated
  BY <1>0, <1>a, <1>b, <1>26 DEF Terminated, benchVars
<1> QED BY <1>1, <1>2, <1>3, <1>4, <1>5, <1>6, <1>7, <1>8, <1>9, <1>10, <1>11, <1>12, <1>13, <1>14, <1>15, <1>16, <1>17, <1>18, <1>19, <1>20, <1>21, <1>22, <1>23, <1>24, <1>25, <1>26 DEF BenchNext

LEMMA PhaseKept ==
  ASSUME BenchTypeOK, TestOK, PhaseOK, EntryOK, BenchNext
  PROVE  PhaseOK'
<1>e. left # <<>> => Head(left) # 0
  BY TypeFacts, HeadTailProperties
<1> USE DEF PhaseOK, ChildAt, Sizing, Summing, InWrite, control, process, Forked
<1>0. phase \in 1 .. 3 /\ proc \in {0, 1} /\ conf.debugger \in BOOLEAN
  BY TypeFacts DEF BenchTypeOK
<1>a. InWrite => Sdhs.size = 0 /\ Sdhs.fn = "sdhs" /\ (entry # Sdhs => entry.fn # "sdhs")
  BY EntryFacts
<1>b. /\ InLoop => \A n, c : Dir(Loop.fn, n, c) # Sdhs /\ Dir(Loop.fn, n, c).size = n
      /\ InLoop => suite # <<>> /\ Head(suite) # "sdhs"
      /\ InSdhs => Head(suite) = "sdhs"
  BY LoopFacts DEF Dir, Sdhs, TestOK
<1>c. /\ pc \in {"each", "all", "close"} => InLoop
      /\ pc = "write" => InLoop \/ InSdhs
  BY DEF InLoop, InSdhs
<1>d. Sdhs.size = 0
  BY DEF Sdhs
<1>1. CASE run_tests
  BY <1>0, <1>1 DEF run_tests, Return
<1>2. CASE TestsDone
  BY <1>0, <1>2 DEF TestsDone, Return
<1>3. CASE UnknownTest
  BY <1>0, DiesFacts, <1>b, <1>c, <1>3 DEF UnknownTest, Dies
<1>4. CASE prepare_logging
  BY <1>0, <1>4 DEF prepare_logging
<1>5. CASE arena_test
  BY <1>0, DiesFacts, <1>b, <1>c, <1>5 DEF arena_test, Dies
<1>6. CASE malloc_test
  BY <1>0, <1>6 DEF malloc_test
<1>7. CASE LoopsDone
  BY <1>0, <1>7 DEF LoopsDone
<1>8. CASE tight_loop_test
  BY <1>0, DiesFacts, <1>b, <1>c, <1>8 DEF tight_loop_test, Dies
<1>9. CASE Fork
  <2>0. pc = "forked" /\ phase <= 2 /\ conf' = conf
    BY <1>9 DEF Fork
  <2>1. ~conf.debugger
    BY <1>0, <2>0
  <2>2. phase' = phase + 1 /\ ((pc' = "child" /\ proc' = 1) \/ (pc' = pc /\ proc' = proc))
    BY <1>9 DEF Fork
  <2>3. phase' \in {2, 3}
    BY <1>0, <2>0, <2>2
  <2>4. CASE pc' = "child" /\ proc' = 1
    BY <2>0, <2>1, <2>3, <2>4
  <2>5. CASE pc' = pc /\ proc' = proc
    BY <2>0, <2>1, <2>5
  <2> QED BY <2>2, <2>4, <2>5
<1>10. CASE LoopEnds
  BY <1>0, <1>10 DEF LoopEnds
<1>11. CASE ChildStarts
  BY <1>0, <1>11 DEF ChildStarts
<1>12. CASE each_size_by_itself
  <2>1. CASE Dies
    BY <1>0, <1>12, <2>1, DiesFacts, <1>b, <1>c DEF each_size_by_itself, Dies
  <2>2. CASE ~Dies
    <3>1. /\ pc = "each" /\ pc' = "write" /\ entry' = Dir(Loop.fn, Head(left), "") /\ left # <<>>
          /\ proc' = proc /\ conf' = conf /\ phase' = phase
      BY <1>12, <2>2 DEF each_size_by_itself, Measure
    <3>2. entry'.size = Head(left)
      BY <3>1, <1>b, <1>c
    <3> QED BY <1>0, <1>e, <3>1, <3>2
  <2> QED BY <2>1, <2>2
<1>13. CASE EachEnds
  BY <1>0, <1>13 DEF EachEnds
<1>14. CASE all_sizes_repeatedly
  BY <1>0, DiesFacts, <1>b, <1>c, <1>14 DEF all_sizes_repeatedly, Measure, Dies
<1>15. CASE OpenEntry
  BY <1>0, <1>a, <1>15 DEF OpenEntry, WriteFails, Written
<1>16. CASE OpenFails
  BY <1>0, DiesFacts, <1>b, <1>c, <1>a, <1>16 DEF OpenFails, Dies
<1>17. CASE WriteBody
  BY <1>0, <1>a, <1>17 DEF WriteBody, WriteFails, Written
<1>18. CASE CloseLog
  BY <1>0, DiesFacts, <1>b, <1>c, <1>18 DEF CloseLog, ChildExits, Dies
<1>19. CASE sdhs_test
  BY <1>0, <1>19 DEF sdhs_test
<1>20. CASE ForkSdhsFails
  BY <1>0, <1>20 DEF ForkSdhsFails
<1>21. CASE SdhsStarts
  BY <1>0, <1>21 DEF SdhsStarts, ChildExits, Return
<1>22. CASE SdhsThread
  BY <1>0, <1>22 DEF SdhsThread
<1>23. CASE SdhsWaits
  BY <1>0, <1>d, <1>23 DEF SdhsWaits
<1>24. CASE SdhsEnds
  BY <1>0, <1>24 DEF SdhsEnds
<1>25. CASE Restart
  BY <1>0, <1>25 DEF Restart
<1>26. CASE Terminated
  BY <1>0, <1>26 DEF Terminated, benchVars
<1> QED BY <1>1, <1>2, <1>3, <1>4, <1>5, <1>6, <1>7, <1>8, <1>9, <1>10, <1>11, <1>12, <1>13, <1>14, <1>15, <1>16, <1>17, <1>18, <1>19, <1>20, <1>21, <1>22, <1>23, <1>24, <1>25, <1>26 DEF BenchNext

(* What follows the file of a measurement.                                 *)
LEMMA WrittenFacts ==
  ASSUME BenchTypeOK, TestOK, EntryOK, InWrite, Written
  PROVE  \/ /\ entry # Sdhs /\ entry.size # 0 /\ pc' = "each" /\ left' = Tail(left) /\ left # <<>>
            /\ entry = Dir(Loop.fn, Head(left), "") /\ InLoop
         \/ /\ entry # Sdhs /\ entry.size = 0 /\ pc' = "close" /\ left' = left
            /\ entry = Dir(Loop.fn, 0, Loop.class) /\ InLoop
         \/ entry = Sdhs /\ pc' = "sdhs end" /\ left' = left /\ InSdhs
<1>1. (entry # Sdhs => InLoop) /\ (entry = Sdhs => InSdhs)
  BY DEF InLoop, InSdhs
<1>2. CASE entry = Sdhs
  BY <1>1, <1>2, EntryFacts DEF Written
<1>3. CASE entry # Sdhs /\ entry.size = 0
  BY <1>1, <1>3, EntryFacts DEF Written
<1>4. CASE entry # Sdhs /\ entry.size # 0
  BY <1>1, <1>4, EntryFacts DEF Written
<1> QED BY <1>2, <1>3, <1>4

LEMMA WritingFacts ==
  ASSUME OpenEntry \/ WriteBody
  PROVE  /\ InWrite /\ conf' = conf /\ start' = start /\ suite' = suite /\ loops' = loops /\ proc' = proc
         /\ entry' = entry /\ phase' = phase /\ coll' = coll /\ thread' = thread /\ drained' = drained
         /\ uas' = uas /\ prepared' = prepared /\ run_nr' = run_nr /\ parent' = parent
         /\ \/ Written /\ (main_ua' = main_ua \/ main_ua' = main_ua + 1)
            \/ pc' = "body" /\ left' = left /\ main_ua' = main_ua
<1>1. CASE OpenEntry
  BY <1>1 DEF OpenEntry, WriteFails, InWrite
<1>2. CASE WriteBody
  BY <1>2 DEF WriteBody, WriteFails, InWrite
<1> QED BY <1>1, <1>2

LEMMA MeasureFacts ==
  ASSUME each_size_by_itself \/ all_sizes_repeatedly
  PROVE  /\ pc \in {"each", "all"} /\ InLoop /\ faults' = faults
         /\ pc = "each" => left # <<>>
         /\ \/ Dies
            \/ /\ pc' = "write" /\ conf' = conf /\ start' = start /\ suite' = suite /\ loops' = loops
               /\ proc' = proc /\ parent' = parent /\ phase' = phase /\ left' = left /\ thread' = thread
               /\ main_ua' = main_ua /\ uas' = uas /\ prepared' = prepared /\ run_nr' = run_nr
               /\ arena' = arena /\ log_file' = log_file /\ disk' = disk /\ drained' = drained
               /\ result' = result
               /\ pc = "each" =>
                    /\ entry' = Dir(Loop.fn, Head(left), "")
                    /\ \E arr \in {Blank, coll.arr} :
                         coll' = Timed(init_alloc_tcoll(coll, arr), entry', Iterations)
               /\ pc = "all" =>
                    /\ entry' = Dir(Loop.fn, 0, Loop.class)
                    /\ coll' = Timed(init_alloc_tcoll(coll, Blank), entry', Iterations * Len(SizesOf[Loop.class]))
<1>1. CASE each_size_by_itself
  BY <1>1 DEF each_size_by_itself, Measure, NoFault, InLoop
<1>2. CASE all_sizes_repeatedly
  BY <1>2 DEF all_sizes_repeatedly, Measure, NoFault, InLoop
<1> QED BY <1>1, <1>2

LEMMA CloseFacts ==
  ASSUME CloseLog
  PROVE  /\ pc = "close" /\ faults' = faults
         /\ \/ log_file = "failed" /\ Dies
            \/ /\ log_file = "open" /\ pc' = "forked" /\ proc' = 0 /\ thread' = thread /\ start' = start
               /\ conf' = conf /\ suite' = suite /\ loops' = loops /\ left' = left /\ parent' = parent
               /\ uas' = uas /\ prepared' = prepared /\ run_nr' = run_nr /\ entry' = entry
               /\ drained' = drained /\ result' = result
               /\ proc # 0 => /\ disk' = Settled(disk, "whole") /\ coll' = parent.coll
                              /\ main_ua' = parent.main_ua /\ phase' = phase
               /\ proc = 0 => disk' = disk /\ coll' = coll /\ main_ua' = main_ua /\ phase' = 3
BY DEF CloseLog, ChildExits, Forked, NoFault

LEMMA SdhsStartFacts ==
  ASSUME SdhsStarts
  PROVE  /\ pc = "sdhs" /\ start' = start /\ conf' = conf /\ loops' = loops /\ phase' = phase
         /\ left' = left /\ parent' = parent /\ uas' = uas /\ prepared' = prepared /\ run_nr' = run_nr
         /\ entry' = entry /\ drained' = drained /\ arena' = arena /\ log_file' = log_file
         /\ \/ /\ pc' = "sdhs run" /\ coll' = init_alloc_tcoll_dynamic(coll) /\ thread' = StartThreads
               /\ disk' = disk /\ main_ua' = main_ua /\ proc' = proc /\ suite' = suite /\ faults' = faults
               /\ result' = result
            \/ /\ pc' = "test" /\ proc # 0 /\ proc' = 0 /\ suite' = Tail(suite) /\ coll' = parent.coll
               /\ disk' = Settled(disk, "whole") /\ thread' = thread /\ result' = result
               /\ faults' = faults + 1
            \/ /\ pc' = "over" /\ proc = 0 /\ proc' = 0 /\ suite' = suite /\ coll' = coll
               /\ disk' = Settled(disk, "whole") /\ thread' = thread /\ result' = "failed"
               /\ main_ua' = main_ua
BY DEF SdhsStarts, ChildExits, Return, Forked, Fault, NoFault

LEMMA EntryKept ==
  ASSUME BenchTypeOK, TestOK, PhaseOK, EntryOK, BenchNext
  PROVE  EntryOK'
<1>0. left \in Seq(Nat \ {0})
  BY TypeFacts
<1>a. InWrite => Sdhs.size = 0 /\ Sdhs.fn = "sdhs" /\ (entry # Sdhs => entry.fn # "sdhs" /\ (entry.size # 0 => left # <<>>))
  BY EntryFacts
<1>b. InLoop => SizesOf[Loop.class] \in Seq(Nat \ {0}) /\ \A n, c : Dir(Loop.fn, n, c) # Sdhs /\ Dir(Loop.fn, n, c).size = n
  BY LoopFacts DEF Dir, Sdhs
<1>c. /\ pc \in {"child", "each", "all", "close"} => InLoop
      /\ InWrite => InLoop \/ InSdhs
  BY DEF InLoop, InSdhs
<1>d. InLoop => /\ Rest(SizesOf[Loop.class], SizesOf[Loop.class])
                /\ Rest(left, SizesOf[Loop.class]) /\ left # <<>> => Rest(Tail(left), SizesOf[Loop.class])
  BY <1>0, <1>b, RestFacts
<1>e. pc = "sdhs run" => Sdhs.size = 0
  BY DEF Sdhs
<1> USE DEF EntryOK, Loop, Sizing, InWrite, control, process
<1>1. CASE run_tests
  BY <1>1 DEF run_tests, Return
<1>2. CASE TestsDone
  BY <1>2 DEF TestsDone, Return
<1>3. CASE UnknownTest
  BY DiesFacts, <1>3 DEF UnknownTest, Dies
<1>4. CASE prepare_logging
  BY <1>4 DEF prepare_logging
<1>5. CASE arena_test
  BY DiesFacts, <1>5 DEF arena_test, Dies
<1>6. CASE malloc_test
  BY <1>6 DEF malloc_test
<1>7. CASE LoopsDone
  BY <1>7 DEF LoopsDone
<1>8. CASE tight_loop_test
  BY DiesFacts, <1>8 DEF tight_loop_test, Dies
<1>9. CASE Fork
  BY <1>9 DEF Fork
<1>10. CASE LoopEnds
  BY <1>10 DEF LoopEnds
<1>11. CASE ChildStarts
  BY <1>c, <1>d, <1>11 DEF ChildStarts
<1>12. CASE each_size_by_itself
  BY DiesFacts, <1>b, <1>c, <1>12 DEF each_size_by_itself, Measure, Dies
<1>13. CASE EachEnds
  BY <1>13 DEF EachEnds
<1>14. CASE all_sizes_repeatedly
  BY DiesFacts, <1>b, <1>c, <1>14 DEF all_sizes_repeatedly, Measure, Dies
<1>15. CASE OpenEntry
  <2>1. CASE Written
    BY <1>15, <2>1, <1>c, <1>d, WritingFacts, WrittenFacts
  <2>2. CASE ~Written
    BY <1>15, <2>2, WritingFacts
  <2> QED BY <2>1, <2>2
<1>16. CASE OpenFails
  BY DiesFacts, <1>a, <1>16 DEF OpenFails, Dies
<1>17. CASE WriteBody
  <2>1. CASE Written
    BY <1>17, <2>1, <1>c, <1>d, WritingFacts, WrittenFacts
  <2>2. CASE ~Written
    BY <1>17, <2>2, WritingFacts
  <2> QED BY <2>1, <2>2
<1>18. CASE CloseLog
  BY DiesFacts, <1>18 DEF CloseLog, ChildExits, Dies
<1>19. CASE sdhs_test
  BY <1>19 DEF sdhs_test
<1>20. CASE ForkSdhsFails
  BY <1>20 DEF ForkSdhsFails
<1>21. CASE SdhsStarts
  BY <1>21 DEF SdhsStarts, ChildExits, Return
<1>22. CASE SdhsThread
  BY <1>22 DEF SdhsThread
<1>23. CASE SdhsWaits
  BY <1>e, <1>23 DEF SdhsWaits
<1>24. CASE SdhsEnds
  BY <1>24 DEF SdhsEnds
<1>25. CASE Restart
  BY <1>25 DEF Restart
<1>26. CASE Terminated
  BY <1>26 DEF Terminated, benchVars
<1> QED BY <1>1, <1>2, <1>3, <1>4, <1>5, <1>6, <1>7, <1>8, <1>9, <1>10, <1>11, <1>12, <1>13, <1>14, <1>15, <1>16, <1>17, <1>18, <1>19, <1>20, <1>21, <1>22, <1>23, <1>24, <1>25, <1>26 DEF BenchNext

LEMMA ScratchKept ==
  ASSUME BenchTypeOK, TestOK, PhaseOK, EntryOK, ScratchOK, BenchNext
  PROVE  ScratchOK'
<1>a. InWrite => Sdhs.size = 0 /\ Sdhs.fn = "sdhs" /\ (entry # Sdhs => entry.fn # "sdhs")
  BY EntryFacts
<1>b. /\ InLoop => \A n, c : Dir(Loop.fn, n, c) # Sdhs
      /\ InSdhs => Head(suite) = "sdhs"
      /\ pc = "loop" \/ InLoop => Head(suite) # "sdhs"
  BY LoopFacts DEF Dir, Sdhs, TestOK
<1>c. pc \notin ChildAt => proc = 0
  BY DEF PhaseOK
<1> USE DEF ScratchOK, InLoop, InSdhs, InWrite, control, process, ChildAt
<1>1. CASE run_tests
  BY <1>1 DEF run_tests, Return
<1>2. CASE TestsDone
  BY <1>2 DEF TestsDone, Return
<1>3. CASE UnknownTest
  BY DiesFacts, <1>b, <1>c, <1>3 DEF UnknownTest, Dies
<1>4. CASE prepare_logging
  BY <1>4 DEF prepare_logging
<1>5. CASE arena_test
  BY DiesFacts, <1>b, <1>c, <1>5 DEF arena_test, Dies
<1>6. CASE malloc_test
  BY <1>6 DEF malloc_test
<1>7. CASE LoopsDone
  BY <1>7 DEF LoopsDone
<1>8. CASE tight_loop_test
  BY DiesFacts, <1>b, <1>c, <1>8 DEF tight_loop_test, Dies
<1>9. CASE Fork
  BY <1>9 DEF Fork
<1>10. CASE LoopEnds
  BY <1>10 DEF LoopEnds
<1>11. CASE ChildStarts
  BY <1>11 DEF ChildStarts
<1>12. CASE each_size_by_itself
  BY DiesFacts, <1>b, <1>c, <1>12 DEF each_size_by_itself, Measure, Dies
<1>13. CASE EachEnds
  BY <1>13 DEF EachEnds
<1>14. CASE all_sizes_repeatedly
  BY DiesFacts, <1>b, <1>c, <1>14 DEF all_sizes_repeatedly, Measure, Dies
<1>15. CASE OpenEntry
  BY <1>a, <1>15 DEF OpenEntry, WriteFails, Written
<1>16. CASE OpenFails
  BY DiesFacts, <1>b, <1>c, <1>a, <1>16 DEF OpenFails, Dies
<1>17. CASE WriteBody
  BY <1>a, <1>17 DEF WriteBody, WriteFails, Written
<1>18. CASE CloseLog
  BY DiesFacts, <1>b, <1>c, <1>18 DEF CloseLog, ChildExits, Dies
<1>19. CASE sdhs_test
  BY <1>19 DEF sdhs_test
<1>20. CASE ForkSdhsFails
  BY <1>20 DEF ForkSdhsFails
<1>21. CASE SdhsStarts
  BY <1>21 DEF SdhsStarts, ChildExits, Return
<1>22. CASE SdhsThread
  BY <1>22 DEF SdhsThread
<1>23. CASE SdhsWaits
  BY <1>23 DEF SdhsWaits
<1>24. CASE SdhsEnds
  BY <1>24 DEF SdhsEnds
<1>25. CASE Restart
  BY <1>25 DEF Restart
<1>26. CASE Terminated
  BY <1>26 DEF Terminated, benchVars
<1> QED BY <1>1, <1>2, <1>3, <1>4, <1>5, <1>6, <1>7, <1>8, <1>9, <1>10, <1>11, <1>12, <1>13, <1>14, <1>15, <1>16, <1>17, <1>18, <1>19, <1>20, <1>21, <1>22, <1>23, <1>24, <1>25, <1>26 DEF BenchNext

(* Threads that were not started take no step.                             *)
LEMMA IdleFacts ==
  ASSUME thread = NoThreads, NEW t \in Threads
  PROVE  thread[t].at = "idle" /\ thread[t].left = 0 /\ ~ThreadStep(t)
<1>1. thread[t].at = "idle" /\ thread[t].left = 0
  BY DEF NoThreads, NoThread
<1> QED BY <1>1 DEF ThreadStep, LoadIter, StoreIter, add_timing, LoadCur, StoreArr, StoreCur

LEMMA FreshKept ==
  ASSUME BenchTypeOK, TestOK, PhaseOK, EntryOK, ThreadsOK, FreshOK, BenchNext
  PROVE  FreshOK'
<1>0. conf.debugger \in BOOLEAN
  BY TypeFacts
<1>a. /\ proc # 0 => ~conf.debugger
      /\ pc \notin ChildAt => proc = 0
      /\ pc \in ChildAt /\ ~conf.debugger => proc # 0
  BY <1>0 DEF PhaseOK
<1>b. ~conf.debugger /\ (proc = 0 \/ pc \in {"child", "all", "sdhs"}) => thread = NoThreads
  <2> SUFFICES ASSUME ~conf.debugger, proc = 0 \/ pc \in {"child", "all", "sdhs"} PROVE thread = NoThreads
    OBVIOUS
  <2>1. pc = "sdhs" \/ ~Running
    BY <1>a DEF Running, InWrite, ChildAt
  <2> QED BY <2>1 DEF ThreadsOK
<1> USE DEF FreshOK, control, process, Forked, ChildAt
<1>1. CASE run_tests
  BY <1>a, <1>1 DEF run_tests, Return
<1>2. CASE TestsDone
  BY <1>a, <1>2 DEF TestsDone, Return
<1>3. CASE UnknownTest
  BY <1>a, DiesFacts, <1>3 DEF UnknownTest, Dies
<1>4. CASE prepare_logging
  BY <1>a, <1>4 DEF prepare_logging
<1>5. CASE arena_test
  BY <1>a, DiesFacts, <1>5 DEF arena_test, Dies
<1>6. CASE malloc_test
  BY <1>a, <1>6 DEF malloc_test
<1>7. CASE LoopsDone
  BY <1>a, <1>7 DEF LoopsDone
<1>8. CASE tight_loop_test
  BY <1>a, DiesFacts, <1>8 DEF tight_loop_test, Dies
<1>9. CASE Fork
  BY <1>a, <1>9 DEF Fork
<1>10. CASE LoopEnds
  BY <1>a, <1>10 DEF LoopEnds
<1>11. CASE ChildStarts
  BY <1>a, <1>11 DEF ChildStarts
<1>12. CASE each_size_by_itself
  <2>1. CASE Dies
    BY <1>a, <2>1, DiesFacts DEF Dies
  <2>2. CASE ~Dies
    <3>1. pc \in {"each", "all"} /\ pc' = "write" /\ conf' = conf /\ parent' = parent /\ proc' = proc
      BY <1>12, <2>2, MeasureFacts
    <3> QED BY <1>a, <3>1
  <2> QED BY <2>1, <2>2
<1>13. CASE EachEnds
  BY <1>a, <1>13 DEF EachEnds
<1>14. CASE all_sizes_repeatedly
  <2>1. CASE Dies
    BY <1>a, <2>1, DiesFacts DEF Dies
  <2>2. CASE ~Dies
    <3>1. pc \in {"each", "all"} /\ pc' = "write" /\ conf' = conf /\ parent' = parent /\ proc' = proc
      BY <1>14, <2>2, MeasureFacts
    <3> QED BY <1>a, <3>1
  <2> QED BY <2>1, <2>2
<1>15. CASE OpenEntry
  BY <1>a, WrittenFacts, WritingFacts, <1>15 DEF OpenEntry, WriteFails, Written
<1>16. CASE OpenFails
  BY <1>a, DiesFacts, <1>16 DEF OpenFails, Dies
<1>17. CASE WriteBody
  BY <1>a, WrittenFacts, WritingFacts, <1>17 DEF WriteBody, WriteFails, Written
<1>18. CASE CloseLog
  BY <1>a, DiesFacts, <1>18, CloseFacts DEF Dies
<1>19. CASE sdhs_test
  BY <1>a, <1>19 DEF sdhs_test
<1>20. CASE ForkSdhsFails
  BY <1>a, <1>20 DEF ForkSdhsFails
<1>21. CASE SdhsStarts
  <2>1. pc = "sdhs" /\ conf' = conf /\ parent' = parent
    BY <1>21, SdhsStartFacts
  <2>2. \/ pc' = "sdhs run" /\ proc' = proc
        \/ proc # 0 /\ coll' = parent.coll
        \/ proc = 0
    BY <1>21, SdhsStartFacts
  <2> QED BY <1>a, <2>1, <2>2
<1>22. CASE SdhsThread
  BY <1>a, <1>b, <1>22, IdleFacts DEF SdhsThread
<1>23. CASE SdhsWaits
  BY <1>a, <1>23 DEF SdhsWaits
<1>24. CASE SdhsEnds
  BY <1>a, <1>24 DEF SdhsEnds
<1>25. CASE Restart
  BY <1>a, <1>25 DEF Restart
<1>26. CASE Terminated
  BY <1>a, <1>26 DEF Terminated, benchVars
<1> QED BY <1>1, <1>2, <1>3, <1>4, <1>5, <1>6, <1>7, <1>8, <1>9, <1>10, <1>11, <1>12, <1>13, <1>14, <1>15, <1>16, <1>17, <1>18, <1>19, <1>20, <1>21, <1>22, <1>23, <1>24, <1>25, <1>26 DEF BenchNext

-----------------------------------------------------------------------------
(* Counting the stores still to come.                                      *)
LEMMA TotalFacts ==
  /\ Total \in Nat /\ Total <= Cells /\ Cells \in Nat /\ PerThread \in Nat \ {0} /\ Threads # {}
  /\ IsFiniteSet(Threads \X (1 .. PerThread))
  /\ Cardinality(Threads \X (1 .. PerThread)) = Total
<1>1. IsFiniteSet(Threads) /\ PerThread \in Nat \ {0} /\ Cells \in Nat /\ Total <= Cells /\ Threads # {}
  BY TimedAssumption
<1>2. PICK n \in Nat : n = Cardinality(Threads)
  BY <1>1, FS_CardinalityType
<1>3. IsFiniteSet(1 .. PerThread) /\ Cardinality(1 .. PerThread) = PerThread
  BY <1>1, FS_Interval
<1>4. /\ IsFiniteSet(Threads \X (1 .. PerThread))
      /\ Cardinality(Threads \X (1 .. PerThread)) = n * PerThread
  BY <1>1, <1>2, <1>3, FS_Product
<1>5. Total = PerThread * n
  BY <1>2 DEF Total
<1>6. n * PerThread = PerThread * n /\ PerThread * n \in Nat
  BY <1>1
<1> QED BY <1>1, <1>4, <1>5, <1>6

LEMMA BelowFacts ==
  ASSUME NEW b
  PROVE  IsFiniteSet(Below(b)) /\ Cardinality(Below(b)) \in Nat /\ Cardinality(Below(b)) <= Total
<1>1. Below(b) \in SUBSET (Threads \X (1 .. PerThread))
  BY DEF Below
<1>2. IsFiniteSet(Below(b)) /\ Cardinality(Below(b)) <= Total
  BY <1>1, TotalFacts, FS_Subset
<1> QED BY <1>2, FS_CardinalityType

LEMMA BelowLess ==
  ASSUME NEW b \in [Threads -> Int], NEW c \in [Threads -> Int], NEW t \in Threads,
         b[t] \in 1 .. PerThread, c[t] = b[t] - 1, \A u \in Threads : u # t => c[u] = b[u]
  PROVE  Cardinality(Below(c)) = Cardinality(Below(b)) - 1 /\ Cardinality(Below(b)) >= 1
<1> DEFINE x == <<t, b[t]>>
<1>1. x \in Below(b)
  BY DEF Below
<1>2. Below(c) = Below(b) \ {x}
  <2>1. ASSUME NEW u \in Threads, NEW k \in 1 .. PerThread
        PROVE  k <= c[u] <=> k <= b[u] /\ <<u, k>> # x
    <3>1. CASE u = t
      BY <3>1
    <3>2. CASE u # t
      BY <3>2
    <3> QED BY <3>1, <3>2
  <2> QED BY <2>1 DEF Below
<1>3. IsFiniteSet(Below(b)) /\ Cardinality(Below(b)) \in Nat /\ Cardinality(Below(c)) \in Nat
  BY BelowFacts
<1>4. Cardinality(Below(c)) = Cardinality(Below(b)) - 1
  <2>1. ASSUME NEW S, NEW y \in S, IsFiniteSet(S) PROVE Cardinality(S \ {y}) = Cardinality(S) - 1
    BY <2>1, FS_RemoveElement
  <2> QED BY <1>1, <1>2, <1>3, <2>1, Zenon
<1> QED BY <1>3, <1>4

(* What a step of thread t does to its own state and to the statics.       *)
StepA(t) == /\ thread[t].at = "alloc" /\ thread[t].left >= 1 /\ thread'[t].at = "iter"
            /\ thread'[t].iter = coll.iter /\ thread'[t].left = thread[t].left /\ coll' = coll
StepB(t) == /\ thread[t].at = "iter" /\ thread'[t].at = "add" /\ thread'[t].left = thread[t].left
            /\ coll' = [coll EXCEPT !.iter = thread[t].iter + 1]
StepC(t) == /\ thread[t].at = "add" /\ thread'[t].at \in {"arr first", "cur first"}
            /\ thread'[t].cur = coll.cur /\ thread'[t].left = thread[t].left /\ coll' = coll
StepD(t) == /\ thread[t].at = "arr first" /\ thread'[t].at = "cur last" /\ thread'[t].cur = thread[t].cur
            /\ thread'[t].left = thread[t].left /\ coll' = [coll EXCEPT !.arr[thread[t].cur] = Sdhs]
StepE(t) == /\ thread[t].at = "arr last" /\ thread'[t].at = "alloc" /\ thread'[t].left = thread[t].left - 1
            /\ coll' = [coll EXCEPT !.arr[thread[t].cur] = Sdhs]
StepF(t) == /\ thread[t].at = "cur first" /\ thread'[t].at = "arr last" /\ thread'[t].cur = thread[t].cur
            /\ thread'[t].left = thread[t].left /\ coll' = [coll EXCEPT !.cur = thread[t].cur + 1]
StepG(t) == /\ thread[t].at = "cur last" /\ thread'[t].at = "alloc" /\ thread'[t].left = thread[t].left - 1
            /\ coll' = [coll EXCEPT !.cur = thread[t].cur + 1]

LEMMA StepFacts ==
  ASSUME coll \in Statics, thread \in [Threads -> Thread], Shape, NEW t \in Threads, ThreadStep(t)
  PROVE  /\ thread' \in [Threads -> Thread] /\ \A u \in Threads : u # t => thread'[u] = thread[u]
         /\ StepA(t) \/ StepB(t) \/ StepC(t) \/ StepD(t) \/ StepE(t) \/ StepF(t) \/ StepG(t)
<1> DEFINE o == thread[t]
<1>1. /\ o \in Thread /\ o.left \in 0 .. PerThread /\ o.cur \in 0 .. Cells /\ o.iter \in Nat
      /\ PerThread \in Nat
  <2>1. o \in Thread /\ PerThread \in Nat
    BY TotalFacts
  <2> QED BY <2>1 DEF Thread
<1>2. coll.iter \in Nat /\ coll.cur \in 0 .. Cells
  BY DEF Statics
<1>3. o.at \notin {"idle", "alloc"} => o.left >= 1
  BY DEF Shape
<1>4. ASSUME NEW r \in Thread, thread' = [thread EXCEPT ![t] = r]
      PROVE  /\ thread' \in [Threads -> Thread] /\ thread'[t] = r
             /\ \A u \in Threads : u # t => thread'[u] = thread[u]
  BY <1>4
<1>5. CASE LoadIter(t)
  <2> DEFINE r == [o EXCEPT !.at = "iter", !.iter = coll.iter]
  <2>1. o.at = "alloc" /\ o.left > 0 /\ coll' = coll /\ thread' = [thread EXCEPT ![t] = r]
    BY <1>5, Zenon DEF LoadIter
  <2>2. r \in Thread /\ r.at = "iter" /\ r.iter = coll.iter /\ r.left = o.left
    BY <1>1, <1>2 DEF Thread
  <2> QED BY <1>1, <1>4, <2>1, <2>2 DEF StepA
<1>6. CASE StoreIter(t)
  <2> DEFINE r == [o EXCEPT !.at = "add"]
  <2>1. o.at = "iter" /\ coll' = [coll EXCEPT !.iter = o.iter + 1] /\ thread' = [thread EXCEPT ![t] = r]
    BY <1>6, Zenon DEF StoreIter
  <2>2. r \in Thread /\ r.at = "add" /\ r.left = o.left
    BY <1>1 DEF Thread
  <2> QED BY <1>4, <2>1, <2>2 DEF StepB
<1>7. CASE LoadCur(t)
  <2>1. PICK order \in {"arr first", "cur first"} :
          thread' = [thread EXCEPT ![t] = [o EXCEPT !.at = order, !.cur = coll.cur]]
    BY <1>7, Zenon DEF LoadCur
  <2> DEFINE r == [o EXCEPT !.at = order, !.cur = coll.cur]
  <2>2. o.at = "add" /\ coll' = coll
    BY <1>7 DEF LoadCur
  <2>3. r \in Thread /\ r.at = order /\ r.cur = coll.cur /\ r.left = o.left
    BY <1>1, <1>2 DEF Thread
  <2> QED BY <1>4, <2>1, <2>2, <2>3 DEF StepC
<1>8. CASE StoreArr(t) /\ o.at = "arr first"
  <2> DEFINE r == [o EXCEPT !.at = "cur last"]
  <2>1. coll' = [coll EXCEPT !.arr[o.cur] = Sdhs]
    BY <1>8 DEF StoreArr
  <2>2. thread' = [thread EXCEPT ![t] = [o EXCEPT !.at = "cur last", !.left = o.left]]
    BY <1>8 DEF StoreArr
  <2>3. [o EXCEPT !.at = "cur last", !.left = o.left] = r
    BY <1>1 DEF Thread
  <2>4. r \in Thread /\ r.at = "cur last" /\ r.cur = o.cur /\ r.left = o.left
    BY <1>1 DEF Thread
  <2> QED BY <1>4, <1>8, <2>1, <2>2, <2>3, <2>4 DEF StepD
<1>9. CASE StoreArr(t) /\ o.at = "arr last"
  <2> DEFINE r == [o EXCEPT !.at = "alloc", !.left = o.left - 1]
  <2>1. coll' = [coll EXCEPT !.arr[o.cur] = Sdhs]
    BY <1>9 DEF StoreArr
  <2>2. thread' = [thread EXCEPT ![t] = r]
    BY <1>9 DEF StoreArr
  <2>0. o.left >= 1
    BY <1>3, <1>9, Zenon
  <2>3. PICK k \in 0 .. PerThread : k = o.left - 1
    <3>1. PICK l \in 0 .. PerThread : l = o.left
      BY <1>1
    <3>2. l >= 1 /\ PerThread \in Nat
      BY <1>1, <2>0, <3>1
    <3> QED BY <3>1, <3>2
  <2>4. r \in Thread /\ r.at = "alloc" /\ r.left = k
    BY <1>1, <2>3 DEF Thread
  <2> QED BY <1>4, <1>9, <2>1, <2>2, <2>3, <2>4 DEF StepE
<1>10. CASE StoreCur(t) /\ o.at = "cur first"
  <2> DEFINE r == [o EXCEPT !.at = "arr last"]
  <2>1. coll' = [coll EXCEPT !.cur = o.cur + 1]
    BY <1>10 DEF StoreCur
  <2>2. thread' = [thread EXCEPT ![t] = [o EXCEPT !.at = "arr last", !.left = o.left]]
    BY <1>10 DEF StoreCur
  <2>3. [o EXCEPT !.at = "arr last", !.left = o.left] = r
    BY <1>1 DEF Thread
  <2>4. r \in Thread /\ r.at = "arr last" /\ r.cur = o.cur /\ r.left = o.left
    BY <1>1 DEF Thread
  <2> QED BY <1>4, <1>10, <2>1, <2>2, <2>3, <2>4 DEF StepF
<1>11. CASE StoreCur(t) /\ o.at = "cur last"
  <2> DEFINE r == [o EXCEPT !.at = "alloc", !.left = o.left - 1]
  <2>1. coll' = [coll EXCEPT !.cur = o.cur + 1]
    BY <1>11 DEF StoreCur
  <2>2. thread' = [thread EXCEPT ![t] = r]
    BY <1>11 DEF StoreCur
  <2>0. o.left >= 1
    BY <1>3, <1>11, Zenon
  <2>3. PICK k \in 0 .. PerThread : k = o.left - 1
    <3>1. PICK l \in 0 .. PerThread : l = o.left
      BY <1>1
    <3>2. l >= 1 /\ PerThread \in Nat
      BY <1>1, <2>0, <3>1
    <3> QED BY <3>1, <3>2
  <2>4. r \in Thread /\ r.at = "alloc" /\ r.left = k
    BY <1>1, <2>3 DEF Thread
  <2> QED BY <1>4, <1>11, <2>1, <2>2, <2>3, <2>4 DEF StepG
<1>12. LoadIter(t) \/ StoreIter(t) \/ LoadCur(t) \/ StoreArr(t) \/ StoreCur(t)
  BY DEF ThreadStep, add_timing
<1>13. /\ StoreArr(t) => o.at = "arr first" \/ o.at = "arr last"
       /\ StoreCur(t) => o.at = "cur first" \/ o.at = "cur last"
  BY DEF StoreArr, StoreCur
<1> QED BY <1>5, <1>6, <1>7, <1>8, <1>9, <1>10, <1>11, <1>12, <1>13

LEMMA BoundFacts ==
  ASSUME NEW th \in [Threads -> Thread]
  PROVE  /\ CurBound(th) \in [Threads -> Int] /\ IterBound(th) \in [Threads -> Int]
         /\ \A u \in Threads :
              /\ th[u].left \in 0 .. PerThread /\ th[u].cur \in 0 .. Cells /\ th[u].iter \in Nat
              /\ CurBound(th)[u] = IF th[u].at = "arr last" THEN th[u].left - 1 ELSE th[u].left
              /\ IterBound(th)[u] = IF th[u].at \in {"idle", "alloc", "iter"} THEN th[u].left ELSE th[u].left - 1
<1>1. PerThread \in Nat /\ Cells \in Nat
  BY TotalFacts
<1>2. ASSUME NEW u \in Threads
      PROVE  th[u].left \in 0 .. PerThread /\ th[u].cur \in 0 .. Cells /\ th[u].iter \in Nat
  <2>1. th[u] \in Thread
    OBVIOUS
  <2> QED BY <2>1 DEF Thread
<1>3. ASSUME NEW u \in Threads PROVE th[u].left \in Int /\ th[u].left - 1 \in Int
  BY <1>1, <1>2
<1>4. CurBound(th) \in [Threads -> Int] /\ IterBound(th) \in [Threads -> Int]
  BY <1>3 DEF CurBound, IterBound
<1> QED BY <1>2, <1>4 DEF CurBound, IterBound

(* Each step settles at most one of the stores to come.                    *)
LEMMA CountStep ==
  ASSUME coll \in Statics, thread \in [Threads -> Thread], Shape, NEW t \in Threads, ThreadStep(t)
  PROVE  /\ CurLeft \in Nat /\ CurLeft' \in Nat /\ IterLeft \in Nat /\ IterLeft' \in Nat
         /\ StepF(t) \/ StepG(t) => CurLeft' = CurLeft - 1 /\ CurLeft >= 1
         /\ ~StepF(t) /\ ~StepG(t) => CurLeft' = CurLeft
         /\ StepB(t) => IterLeft' = IterLeft - 1 /\ IterLeft >= 1
         /\ ~StepB(t) => IterLeft' = IterLeft
         /\ StepD(t) => CurLeft >= 1
<1>0. /\ thread' \in [Threads -> Thread] /\ \A u \in Threads : u # t => thread'[u] = thread[u]
      /\ StepA(t) \/ StepB(t) \/ StepC(t) \/ StepD(t) \/ StepE(t) \/ StepF(t) \/ StepG(t)
  BY StepFacts
<1> DEFINE cb == CurBound(thread)
           cc == CurBound(thread')
           ib == IterBound(thread)
           ic == IterBound(thread')
<1>1. /\ cb \in [Threads -> Int] /\ ib \in [Threads -> Int]
      /\ \A u \in Threads :
           /\ thread[u].left \in 0 .. PerThread
           /\ cb[u] = IF thread[u].at = "arr last" THEN thread[u].left - 1 ELSE thread[u].left
           /\ ib[u] = IF thread[u].at \in {"idle", "alloc", "iter"} THEN thread[u].left ELSE thread[u].left - 1
  BY BoundFacts
<1>2. /\ cc \in [Threads -> Int] /\ ic \in [Threads -> Int]
      /\ \A u \in Threads :
           /\ cc[u] = IF thread'[u].at = "arr last" THEN thread'[u].left - 1 ELSE thread'[u].left
           /\ ic[u] = IF thread'[u].at \in {"idle", "alloc", "iter"} THEN thread'[u].left ELSE thread'[u].left - 1
  BY <1>0, BoundFacts
<1> HIDE DEF cb, cc, ib, ic
<1>3. \A u \in Threads : u # t => cc[u] = cb[u] /\ ic[u] = ib[u]
  <2>1. SUFFICES ASSUME NEW u \in Threads, u # t PROVE cc[u] = cb[u] /\ ic[u] = ib[u]
    OBVIOUS
  <2>2. thread'[u] = thread[u]
    BY <1>0, <2>1
  <2>3. cc[u] = cb[u]
    BY <1>1, <1>2, <2>2, Zenon
  <2>4. ic[u] = ib[u]
    BY <1>1, <1>2, <2>2, Zenon
  <2> QED BY <2>3, <2>4
<1>4. PICK l \in 0 .. PerThread : l = thread[t].left
  BY <1>1
<1>5. thread[t].at \notin {"idle", "alloc"} => l >= 1
  BY <1>4 DEF Shape
<1>a. /\ cb[t] = (IF thread[t].at = "arr last" THEN l - 1 ELSE l)
      /\ ib[t] = (IF thread[t].at \in {"idle", "alloc", "iter"} THEN l ELSE l - 1)
  BY <1>1, <1>4
<1>b. /\ thread'[t].at = "arr last" => cc[t] = thread'[t].left - 1
      /\ thread'[t].at # "arr last" => cc[t] = thread'[t].left
      /\ thread'[t].at \in {"idle", "alloc", "iter"} => ic[t] = thread'[t].left
      /\ thread'[t].at \notin {"idle", "alloc", "iter"} => ic[t] = thread'[t].left - 1
  BY <1>2
<1>6. l \in Nat /\ PerThread \in Nat /\ l <= PerThread
  BY TotalFacts
<1>7. ASSUME NEW b \in [Threads -> Int], NEW c \in [Threads -> Int], \A u \in Threads : u # t => c[u] = b[u], c[t] = b[t]
      PROVE  Cardinality(Below(c)) = Cardinality(Below(b))
  <2>1. \A u \in Threads : c[u] = b[u]
    BY <1>7
  <2>2. c = b
    BY <2>1
  <2> QED BY <2>2
<1>8. /\ cc[t] = cb[t] => CurLeft' = CurLeft
      /\ ic[t] = ib[t] => IterLeft' = IterLeft
  BY <1>1, <1>2, <1>3, <1>7 DEF CurLeft, IterLeft, cb, cc, ib, ic
<1>9. /\ cb[t] \in 1 .. PerThread /\ cc[t] = cb[t] - 1 => CurLeft' = CurLeft - 1 /\ CurLeft >= 1
      /\ ib[t] \in 1 .. PerThread /\ ic[t] = ib[t] - 1 => IterLeft' = IterLeft - 1 /\ IterLeft >= 1
  <2>1. ASSUME cb[t] \in 1 .. PerThread, cc[t] = cb[t] - 1
        PROVE  Cardinality(Below(cc)) = Cardinality(Below(cb)) - 1 /\ Cardinality(Below(cb)) >= 1
    <3>1. cb \in [Threads -> Int] /\ cc \in [Threads -> Int] /\ \A u \in Threads : u # t => cc[u] = cb[u]
      BY <1>1, <1>2, <1>3
    <3> QED BY <2>1, <3>1, BelowLess
  <2>2. ASSUME ib[t] \in 1 .. PerThread, ic[t] = ib[t] - 1
        PROVE  Cardinality(Below(ic)) = Cardinality(Below(ib)) - 1 /\ Cardinality(Below(ib)) >= 1
    <3>1. ib \in [Threads -> Int] /\ ic \in [Threads -> Int] /\ \A u \in Threads : u # t => ic[u] = ib[u]
      BY <1>1, <1>2, <1>3
    <3> QED BY <2>2, <3>1, BelowLess
  <2>3. /\ CurLeft = Cardinality(Below(cb)) /\ CurLeft' = Cardinality(Below(cc))
        /\ IterLeft = Cardinality(Below(ib)) /\ IterLeft' = Cardinality(Below(ic))
    BY Zenon DEF CurLeft, IterLeft, cb, cc, ib, ic
  <2> QED BY <2>1, <2>2, <2>3
<1>10. CurLeft \in Nat /\ CurLeft' \in Nat /\ IterLeft \in Nat /\ IterLeft' \in Nat
  BY BelowFacts DEF CurLeft, IterLeft
<1>11. CASE StepA(t)
  <2>1. cb[t] = l /\ cc[t] = l /\ ib[t] = l /\ ic[t] = l
    BY <1>a, <1>b, <1>4, <1>6, <1>11 DEF StepA
  <2>2. ~StepB(t) /\ ~StepD(t) /\ ~StepF(t) /\ ~StepG(t)
    BY <1>11 DEF StepA, StepB, StepD, StepF, StepG
  <2> QED BY <1>8, <1>10, <2>1, <2>2
<1>12. CASE StepB(t)
  <2>1. cb[t] = l /\ cc[t] = l /\ ib[t] = l /\ ic[t] = l - 1 /\ l >= 1
    BY <1>a, <1>b, <1>4, <1>5, <1>6, <1>12 DEF StepB
  <2>2. ~StepD(t) /\ ~StepF(t) /\ ~StepG(t)
    BY <1>12 DEF StepB, StepD, StepF, StepG
  <2> QED BY <1>6, <1>8, <1>9, <1>10, <1>12, <2>1, <2>2
<1>13. CASE StepC(t)
  <2>1. cb[t] = l /\ cc[t] = l /\ ib[t] = l - 1 /\ ic[t] = l - 1
    BY <1>a, <1>b, <1>4, <1>6, <1>13 DEF StepC
  <2>2. ~StepB(t) /\ ~StepD(t) /\ ~StepF(t) /\ ~StepG(t)
    BY <1>13 DEF StepB, StepC, StepD, StepF, StepG
  <2> QED BY <1>8, <1>10, <2>1, <2>2
<1>14. CASE StepD(t)
  <2>1. cb[t] = l /\ cc[t] = l /\ ib[t] = l - 1 /\ ic[t] = l - 1 /\ l >= 1
    BY <1>a, <1>b, <1>4, <1>5, <1>6, <1>14 DEF StepD
  <2>2. ~StepB(t) /\ ~StepF(t) /\ ~StepG(t)
    BY <1>14 DEF StepB, StepD, StepF, StepG
  <2>3. CurLeft >= 1
    <3> DEFINE c == [cb EXCEPT ![t] = l - 1]
    <3>0. l - 1 \in Int /\ l \in 1 .. PerThread
      BY <1>6, <2>1
    <3>1. /\ c \in [Threads -> Int] /\ c[t] = l - 1 /\ \A u \in Threads : u # t => c[u] = cb[u]
          /\ cb[t] = l
      BY <1>1, <2>1, <3>0
    <3> HIDE DEF c
    <3> QED BY <1>1, <3>0, <3>1, BelowLess DEF CurLeft, cb
  <2> QED BY <1>8, <1>10, <2>1, <2>2, <2>3
<1>15. CASE StepE(t)
  <2>1. cb[t] = l - 1 /\ cc[t] = l - 1 /\ ib[t] = l - 1 /\ ic[t] = l - 1
    BY <1>a, <1>b, <1>4, <1>6, <1>15 DEF StepE
  <2>2. ~StepB(t) /\ ~StepD(t) /\ ~StepF(t) /\ ~StepG(t)
    BY <1>15 DEF StepB, StepE, StepD, StepF, StepG
  <2> QED BY <1>8, <1>10, <2>1, <2>2
<1>16. CASE StepF(t)
  <2>1. cb[t] = l /\ cc[t] = l - 1 /\ ib[t] = l - 1 /\ ic[t] = l - 1 /\ l >= 1
    BY <1>a, <1>b, <1>4, <1>5, <1>6, <1>16 DEF StepF
  <2>2. ~StepB(t) /\ ~StepD(t)
    BY <1>16 DEF StepB, StepD, StepF
  <2> QED BY <1>6, <1>8, <1>9, <1>10, <1>16, <2>1, <2>2
<1>17. CASE StepG(t)
  <2>1. cb[t] = l /\ cc[t] = l - 1 /\ ib[t] = l - 1 /\ ic[t] = l - 1 /\ l >= 1
    BY <1>a, <1>b, <1>4, <1>5, <1>6, <1>17 DEF StepG
  <2>2. ~StepB(t) /\ ~StepD(t)
    BY <1>17 DEF StepB, StepD, StepG
  <2> QED BY <1>6, <1>8, <1>9, <1>10, <1>17, <2>1, <2>2
<1> QED BY <1>0, <1>11, <1>12, <1>13, <1>14, <1>15, <1>16, <1>17

LEMMA StaticsFacts ==
  ASSUME NEW m \in Statics
  PROVE  m.iter \in Nat /\ m.cur \in 0 .. Cells /\ m.arr \in [0 .. Cells - 1 -> Timings]
BY DEF Statics

LEMMA IterStored ==
  ASSUME NEW m \in Statics, NEW c, NEW n \in Nat, c = [m EXCEPT !.iter = n]
  PROVE  c \in Statics /\ c.iter = n /\ c.cur = m.cur /\ c.arr = m.arr
BY DEF Statics

LEMMA CurStored ==
  ASSUME NEW m \in Statics, NEW c, NEW n \in 0 .. Cells, c = [m EXCEPT !.cur = n]
  PROVE  c \in Statics /\ c.iter = m.iter /\ c.cur = n /\ c.arr = m.arr
BY DEF Statics

LEMMA ArrStored ==
  ASSUME NEW m \in Statics, NEW c, NEW n, c = [m EXCEPT !.arr[n] = Sdhs]
  PROVE  /\ c \in Statics /\ c.iter = m.iter /\ c.cur = m.cur
         /\ \A i \in 0 .. Cells - 1 : c.arr[i] = IF i = n THEN Sdhs ELSE m.arr[i]
<1>1. Sdhs \in Timings
  BY DEF Timings, Dirs
<1>2. m.arr \in [0 .. Cells - 1 -> Timings]
  BY StaticsFacts
<1> DEFINE a == [m.arr EXCEPT ![n] = Sdhs]
           d == [m EXCEPT !.arr = a]
<1>3. a \in [0 .. Cells - 1 -> Timings] /\ \A i \in 0 .. Cells - 1 : a[i] = IF i = n THEN Sdhs ELSE m.arr[i]
  BY <1>1, <1>2
<1>4. d = c
  BY Zenon
<1> HIDE DEF a
<1>5. d \in Statics /\ d.iter = m.iter /\ d.cur = m.cur /\ d.arr = a
  BY <1>3 DEF Statics
<1> QED BY <1>3, <1>4, <1>5

LEMMA ArrStep ==
  ASSUME coll \in Statics, NEW t \in Threads, StepD(t) \/ StepE(t)
  PROVE  /\ coll'.iter = coll.iter /\ coll'.cur = coll.cur
         /\ \A i \in 0 .. Cells - 1 : coll'.arr[i] = IF i = thread[t].cur THEN Sdhs ELSE coll.arr[i]
<1>1. PICK k : k = thread[t].cur
  OBVIOUS
<1>2. coll' = [coll EXCEPT !.arr[k] = Sdhs]
  BY <1>1 DEF StepD, StepE
<1>3. coll'.iter = coll.iter /\ coll'.cur = coll.cur
  BY <1>2, ArrStored
<1>4. ASSUME NEW i \in 0 .. Cells - 1 PROVE coll'.arr[i] = IF i = k THEN Sdhs ELSE coll.arr[i]
  <2> DEFINE a == [coll.arr EXCEPT ![k] = Sdhs]
  <2>1. coll' = [coll EXCEPT !.arr = a]
    BY <1>2, Zenon
  <2>2. a[i] = IF i = k THEN Sdhs ELSE coll.arr[i]
    BY StaticsFacts
  <2> HIDE DEF a
  <2>3. coll'.arr = a
    BY <2>1 DEF Statics
  <2> QED BY <2>2, <2>3
<1> QED BY <1>1, <1>3, <1>4

LEMMA LimitFacts ==
  CurLimit \in Nat /\ CurLimit <= Cells
BY TotalFacts DEF CurLimit

LEMMA ShapeStep ==
  ASSUME coll \in Statics, thread \in [Threads -> Thread], Shape, NEW t \in Threads, ThreadStep(t)
  PROVE  Shape'
<1>1. /\ \A u \in Threads : u # t => thread'[u] = thread[u]
      /\ StepA(t) \/ StepB(t) \/ StepC(t) \/ StepD(t) \/ StepE(t) \/ StepF(t) \/ StepG(t)
  BY StepFacts
<1>2. thread[t].at \notin {"idle", "alloc"} => thread[t].left >= 1
  BY DEF Shape
<1>3. thread'[t].at # "idle" /\ (thread'[t].at # "alloc" => thread'[t].left >= 1)
  BY <1>1, <1>2 DEF StepA, StepB, StepC, StepD, StepE, StepF, StepG
<1>4. ASSUME NEW u \in Threads
      PROVE  /\ thread'[u].at = "idle" => thread'[u].left = 0
             /\ thread'[u].at \notin {"idle", "alloc"} => thread'[u].left >= 1
  <2>1. CASE u = t
    BY <1>3, <2>1
  <2>2. CASE u # t
    BY <1>1, <2>2 DEF Shape
  <2> QED BY <2>1, <2>2
<1> QED BY <1>4 DEF Shape

LEMMA CellsStep ==
  ASSUME coll \in Statics, thread \in [Threads -> Thread], Shape, CellsLeft, NEW t \in Threads, ThreadStep(t),
         CurLimit' = CurLimit
  PROVE  coll' \in Statics /\ CellsLeft' /\ thread' \in [Threads -> Thread]
<1>1. /\ thread' \in [Threads -> Thread] /\ \A u \in Threads : u # t => thread'[u] = thread[u]
      /\ StepA(t) \/ StepB(t) \/ StepC(t) \/ StepD(t) \/ StepE(t) \/ StepF(t) \/ StepG(t)
  BY StepFacts
<1>2. PICK n \in Nat, n2 \in Nat, lim \in Nat :
        n = CurLeft /\ n2 = CurLeft' /\ lim = CurLimit /\ lim <= Cells
  BY CountStep, LimitFacts
<1>a. n \in Nat /\ n2 \in Nat /\ lim \in Nat /\ lim <= Cells
  BY <1>2
<1>3. Cells \in Nat
  BY TotalFacts
<1>4. PICK c \in 0 .. Cells, k \in 0 .. Cells, j \in Nat :
        c = coll.cur /\ k = thread[t].cur /\ j = thread[t].iter
  BY StaticsFacts, BoundFacts
<1>5. /\ c + n <= lim
      /\ \A u \in Threads : /\ CurLoaded(u) => thread[u].cur + n <= lim
                            /\ thread[u].at = "arr last" => thread[u].cur < lim
  BY <1>2, <1>4 DEF CellsLeft
<1>6. \A u \in Threads : thread[u].cur \in 0 .. Cells
  BY BoundFacts
<1>7. ASSUME coll'.cur + n2 <= lim,
             CurLoaded(t)' => thread'[t].cur + n2 <= lim,
             thread'[t].at = "arr last" => thread'[t].cur < lim, n2 <= n
      PROVE  CellsLeft'
  <2>1. ASSUME NEW u \in Threads
        PROVE  /\ CurLoaded(u)' => thread'[u].cur + n2 <= lim
               /\ thread'[u].at = "arr last" => thread'[u].cur < lim
    <3>1. CASE u = t
      BY <1>7, <3>1
    <3>2. CASE u # t
      <4>1. thread'[u] = thread[u] /\ (CurLoaded(u)' <=> CurLoaded(u))
        BY <1>1, <3>2 DEF CurLoaded
      <4>2. PICK x \in 0 .. Cells : x = thread[u].cur
        BY <1>6
      <4>3. ASSUME CurLoaded(u) PROVE x + n2 <= lim
        <5>1. x + n <= lim
          BY <1>5, <4>2, <4>3
        <5>2. n2 <= n
          BY <1>7
        <5>3. x \in Nat
          BY <1>3
        <5> QED BY <1>a, <5>1, <5>2, <5>3
      <4> QED BY <1>5, <4>1, <4>2, <4>3
    <3> QED BY <3>1, <3>2
  <2> QED BY <1>2, <1>7, <2>1 DEF CellsLeft
<1>8. CASE StepA(t)
  <2>1. n2 = n
    BY <1>2, <1>8, CountStep DEF StepA, StepF, StepG
  <2>3. coll' = coll
    BY <1>8 DEF StepA
  <2>2. ~CurLoaded(t)' /\ thread'[t].at # "arr last"
    BY <1>8 DEF StepA, CurLoaded
  <2>4. coll'.cur + n2 <= lim /\ n2 <= n
    <3>1. coll'.cur = c /\ c \in Nat
      BY <1>3, <1>4, <2>3
    <3>2. c + n <= lim
      BY <1>5
    <3>3. c + n2 <= lim /\ n2 <= n
      BY <1>a, <2>1, <3>1, <3>2
    <3> QED BY <3>1, <3>3
  <2> QED BY <1>1, <1>7, <2>2, <2>3, <2>4
<1>9. CASE StepB(t)
  <2>1. n2 = n
    BY <1>2, <1>9, CountStep DEF StepB, StepF, StepG
  <2>2. ~CurLoaded(t)' /\ thread'[t].at # "arr last" /\ coll' = [coll EXCEPT !.iter = j + 1]
    BY <1>4, <1>9 DEF StepB, CurLoaded
  <2>3. coll' \in Statics /\ coll'.cur = c
    <3>1. j + 1 \in Nat
      BY <1>4
    <3> QED BY <1>4, <2>2, <3>1, IterStored
  <2>4. coll'.cur + n2 <= lim /\ n2 <= n
    <3>1. coll'.cur = c /\ c \in Nat
      BY <1>3, <1>4, <2>3
    <3>2. c + n <= lim
      BY <1>5
    <3>3. c + n2 <= lim /\ n2 <= n
      BY <1>a, <2>1, <3>1, <3>2
    <3> QED BY <3>1, <3>3
  <2> QED BY <1>1, <1>7, <2>2, <2>3, <2>4
<1>10. CASE StepC(t)
  <2>1. n2 = n
    BY <1>2, <1>10, CountStep DEF StepC, StepF, StepG
  <2>2. thread'[t].at # "arr last" /\ thread'[t].cur = c
    BY <1>4, <1>10 DEF StepC
  <2>3. coll' = coll
    BY <1>10 DEF StepC
  <2>4. coll'.cur + n2 <= lim /\ n2 <= n
    <3>1. coll'.cur = c /\ c \in Nat
      BY <1>3, <1>4, <2>3
    <3>2. c + n <= lim
      BY <1>5
    <3>3. c + n2 <= lim /\ n2 <= n
      BY <1>a, <2>1, <3>1, <3>2
    <3> QED BY <3>1, <3>3
  <2>5. thread'[t].cur + n2 <= lim
    BY <1>a, <1>3, <1>4, <1>5, <2>1, <2>2
  <2> QED BY <1>1, <1>7, <2>2, <2>3, <2>4, <2>5
<1>11. CASE StepD(t)
  <2>1. n2 = n
    BY <1>2, <1>11, CountStep DEF StepD, StepF, StepG
  <2>2. coll' = [coll EXCEPT !.arr[k] = Sdhs] /\ thread'[t].at # "arr last" /\ thread'[t].cur = k /\ CurLoaded(t)
    BY <1>4, <1>11 DEF StepD, CurLoaded
  <2>3. coll' \in Statics /\ coll'.cur = c
    BY <1>4, <2>2, ArrStored
  <2>4. coll'.cur + n2 <= lim /\ n2 <= n
    <3>1. coll'.cur = c /\ c \in Nat
      BY <1>3, <1>4, <2>3
    <3>2. c + n <= lim
      BY <1>5
    <3>3. c + n2 <= lim /\ n2 <= n
      BY <1>a, <2>1, <3>1, <3>2
    <3> QED BY <3>1, <3>3
  <2>5. thread'[t].cur + n2 <= lim
    BY <1>a, <1>3, <1>4, <1>5, <2>1, <2>2
  <2> QED BY <1>1, <1>7, <2>2, <2>3, <2>4, <2>5
<1>12. CASE StepE(t)
  <2>1. n2 = n
    BY <1>2, <1>12, CountStep DEF StepE, StepF, StepG
  <2>2. coll' = [coll EXCEPT !.arr[k] = Sdhs] /\ thread'[t].at # "arr last" /\ ~CurLoaded(t)'
    BY <1>4, <1>12 DEF StepE, CurLoaded
  <2>3. coll' \in Statics /\ coll'.cur = c
    BY <1>4, <2>2, ArrStored
  <2>4. coll'.cur + n2 <= lim /\ n2 <= n
    <3>1. coll'.cur = c /\ c \in Nat
      BY <1>3, <1>4, <2>3
    <3>2. c + n <= lim
      BY <1>5
    <3>3. c + n2 <= lim /\ n2 <= n
      BY <1>a, <2>1, <3>1, <3>2
    <3> QED BY <3>1, <3>3
  <2> QED BY <1>1, <1>7, <2>2, <2>3, <2>4
<1>13. CASE StepF(t)
  <2>1. n2 = n - 1 /\ n >= 1
    BY <1>2, <1>13, CountStep
  <2>2. /\ coll' = [coll EXCEPT !.cur = k + 1] /\ ~CurLoaded(t)' /\ CurLoaded(t) /\ thread'[t].cur = k
    BY <1>4, <1>13 DEF StepF, CurLoaded
  <2>3. k + n <= lim
    BY <1>4, <1>5, <2>2
  <2>4. k + 1 \in 0 .. Cells /\ k + 1 + n2 <= lim /\ k < lim /\ n2 <= n
    BY <1>a, <1>3, <2>1, <2>3
  <2>5. coll' \in Statics /\ coll'.cur = k + 1
    <3>1. PICK v \in 0 .. Cells : v = k + 1
      BY <2>4
    <3>2. coll' = [coll EXCEPT !.cur = v]
      BY <2>2, <3>1
    <3>3. coll' \in Statics /\ coll'.cur = v
      BY <3>2, CurStored
    <3> QED BY <3>1, <3>3
  <2> QED BY <1>1, <1>7, <2>2, <2>4, <2>5
<1>14. CASE StepG(t)
  <2>1. n2 = n - 1 /\ n >= 1
    BY <1>2, <1>14, CountStep
  <2>2. /\ coll' = [coll EXCEPT !.cur = k + 1] /\ ~CurLoaded(t)' /\ CurLoaded(t) /\ thread'[t].at # "arr last"
    BY <1>4, <1>14 DEF StepG, CurLoaded
  <2>3. k + n <= lim
    BY <1>4, <1>5, <2>2
  <2>4. k + 1 \in 0 .. Cells /\ k + 1 + n2 <= lim /\ n2 <= n
    BY <1>a, <1>3, <2>1, <2>3
  <2>5. coll' \in Statics /\ coll'.cur = k + 1
    <3>1. PICK v \in 0 .. Cells : v = k + 1
      BY <2>4
    <3>2. coll' = [coll EXCEPT !.cur = v]
      BY <2>2, <3>1
    <3>3. coll' \in Statics /\ coll'.cur = v
      BY <3>2, CurStored
    <3> QED BY <3>1, <3>3
  <2> QED BY <1>1, <1>7, <2>2, <2>4, <2>5
<1> QED BY <1>1, <1>8, <1>9, <1>10, <1>11, <1>12, <1>13, <1>14

(* A step in a forked data handler counts its allocations.                 *)
LEMMA IterStep ==
  ASSUME coll \in Statics, thread \in [Threads -> Thread], Shape, IterRight, NEW t \in Threads, ThreadStep(t)
  PROVE  IterRight'
<1>1. /\ \A u \in Threads : u # t => thread'[u] = thread[u]
      /\ StepA(t) \/ StepB(t) \/ StepC(t) \/ StepD(t) \/ StepE(t) \/ StepF(t) \/ StepG(t)
  BY StepFacts
<1>2. PICK n \in Nat, n2 \in Nat, max \in Nat, c \in Nat, j \in Nat :
        n = IterLeft /\ n2 = IterLeft' /\ max = Total /\ c = coll.iter /\ j = thread[t].iter
  BY CountStep, StaticsFacts, BoundFacts, TotalFacts
<1>3. /\ c + n <= max /\ (thread[t].at = "iter" => j + n <= max)
      /\ \A u \in Threads : thread[u].at = "iter" => thread[u].iter + n <= max
  BY <1>2 DEF IterRight
<1>4. \A u \in Threads : thread[u].iter \in Nat
  BY BoundFacts
<1>5. ASSUME coll'.iter + n2 <= max, thread'[t].at = "iter" => thread'[t].iter + n2 <= max, n2 <= n,
             coll'.iter = 0 => \A u \in Threads : thread'[u].left = PerThread /\ thread'[u].at \in {"alloc", "iter"}
      PROVE  IterRight'
  <2>1. ASSUME NEW u \in Threads, thread'[u].at = "iter" PROVE thread'[u].iter + n2 <= max
    <3>1. CASE u = t
      BY <1>5, <2>1, <3>1
    <3>2. CASE u # t
      <4>1. thread[u].at = "iter" /\ thread'[u].iter = thread[u].iter
        BY <1>1, <2>1, <3>2
      <4>2. PICK x \in Nat : x = thread[u].iter /\ x + n <= max
        BY <1>3, <1>4, <4>1
      <4>3. x + n2 <= max
        BY <1>2, <1>5, <4>2
      <4> QED BY <4>1, <4>2, <4>3
    <3> QED BY <3>1, <3>2
  <2> QED BY <1>2, <1>5, <2>1 DEF IterRight
<1>6. CASE StepA(t)
  <2>1. n2 = n
    BY <1>2, <1>6, CountStep DEF StepA, StepB
  <2>2. coll' = coll /\ thread'[t].iter = c /\ thread'[t].at = "iter" /\ thread'[t].left = thread[t].left
    BY <1>2, <1>6 DEF StepA
  <2>3. coll'.iter = 0 => \A u \in Threads : thread'[u].left = PerThread /\ thread'[u].at \in {"alloc", "iter"}
    BY <1>1, <2>2 DEF IterRight
  <2>4. coll'.iter = c
    BY <1>2, <2>2
  <2> QED BY <1>2, <1>3, <1>5, <2>1, <2>2, <2>3, <2>4
<1>7. CASE StepB(t)
  <2>1. n2 = n - 1 /\ n >= 1
    BY <1>2, <1>7, CountStep
  <2>2. coll' = [coll EXCEPT !.iter = j + 1] /\ thread[t].at = "iter" /\ thread'[t].at = "add"
    BY <1>2, <1>7 DEF StepB
  <2>3. coll'.iter = j + 1
    <3>1. j + 1 \in Nat
      BY <1>2
    <3> QED BY <2>2, <3>1, IterStored
  <2>4. j + n <= max
    BY <1>3, <2>2
  <2>5. j + 1 + n2 <= max /\ j + 1 # 0 /\ n2 <= n
    BY <1>2, <2>1, <2>4
  <2> QED BY <1>5, <2>2, <2>3, <2>5
<1>8. CASE StepC(t) \/ StepD(t) \/ StepE(t) \/ StepF(t) \/ StepG(t)
  <2>1. ~StepB(t) /\ thread'[t].at # "iter" /\ thread[t].at \notin {"alloc", "iter"}
    BY <1>8 DEF StepB, StepC, StepD, StepE, StepF, StepG
  <2>2. n2 = n
    BY <1>2, <2>1, CountStep
  <2>3. coll'.iter = c
    <3>1. CASE StepC(t)
      BY <1>2, <3>1 DEF StepC
    <3>2. CASE StepD(t) \/ StepE(t)
      BY <1>2, <3>2, ArrStep
    <3>3. CASE StepF(t) \/ StepG(t)
      BY <1>2, <3>3 DEF StepF, StepG, Statics
    <3> QED BY <1>8, <3>1, <3>2, <3>3
  <2>4. c # 0
    BY <1>2, <2>1 DEF IterRight
  <2> QED BY <1>2, <1>3, <1>5, <2>1, <2>2, <2>3, <2>4
<1> QED BY <1>1, <1>6, <1>7, <1>8

LEMMA TimingStep ==
  ASSUME coll \in Statics, thread \in [Threads -> Thread], Shape, NEW t \in Threads, ThreadStep(t),
         NEW i \in 0 .. Cells - 1, Timing(i)
  PROVE  Timing(i)'
<1>1. /\ \A u \in Threads : u # t => thread'[u] = thread[u]
      /\ StepA(t) \/ StepB(t) \/ StepC(t) \/ StepD(t) \/ StepE(t) \/ StepF(t) \/ StepG(t)
  BY StepFacts
<1>2. CASE StepD(t) \/ StepE(t)
  <2>1. \A k \in 0 .. Cells - 1 : coll'.arr[k] = IF k = thread[t].cur THEN Sdhs ELSE coll.arr[k]
    BY <1>2, ArrStep
  <2>2. CASE coll.arr[i] = Sdhs
    BY <2>1, <2>2 DEF Timing
  <2>3. ASSUME NEW u \in Threads, thread[u].at = "arr last", thread[u].cur = i PROVE Timing(i)'
    <3>1. CASE u = t
      BY <2>1, <2>3, <3>1 DEF Timing
    <3>2. CASE u # t
      BY <1>1, <2>3, <3>2 DEF Timing
    <3> QED BY <3>1, <3>2
  <2> QED BY <2>2, <2>3 DEF Timing
<1>3. CASE StepA(t) \/ StepB(t) \/ StepC(t) \/ StepF(t) \/ StepG(t)
  <2>1. coll'.arr = coll.arr
    BY <1>3 DEF StepA, StepB, StepC, StepF, StepG, Statics
  <2>2. thread[t].at # "arr last"
    BY <1>3 DEF StepA, StepB, StepC, StepF, StepG
  <2>3. ASSUME NEW u \in Threads, thread[u].at = "arr last", thread[u].cur = i PROVE Timing(i)'
    BY <1>1, <2>2, <2>3 DEF Timing
  <2> QED BY <2>1, <2>3 DEF Timing
<1> QED BY <1>1, <1>2, <1>3

(* The threads leave no hole below the place of the next timing.           *)
LEMMA CurStep ==
  ASSUME coll \in Statics, thread \in [Threads -> Thread], Shape, CurRight, CellsLeft, NEW t \in Threads, ThreadStep(t)
  PROVE  CurRight'
<1>1. /\ \A u \in Threads : u # t => thread'[u] = thread[u]
      /\ StepA(t) \/ StepB(t) \/ StepC(t) \/ StepD(t) \/ StepE(t) \/ StepF(t) \/ StepG(t)
  BY StepFacts
<1>2. PICK c \in 0 .. Cells, k \in 0 .. Cells : c = coll.cur /\ k = thread[t].cur
  BY StaticsFacts, BoundFacts
<1>3. Cells \in Nat
  BY TotalFacts
<1>4. \A i \in 0 .. Cells - 1 : Timing(i) => Timing(i)'
  BY TimingStep
<1>5. /\ \A i \in 0 .. Cells - 1 : i < c => Timing(i)'
      /\ CurLoaded(t) => \A i \in 0 .. Cells - 1 : i < k => Timing(i)'
      /\ thread[t].at = "cur last" => \A i \in 0 .. Cells - 1 : i = k => Timing(i)'
  BY <1>2, <1>4 DEF CurRight
<1>6. ASSUME coll'.cur = 0 => \A u \in Threads : thread'[u].left = PerThread /\ thread'[u].at # "arr last",
             \A i \in 0 .. Cells - 1 : i < coll'.cur => Timing(i)',
             CurLoaded(t)' => \A i \in 0 .. Cells - 1 : i < thread'[t].cur => Timing(i)',
             thread'[t].at = "cur last" => \A i \in 0 .. Cells - 1 : i = thread'[t].cur => Timing(i)'
      PROVE  CurRight'
  <2>1. ASSUME NEW i \in 0 .. Cells - 1, NEW u \in Threads
        PROVE  /\ CurLoaded(u)' /\ i < thread'[u].cur => Timing(i)'
               /\ thread'[u].at = "cur last" /\ i = thread'[u].cur => Timing(i)'
    <3>1. CASE u = t
      BY <1>6, <3>1
    <3>2. CASE u # t
      <4>1. thread'[u] = thread[u] /\ (CurLoaded(u)' <=> CurLoaded(u))
        BY <1>1, <3>2 DEF CurLoaded
      <4> QED BY <1>4, <4>1 DEF CurRight
    <3> QED BY <3>1, <3>2
  <2> QED BY <1>6, <2>1 DEF CurRight
<1>7. CASE StepA(t) \/ StepB(t) \/ StepC(t) \/ StepD(t) \/ StepE(t)
  <2>1. coll'.cur = c
    <3>1. CASE StepA(t) \/ StepC(t)
      BY <1>2, <3>1 DEF StepA, StepC
    <3>2. CASE StepB(t)
      BY <1>2, <3>2 DEF StepB, Statics
    <3>3. CASE StepD(t) \/ StepE(t)
      BY <1>2, <3>3, ArrStep
    <3> QED BY <1>7, <3>1, <3>2, <3>3
  <2>2. coll'.cur = 0 => \A u \in Threads : thread'[u].left = PerThread /\ thread'[u].at # "arr last"
    <3>1. SUFFICES ASSUME c = 0, NEW u \in Threads PROVE thread'[u].left = PerThread /\ thread'[u].at # "arr last"
      BY <2>1
    <3>2. \A v \in Threads : thread[v].left = PerThread /\ thread[v].at # "arr last"
      BY <1>2, <3>1 DEF CurRight
    <3>3. thread'[t].left = thread[t].left /\ thread'[t].at # "arr last"
      BY <1>7, <3>2 DEF StepA, StepB, StepC, StepD, StepE
    <3> QED BY <1>1, <3>2, <3>3
  <2>3. CurLoaded(t)' => StepC(t) \/ StepD(t)
    BY <1>7 DEF CurLoaded, StepA, StepB, StepC, StepD, StepE
  <2>4. CurLoaded(t)' => \A i \in 0 .. Cells - 1 : i < thread'[t].cur => Timing(i)'
    <3>1. CASE StepC(t)
      BY <1>2, <1>5, <3>1 DEF StepC
    <3>2. CASE StepD(t)
      <4>1. CurLoaded(t) /\ thread'[t].cur = k
        BY <1>2, <3>2 DEF StepD, CurLoaded
      <4> QED BY <1>5, <4>1
    <3> QED BY <2>3, <3>1, <3>2
  <2>5. thread'[t].at = "cur last" => \A i \in 0 .. Cells - 1 : i = thread'[t].cur => Timing(i)'
    <3>1. SUFFICES ASSUME thread'[t].at = "cur last", NEW i \in 0 .. Cells - 1, i = thread'[t].cur PROVE Timing(i)'
      OBVIOUS
    <3>2. StepD(t)
      BY <1>7, <3>1 DEF StepA, StepB, StepC, StepD, StepE
    <3>3. coll'.arr[i] = Sdhs
      BY <3>1, <3>2, ArrStep DEF StepD
    <3> QED BY <3>3 DEF Timing
  <2> QED BY <1>5, <1>6, <2>1, <2>2, <2>4, <2>5
<1>8. CASE StepF(t) \/ StepG(t)
  <2>1. PICK lim \in Nat, n \in Nat : lim = CurLimit /\ lim <= Cells /\ n = CurLeft /\ n >= 1
    BY <1>8, LimitFacts, CountStep
  <2>2. CurLoaded(t) /\ ~CurLoaded(t)' /\ thread'[t].at # "cur last" /\ coll' = [coll EXCEPT !.cur = k + 1]
    BY <1>2, <1>8 DEF StepF, StepG, CurLoaded
  <2>3. k + n <= lim
    BY <1>2, <2>1, <2>2 DEF CellsLeft
  <2>4. k + 1 \in 0 .. Cells /\ k + 1 # 0
    BY <1>3, <2>1, <2>3
  <2>5. coll'.cur = k + 1
    <3>1. PICK v \in 0 .. Cells : v = k + 1
      BY <2>4
    <3>2. coll' = [coll EXCEPT !.cur = v]
      BY <2>2, <3>1
    <3>3. coll'.cur = v
      BY <3>2, CurStored
    <3> QED BY <3>1, <3>3
  <2>6. \A i \in 0 .. Cells - 1 : i = k => Timing(i)'
    <3>1. CASE StepF(t)
      BY <1>2, <3>1 DEF StepF, Timing
    <3>2. CASE StepG(t)
      BY <1>5, <3>2 DEF StepG
    <3> QED BY <1>8, <3>1, <3>2
  <2>7. \A i \in 0 .. Cells - 1 : i < k + 1 => i < k \/ i = k
    BY <1>3
  <2> QED BY <1>5, <1>6, <2>2, <2>4, <2>5, <2>6, <2>7
<1> QED BY <1>1, <1>7, <1>8

(* A step that leaves the timings and the threads alone.                   *)
Plain ==
  /\ thread' = thread /\ coll' = coll /\ drained' = drained /\ conf' = conf
  /\ pc # "sdhs run" /\ pc' \notin {"conf", "sdhs", "sdhs run"} /\ (pc = "over" => pc' = "over")
  /\ (Running' <=> Running) /\ (Running => proc' = proc)
  /\ pc # "conf" /\ pc' # "over" =>
       /\ InSdhs' <=> InSdhs
       /\ suite' = suite \/ (suite # <<>> /\ suite' = Tail(suite) /\ ~InSdhs)

Measuring == each_size_by_itself \/ all_sizes_repeatedly

LEMMA PlainFacts ==
  ASSUME BenchTypeOK, TestOK, PhaseOK, EntryOK, BenchNext
  PROVE  \/ Plain \/ Dies \/ Measuring \/ CloseLog \/ sdhs_test \/ SdhsStarts
         \/ SdhsThread \/ SdhsWaits \/ SdhsEnds \/ Restart
<1>a. pc = "loop" => suite # <<>>
  BY DEF TestOK
<1> USE DEF Plain, Running, InSdhs, InWrite, control, process
<1>1. CASE run_tests
  BY <1>1 DEF run_tests, Return
<1>2. CASE TestsDone
  BY <1>2 DEF TestsDone, Return
<1>3. CASE UnknownTest
  BY <1>3 DEF UnknownTest
<1>4. CASE prepare_logging
  BY <1>4 DEF prepare_logging
<1>5. CASE arena_test
  BY <1>5 DEF arena_test
<1>6. CASE malloc_test
  BY <1>6 DEF malloc_test
<1>7. CASE LoopsDone
  BY <1>7, <1>a DEF LoopsDone
<1>8. CASE tight_loop_test
  <2>1. CASE Dies
    BY <2>1
  <2>2. CASE ~Dies
    BY <1>8, <2>2 DEF tight_loop_test
  <2> QED BY <2>1, <2>2
<1>9. CASE Fork
  BY <1>9 DEF Fork
<1>10. CASE LoopEnds
  BY <1>10 DEF LoopEnds
<1>11. CASE ChildStarts
  BY <1>11 DEF ChildStarts
<1>12. CASE EachEnds
  BY <1>12 DEF EachEnds
<1>13. CASE OpenEntry \/ WriteBody
  <2>0. /\ InWrite /\ conf' = conf /\ suite' = suite /\ loops' = loops /\ proc' = proc
        /\ entry' = entry /\ coll' = coll /\ thread' = thread /\ drained' = drained
        /\ Written \/ pc' = "body"
    BY <1>13, WritingFacts
  <2> HIDE DEF InWrite, InSdhs, Running
  <2>1. CASE Written
    <3>1. \/ entry # Sdhs /\ pc' \in {"each", "close"}
          \/ entry = Sdhs /\ pc' = "sdhs end"
      BY <2>0, <2>1, WrittenFacts
    <3> QED BY <2>0, <3>1 DEF InWrite, InSdhs, Running
  <2>2. CASE pc' = "body"
    BY <2>0, <2>2 DEF InWrite, InSdhs, Running
  <2> QED BY <2>0, <2>1, <2>2
<1>14. CASE OpenFails
  BY <1>14 DEF OpenFails
<1>15. CASE ForkSdhsFails
  BY <1>15 DEF ForkSdhsFails
<1>16. CASE Terminated
  BY <1>16 DEF Terminated, benchVars
<1> QED BY <1>1, <1>2, <1>3, <1>4, <1>5, <1>6, <1>7, <1>8, <1>9, <1>10, <1>11, <1>12, <1>13, <1>14, <1>15, <1>16
           DEF BenchNext, Measuring

(* Where no thread runs, no store is to come.                              *)
LEMMA NoThreadFacts ==
  /\ \A t \in Threads : NoThreads[t].at = "idle" /\ NoThreads[t].left = 0
  /\ NoThreads \in [Threads -> Thread]
  /\ Cardinality(Below(CurBound(NoThreads))) = 0
  /\ FreshMem \in Statics /\ FreshMem.iter = 0 /\ FreshMem.cur = 0
<1>1. \A t \in Threads : NoThreads[t].at = "idle" /\ NoThreads[t].left = 0
  BY DEF NoThreads, NoThread
<1>2. NoThread \in Thread
  BY TotalFacts DEF NoThread, Thread
<1>3. NoThreads \in [Threads -> Thread]
  BY <1>2 DEF NoThreads
<1>4. Below(CurBound(NoThreads)) = {}
  <2>1. \A u \in Threads : CurBound(NoThreads)[u] = 0
    BY <1>1, <1>3, BoundFacts
  <2> QED BY <2>1, TotalFacts DEF Below
<1>5. Cardinality(Below(CurBound(NoThreads))) = 0
  BY <1>4, FS_EmptySet
<1>6. FreshMem \in Statics /\ FreshMem.iter = 0 /\ FreshMem.cur = 0
  <2>1. Blank \in [0 .. Cells - 1 -> Timings]
    BY DEF Blank, Timings
  <2> QED BY <2>1, TotalFacts DEF FreshMem, Statics
<1> QED BY <1>1, <1>3, <1>5, <1>6

LEMMA StartFacts ==
  /\ \A t \in Threads : StartThreads[t].at = "alloc" /\ StartThreads[t].left = PerThread
  /\ StartThreads \in [Threads -> Thread] /\ StartThreads # NoThreads
<1>1. PerThread \in 0 .. PerThread /\ Cells \in Nat
  BY TotalFacts
<1>2. [NoThread EXCEPT !.at = "alloc", !.left = PerThread] \in Thread
  <2>1. NoThread \in Thread
    BY <1>1 DEF NoThread, Thread
  <2> QED BY <1>1, <2>1 DEF Thread
<1>3. \A t \in Threads : StartThreads[t].at = "alloc" /\ StartThreads[t].left = PerThread
  BY DEF StartThreads, NoThread
<1>4. StartThreads \in [Threads -> Thread]
  BY <1>2 DEF StartThreads
<1>5. StartThreads # NoThreads
  <2>1. PICK t \in Threads : TRUE
    BY TotalFacts
  <2>2. StartThreads[t].at = "alloc" /\ NoThreads[t].at = "idle"
    BY <1>3, NoThreadFacts
  <2>3. ASSUME StartThreads = NoThreads PROVE FALSE
    BY <2>2, <2>3
  <2> QED BY <2>3
<1> QED BY <1>3, <1>4, <1>5

(* A drained process has no thread that can take a step.                   *)
LEMMA DrainedFacts ==
  ASSUME Shape, \A t \in Threads : thread[t].left = 0, NEW t \in Threads,
         thread \in [Threads -> Thread]
  PROVE  ~ThreadStep(t)
<1>1. thread[t].left = 0
  OBVIOUS
<1>2. thread[t].at \in {"idle", "alloc"}
  BY <1>1 DEF Shape
<1>3. ~LoadIter(t)
  BY <1>1 DEF LoadIter
<1>4. ~StoreIter(t) /\ ~LoadCur(t) /\ ~StoreArr(t) /\ ~StoreCur(t)
  BY <1>2 DEF StoreIter, LoadCur, StoreArr, StoreCur
<1> QED BY <1>3, <1>4 DEF ThreadStep, add_timing

(* The timings of a measurement, in the arrays of a fresh collection.      *)
LEMMA TimedFacts ==
  ASSUME NEW m \in Statics, NEW n \in 0 .. Cells, NEW tag \in Timings, NEW arr \in [0 .. Cells - 1 -> Timings]
  PROVE  /\ Timed(init_alloc_tcoll(m, arr), tag, n) \in Statics
         /\ Timed(init_alloc_tcoll(m, arr), tag, n).iter = m.iter + n
         /\ Timed(init_alloc_tcoll(m, arr), tag, n).cur = n
         /\ \A i \in 0 .. Cells - 1 : i < n => Timed(init_alloc_tcoll(m, arr), tag, n).arr[i] = tag
<1> DEFINE c == Timed(init_alloc_tcoll(m, arr), tag, n)
<1> DEFINE d == init_alloc_tcoll(m, arr)
<1>0. m.iter \in Nat /\ Cells \in Nat
  BY TotalFacts DEF Statics
<1>1. d.cur = 0 /\ d.iter = m.iter /\ d.arr = arr
  BY DEF Statics, init_alloc_tcoll
<1> DEFINE a == [i \in 0 .. Cells - 1 |-> IF i \in d.cur .. d.cur + n - 1 THEN tag ELSE d.arr[i]]
<1>2. c = [iter |-> d.iter + n, cur |-> d.cur + n, arr |-> a]
  BY DEF Timed
<1> HIDE DEF d
<1>3. a \in [0 .. Cells - 1 -> Timings]
  BY <1>1
<1>4. \A i \in 0 .. Cells - 1 : i < n => a[i] = tag
  BY <1>0, <1>1
<1> HIDE DEF a
<1>5. c.iter = d.iter + n /\ c.cur = d.cur + n /\ c.arr = a
  BY <1>2
<1>6. d.iter + n \in Nat /\ d.cur + n = n /\ d.iter + n = m.iter + n
  BY <1>0, <1>1
<1>7. c \in Statics
  BY <1>2, <1>3, <1>6 DEF Statics
<1> QED BY <1>4, <1>5, <1>6, <1>7

(* The files of a measurement.                                             *)
LEMMA DirFacts ==
  /\ Sdhs \in Dirs
  /\ \A t \in {"arena", "malloc", "sdhs"} : LogDir(t) \in Dirs
  /\ \A fn \in Fns, c \in ToSet(Classes) :
       /\ Dir(fn, 0, c) \in Dirs
       /\ \A s \in ToSet(SizesOf[c]) : Dir(fn, s, "") \in Dirs
<1>1. Sdhs \in Dirs /\ \A t \in {"arena", "malloc", "sdhs"} : LogDir(t) \in Dirs
  BY DEF Dirs
<1>2. \A c \in ToSet(Classes) : ClassDirs(c) \subseteq Dirs
  BY DEF Dirs
<1>3. \A fn \in Fns, c \in ToSet(Classes) : Dir(fn, 0, c) \in ClassDirs(c)
  BY DEF ClassDirs
<1>4. ASSUME NEW fn \in Fns, NEW c \in ToSet(Classes), NEW s \in ToSet(SizesOf[c]) PROVE Dir(fn, s, "") \in ClassDirs(c)
  <2>1. <<fn, s>> \in Fns \X ToSet(SizesOf[c]) /\ <<fn, s>>[1] = fn /\ <<fn, s>>[2] = s
    OBVIOUS
  <2> QED BY <2>1 DEF ClassDirs
<1> QED BY <1>1, <1>2, <1>3, <1>4

LEMMA CountFacts ==
  ASSUME NEW c \in ToSet(Classes)
  PROVE  /\ Iterations \in Nat \ {0} /\ Len(SizesOf[c]) \in Nat \ {0}
         /\ Iterations * Len(SizesOf[c]) \in Nat /\ Iterations * 1 = Iterations
         /\ Iterations * Len(SizesOf[c]) + Total <= Cells
         /\ Iterations <= Iterations * Len(SizesOf[c])
<1>1. /\ Iterations \in Nat \ {0} /\ SizesOf[c] \in Seq(Nat \ {0}) /\ Len(SizesOf[c]) > 0
      /\ Iterations * Len(SizesOf[c]) + Total <= Cells
  BY BenchAssumption
<1>2. Len(SizesOf[c]) \in Nat \ {0}
  <2>1. Len(SizesOf[c]) \in Nat
    BY <1>1, LenProperties
  <2> QED BY <1>1, <2>1
<1>4. PICK a \in Nat \ {0}, b \in Nat \ {0} : a = Iterations /\ b = Len(SizesOf[c])
  BY <1>1, <1>2
<1>3. a * b \in Nat /\ a * 1 = a /\ a <= a * b
  BY SMT
<1> QED BY <1>1, <1>2, <1>3, <1>4

LEMMA MeasuringFacts ==
  ASSUME BenchTypeOK, TestOK, EntryOK, Measuring, ~Dies
  PROVE  /\ coll' \in Statics /\ coll'.cur = Count(entry') /\ coll'.cur + Total <= Cells
         /\ coll'.iter = coll.iter + Count(entry') /\ Count(entry') \in Nat
         /\ \A i \in 0 .. Cells - 1 : i < coll'.cur => coll'.arr[i] = entry'
         /\ entry' \in Dirs /\ entry' # Sdhs
         /\ pc = "each" => entry'.size # 0 /\ Count(entry') = Iterations
         /\ pc = "all" => /\ entry'.size = 0 /\ entry'.class = Loop.class
                          /\ Count(entry') = Iterations * Len(SizesOf[Loop.class])
<1>1. /\ pc \in {"each", "all"} /\ InLoop
      /\ pc = "each" =>
           /\ left # <<>> /\ entry' = Dir(Loop.fn, Head(left), "")
           /\ \E arr \in {Blank, coll.arr} :
                coll' = Timed(init_alloc_tcoll(coll, arr), entry', Iterations)
      /\ pc = "all" =>
           /\ entry' = Dir(Loop.fn, 0, Loop.class)
           /\ coll' = Timed(init_alloc_tcoll(coll, Blank), entry', Iterations * Len(SizesOf[Loop.class]))
  BY MeasureFacts DEF Measuring
<1>2. /\ Loop.fn \in Fns /\ Loop.class \in ToSet(Classes) /\ Loop.fn # "sdhs"
      /\ SizesOf[Loop.class] \in Seq(Nat \ {0})
  BY <1>1, LoopFacts
<1>3. /\ Iterations \in Nat \ {0} /\ Iterations * Len(SizesOf[Loop.class]) \in Nat /\ Iterations * 1 = Iterations
      /\ Iterations * Len(SizesOf[Loop.class]) + Total <= Cells
      /\ Iterations <= Iterations * Len(SizesOf[Loop.class])
  BY <1>2, CountFacts
<1>4. Cells \in Nat /\ Total \in Nat /\ coll \in Statics /\ Blank \in [0 .. Cells - 1 -> Timings]
      /\ coll.arr \in [0 .. Cells - 1 -> Timings]
  BY TotalFacts, StaticsFacts DEF BenchTypeOK, Blank, Timings
<1>5. \A n, c : /\ Dir(Loop.fn, n, c) # Sdhs /\ Dir(Loop.fn, n, c).size = n /\ Dir(Loop.fn, n, c).class = c
  BY <1>2 DEF Dir, Sdhs
<1>6. CASE pc = "each"
  <2>1. PICK arr \in {Blank, coll.arr} : coll' = Timed(init_alloc_tcoll(coll, arr), entry', Iterations)
    BY <1>1, <1>6
  <2>2. left \in Seq(Nat \ {0}) /\ Rest(left, SizesOf[Loop.class]) /\ left # <<>>
    BY <1>1, <1>6, TypeFacts DEF EntryOK, Sizing
  <2>3. Head(left) \in ToSet(SizesOf[Loop.class])
    BY <1>2, <2>2, RestFacts
  <2>4. Head(left) # 0
    BY <2>2, HeadTailProperties
  <2>e. entry' = Dir(Loop.fn, Head(left), "")
    BY <1>1, <1>6
  <2>5. entry' \in Dirs /\ entry' # Sdhs /\ entry'.size # 0
    <3>1. Dir(Loop.fn, Head(left), "") \in Dirs
      BY <1>2, <2>3, DirFacts, Zenon
    <3>2. Dir(Loop.fn, Head(left), "") # Sdhs /\ Dir(Loop.fn, Head(left), "").size = Head(left)
      BY <1>5, Zenon
    <3> QED BY <2>4, <2>e, <3>1, <3>2
  <2>6. Count(entry') = Iterations
    BY <1>3, <2>5 DEF Count
  <2>7. Iterations \in 0 .. Cells /\ Iterations + Total <= Cells
    BY <1>3, <1>4
  <2>8. entry' \in Timings /\ arr \in [0 .. Cells - 1 -> Timings]
    BY <1>4, <2>5 DEF Timings
  <2>9. /\ coll' \in Statics /\ coll'.iter = coll.iter + Iterations /\ coll'.cur = Iterations
        /\ \A i \in 0 .. Cells - 1 : i < Iterations => coll'.arr[i] = entry'
    <3>1. PICK e \in Timings, m \in Statics : e = entry' /\ m = coll
      BY <1>4, <2>8
    <3> DEFINE c == Timed(init_alloc_tcoll(m, arr), e, Iterations)
    <3>2. /\ c \in Statics /\ c.iter = m.iter + Iterations /\ c.cur = Iterations
          /\ \A i \in 0 .. Cells - 1 : i < Iterations => c.arr[i] = e
      BY <2>7, <2>8, TimedFacts
    <3>3. c = coll'
      BY <2>1, <3>1
    <3> HIDE DEF c
    <3> QED BY <3>1, <3>2, <3>3
  <2> QED BY <1>3, <1>6, <2>5, <2>6, <2>7, <2>9
<1>7. CASE pc = "all"
  <2> DEFINE k == Iterations * Len(SizesOf[Loop.class])
  <2>1. entry' = Dir(Loop.fn, 0, Loop.class)
    BY <1>1, <1>7
  <2>2. entry' \in Dirs
    BY <1>2, <2>1, DirFacts
  <2>5. entry' \in Dirs /\ entry' # Sdhs /\ entry'.size = 0 /\ entry'.class = Loop.class
    BY <1>5, <2>1, <2>2
  <2>6. Count(entry') = k
    BY <2>5 DEF Count
  <2>7. k \in 0 .. Cells /\ k + Total <= Cells /\ k \in Nat
    BY <1>3, <1>4
  <2>8. entry' \in Timings
    BY <2>5 DEF Timings
  <2>0. coll' = Timed(init_alloc_tcoll(coll, Blank), entry', k)
    BY <1>1, <1>7
  <2> HIDE DEF k
  <2>9. /\ coll' \in Statics /\ coll'.iter = coll.iter + k /\ coll'.cur = k
        /\ \A i \in 0 .. Cells - 1 : i < k => coll'.arr[i] = entry'
    <3>1. PICK e \in Timings, m \in Statics, n \in 0 .. Cells : e = entry' /\ m = coll /\ n = k
      BY <1>4, <2>7, <2>8
    <3> DEFINE c == Timed(init_alloc_tcoll(m, Blank), e, n)
    <3>2. /\ c \in Statics /\ c.iter = m.iter + n /\ c.cur = n
          /\ \A i \in 0 .. Cells - 1 : i < n => c.arr[i] = e
      <4>1. PICK arr \in [0 .. Cells - 1 -> Timings] : arr = Blank
        BY <1>4
      <4> QED BY <4>1, TimedFacts
    <3>3. c = coll'
      BY <2>0, <3>1
    <3> HIDE DEF c
    <3> QED BY <3>1, <3>2, <3>3
  <2> QED BY <1>7, <2>5, <2>6, <2>7, <2>9 DEF k
<1> QED BY <1>1, <1>6, <1>7

LEMMA ProcFacts ==
  ASSUME BenchTypeOK, PhaseOK, FreshOK, ThreadsOK
  PROVE  /\ conf.debugger \in BOOLEAN
         /\ proc # 0 => ~conf.debugger /\ parent.coll = FreshMem /\ pc \in ChildAt
         /\ pc \in ChildAt /\ ~conf.debugger => proc # 0
         /\ Running => pc \in ChildAt
         /\ proc # 0 /\ ~Running => thread = NoThreads
         /\ proc # 0 /\ pc \in {"child", "all", "sdhs"} => coll = FreshMem
<1>1. conf.debugger \in BOOLEAN
  BY TypeFacts
<1>2. /\ proc # 0 => ~conf.debugger /\ pc \in ChildAt
      /\ pc \in ChildAt /\ ~conf.debugger => proc # 0
  BY <1>1 DEF PhaseOK
<1>3. Running => pc \in ChildAt
  BY DEF Running, InWrite, ChildAt
<1>4. proc # 0 => parent.coll = FreshMem /\ (pc \in {"child", "all", "sdhs"} => coll = FreshMem)
  BY <1>2 DEF FreshOK
<1>5. proc # 0 /\ ~Running => thread = NoThreads
  BY <1>2 DEF ThreadsOK
<1> QED BY <1>1, <1>2, <1>3, <1>4, <1>5

(* The threads and the timings of a process that is not a data handler.    *)
RunOK == coll \in Statics /\ thread \in [Threads -> Thread] /\ Shape /\ CellsLeft /\ ThreadsOK /\ SdhsOK

LEMMA GoneFacts ==
  ASSUME thread' = NoThreads, coll' \in Statics, coll' = FreshMem \/ pc' = "over", ~(proc' # 0 /\ Running')
  PROVE  RunOK'
<1>1. /\ \A t \in Threads : thread'[t].at = "idle" /\ thread'[t].left = 0
      /\ thread' \in [Threads -> Thread] /\ CurLeft' = 0
  BY NoThreadFacts DEF CurLeft
<1>2. Shape'
  BY <1>1 DEF Shape
<1>3. CurLimit' = Cells
  BY DEF CurLimit
<1>4. coll'.cur \in 0 .. Cells /\ Cells \in Nat
  BY StaticsFacts, TotalFacts
<1>5. coll'.cur + 0 <= Cells
  BY <1>4
<1>6. CellsLeft'
  BY <1>1, <1>3, <1>5 DEF CellsLeft, CurLoaded
<1>7. pc' # "over" => coll'.cur + Total <= Cells
  BY NoThreadFacts, TotalFacts
<1>8. ThreadsOK'
  BY <1>1, <1>7 DEF ThreadsOK
<1>9. SdhsOK'
  BY DEF SdhsOK
<1> QED BY <1>1, <1>2, <1>6, <1>8, <1>9 DEF RunOK

LEMMA PlainRun ==
  ASSUME BenchTypeOK, PhaseOK, FreshOK, RunOK, Plain
  PROVE  RunOK'
<1>1. /\ thread' = thread /\ coll' = coll /\ drained' = drained /\ conf' = conf
      /\ pc # "sdhs run" /\ pc' \notin {"conf", "sdhs", "sdhs run"} /\ (pc = "over" => pc' = "over")
      /\ (Running' <=> Running) /\ (Running => proc' = proc)
      /\ pc # "conf" /\ pc' # "over" =>
           /\ InSdhs' <=> InSdhs
           /\ suite' = suite \/ (suite # <<>> /\ suite' = Tail(suite) /\ ~InSdhs)
  BY DEF Plain
<1>2. Shape' /\ coll' \in Statics /\ thread' \in [Threads -> Thread]
  BY <1>1 DEF RunOK, Shape
<1>3. CellsLeft'
  <2>1. CurLimit' = CurLimit /\ CurLeft' = CurLeft
    BY <1>1 DEF CurLimit, CurLeft
  <2> QED BY <1>1, <2>1 DEF RunOK, CellsLeft, CurLoaded
<1>4. SdhsOK'
  <2>1. ASSUME proc' # 0, Running' PROVE IterRight' /\ CurRight'
    <3>1. IterRight /\ CurRight
      BY <1>1, <2>1 DEF RunOK, SdhsOK
    <3>2. IterRight'
      BY <1>1, <3>1 DEF IterRight, IterLeft
    <3>3. CurRight'
      BY <1>1, <3>1 DEF CurRight, Timing, CurLoaded
    <3> QED BY <3>2, <3>3
  <2> QED BY <2>1 DEF SdhsOK
<1>5. ThreadsOK'
  <2>0. ThreadsOK
    BY DEF RunOK
  <2>1. pc' = "conf" \/ pc' = "sdhs" \/ (~conf'.debugger /\ ~Running') => thread' = NoThreads
    BY <1>1, <2>0 DEF ThreadsOK
  <2>2. thread' = NoThreads /\ pc' # "over" => coll'.cur + Total <= Cells
    BY <1>1, <2>0 DEF ThreadsOK
  <2>3. drained' /\ pc' # "sdhs run" => \A t \in Threads : thread'[t].left = 0
    BY <1>1, <2>0 DEF ThreadsOK
  <2>4. ASSUME conf'.debugger, thread' # NoThreads, pc' # "over"
        PROVE  "sdhs" \notin ToSet(IF InSdhs' THEN Tail(suite') ELSE suite')
    <3>1. pc # "conf" /\ pc # "over"
      BY <1>1, <2>0, <2>4 DEF ThreadsOK
    <3>2. "sdhs" \notin ToSet(IF InSdhs THEN Tail(suite) ELSE suite)
      BY <1>1, <2>0, <2>4, <3>1 DEF ThreadsOK
    <3>3. CASE suite' = suite
      BY <1>1, <2>4, <3>1, <3>2, <3>3
    <3>4. CASE suite # <<>> /\ suite' = Tail(suite) /\ ~InSdhs
      <4>1. ToSet(Tail(suite)) \subseteq ToSet(suite)
        <5>1. suite \in Seq(STRING)
          BY TypeFacts
        <5>2. \A i \in 1 .. Len(Tail(suite)) : Tail(suite)[i] = suite[i + 1] /\ i + 1 \in 1 .. Len(suite)
          BY <3>4, <5>1, HeadTailProperties
        <5> QED BY <3>4, <5>1, <5>2, HeadTailProperties DEF ToSet
      <4> QED BY <1>1, <2>4, <3>1, <3>2, <3>4, <4>1
    <3> QED BY <1>1, <2>4, <3>1, <3>3, <3>4
  <2> QED BY <2>1, <2>2, <2>3, <2>4 DEF ThreadsOK
<1> QED BY <1>2, <1>3, <1>4, <1>5 DEF RunOK

LEMMA DiesRun ==
  ASSUME BenchTypeOK, PhaseOK, FreshOK, RunOK, Dies
  PROVE  RunOK'
<1>1. thread' = NoThreads /\ coll' = parent.coll /\ proc' = 0 /\ parent.coll \in Statics
  BY DEF Dies, BenchTypeOK
<1>2. pc' = "over" \/ proc # 0
  BY DiesFacts
<1>3. proc # 0 => parent.coll = FreshMem
  BY ProcFacts DEF RunOK
<1> QED BY <1>1, <1>2, <1>3, GoneFacts

LEMMA MeasureRun ==
  ASSUME BenchTypeOK, TestOK, PhaseOK, EntryOK, FreshOK, RunOK, Measuring
  PROVE  RunOK'
<1>1. CASE Dies
  BY <1>1, DiesRun
<1>2. CASE ~Dies
  <2>1. /\ coll' \in Statics /\ coll'.cur + Total <= Cells /\ entry' # Sdhs
    BY <1>2, MeasuringFacts
  <2>2. /\ pc \in {"each", "all"} /\ pc' = "write" /\ conf' = conf /\ suite' = suite /\ proc' = proc
        /\ thread' = thread /\ drained' = drained
    BY <1>2, MeasureFacts DEF Measuring
  <2>3. ~Running /\ ~Running' /\ ~InSdhs /\ ~InSdhs'
    BY <2>1, <2>2 DEF Running, InSdhs, InWrite
  <2>4. Shape' /\ thread' \in [Threads -> Thread]
    BY <2>2 DEF RunOK, Shape
  <2>5. SdhsOK'
    BY <2>3 DEF SdhsOK
  <2>6. CellsLeft'
    <3>1. CurLimit = Cells /\ CurLimit' = Cells
      BY <2>3 DEF CurLimit
    <3>2. CurLeft' = CurLeft /\ CurLeft \in Nat /\ CurLeft <= Total
      BY <2>2, BelowFacts DEF CurLeft
    <3>3. PICK c \in Nat, n \in Nat, m \in Nat, k \in Nat : c = coll'.cur /\ n = CurLeft /\ m = Total /\ k = Cells
      BY <2>1, <3>2, StaticsFacts, TotalFacts
    <3>4. c + n <= k
      BY <2>1, <3>2, <3>3
    <3>5. coll'.cur + CurLeft' <= Cells
      BY <3>2, <3>3, <3>4
    <3>6. \A t \in Threads : /\ CurLoaded(t) => thread[t].cur + CurLeft <= Cells
                             /\ thread[t].at = "arr last" => thread[t].cur < Cells
      BY <3>1 DEF RunOK, CellsLeft
    <3> QED BY <2>2, <3>1, <3>2, <3>5, <3>6 DEF CellsLeft, CurLoaded
  <2>7. ThreadsOK'
    <3>0. ThreadsOK
      BY DEF RunOK
    <3> QED BY <2>1, <2>2, <2>3, <3>0 DEF ThreadsOK
  <2> QED BY <2>1, <2>4, <2>5, <2>6, <2>7 DEF RunOK
<1> QED BY <1>1, <1>2

LEMMA CloseRun ==
  ASSUME BenchTypeOK, PhaseOK, FreshOK, RunOK, CloseLog
  PROVE  RunOK'
<1>1. CASE Dies
  BY <1>1, DiesRun
<1>2. CASE ~Dies /\ proc # 0
  <2>1. pc = "close" /\ pc' = "forked" /\ proc' = 0 /\ thread' = thread /\ coll' = parent.coll
    BY <1>2, CloseFacts
  <2>2. ~Running
    BY <2>1 DEF Running, InWrite
  <2>3. thread = NoThreads /\ parent.coll = FreshMem /\ parent.coll \in Statics
    BY <1>2, <2>2, ProcFacts DEF RunOK, BenchTypeOK
  <2> QED BY <2>1, <2>3, GoneFacts
<1>3. CASE ~Dies /\ proc = 0
  <2>1. /\ pc = "close" /\ pc' = "forked" /\ proc' = 0 /\ thread' = thread /\ coll' = coll
        /\ conf' = conf /\ suite' = suite /\ drained' = drained
    BY <1>3, CloseFacts
  <2>2. Plain
    BY <2>1 DEF Plain, Running, InWrite, InSdhs
  <2> QED BY <2>2, PlainRun
<1> QED BY <1>1, <1>2, <1>3

LEMMA PlaceFacts ==
  ASSUME NEW a \in Nat, NEW b \in Nat, a <= b, NEW i \in 1 .. a - 1
  PROVE  i + 1 + (b - a) \in 1 .. b /\ 1 + (b - a) \in 1 .. b /\ i + 1 + (b - a) # 1 + (b - a)
OBVIOUS

(* The program was never at a data handler before.                         *)
LEMMA FirstSdhs ==
  ASSUME BenchTypeOK, TestOK, InSdhs, conf.debugger
  PROVE  "sdhs" \notin ToSet(Tail(suite))
<1>1. /\ suite \in Seq(STRING) /\ conf.suite \in Seq(STRING) /\ conf \in Confs
      /\ suite # <<>> /\ Head(suite) = "sdhs" /\ Rest(suite, conf.suite)
  BY TypeFacts DEF BenchTypeOK, TestOK, InSdhs, InWrite
<1>2. /\ Len(suite) >= 1 /\ Len(suite) \in Nat /\ Head(suite) = suite[1] /\ Len(Tail(suite)) = Len(suite) - 1
      /\ Tail(suite) \in Seq(STRING)
      /\ \A i \in 1 .. Len(Tail(suite)) : Tail(suite)[i] = suite[i + 1]
  BY <1>1, HeadTailProperties, EmptySeq
<1>3. \A i, j \in 1 .. Len(conf.suite) : conf.suite[i] = "sdhs" /\ conf.suite[j] = "sdhs" => i = j
  BY <1>1, ConfsAssumption
<1>4. ASSUME NEW i \in 1 .. Len(suite) - 1, suite[i + 1] = "sdhs" PROVE FALSE
  <2> DEFINE n == Len(conf.suite) - Len(suite)
  <2>1. n \in Nat /\ conf.suite[i + 1 + n] = "sdhs" /\ conf.suite[1 + n] = "sdhs"
    BY <1>1, <1>2, <1>4 DEF Rest
  <2>2. i + 1 + n \in 1 .. Len(conf.suite) /\ 1 + n \in 1 .. Len(conf.suite) /\ i + 1 + n # 1 + n
    <3>1. Len(suite) \in Nat /\ Len(conf.suite) \in Nat /\ Len(suite) <= Len(conf.suite)
      BY <1>1, LenProperties DEF Rest
    <3> QED BY <3>1, PlaceFacts
  <2> QED BY <1>3, <2>1, <2>2
<1> QED BY <1>2, <1>4 DEF ToSet

LEMMA SdhsTestRun ==
  ASSUME BenchTypeOK, TestOK, PhaseOK, FreshOK, RunOK, sdhs_test
  PROVE  RunOK'
<1>1. /\ pc = "logged" /\ pc' = "sdhs" /\ Head(suite) = "sdhs" /\ coll' = coll /\ thread' = thread
      /\ conf' = conf /\ suite' = suite /\ drained' = drained
  BY DEF sdhs_test
<1>2. ~Running /\ ~Running' /\ ~InSdhs
  BY <1>1 DEF Running, InSdhs, InWrite
<1>3. ThreadsOK /\ conf.debugger \in BOOLEAN
  BY TypeFacts DEF RunOK
<1>4. thread = NoThreads
  <2>1. CASE conf.debugger
    <3>1. suite \in Seq(STRING) /\ suite # <<>>
      BY <1>1, TypeFacts DEF TestOK
    <3>2. "sdhs" \in ToSet(suite)
      BY <1>1, <3>1, HeadTailProperties, EmptySeq DEF ToSet
    <3> QED BY <1>1, <1>2, <1>3, <2>1, <3>2 DEF ThreadsOK
  <2>2. CASE ~conf.debugger
    BY <1>2, <1>3, <2>2 DEF ThreadsOK
  <2> QED BY <2>1, <2>2
<1>5. Shape' /\ thread' \in [Threads -> Thread] /\ coll' \in Statics
  BY <1>1 DEF RunOK, Shape
<1>6. CellsLeft'
  <2>1. CurLimit' = CurLimit /\ CurLeft' = CurLeft
    BY <1>1, <1>2 DEF CurLimit, CurLeft
  <2> QED BY <1>1, <2>1 DEF RunOK, CellsLeft, CurLoaded
<1>7. ThreadsOK'
  BY <1>1, <1>3, <1>4 DEF ThreadsOK
<1> QED BY <1>2, <1>5, <1>6, <1>7 DEF RunOK, SdhsOK

LEMMA SdhsStartsRun ==
  ASSUME BenchTypeOK, TestOK, PhaseOK, FreshOK, RunOK, SdhsStarts
  PROVE  RunOK'
<1>1. pc = "sdhs" /\ conf' = conf /\ drained' = drained /\ entry' = entry
  BY SdhsStartFacts
<1>2. InSdhs /\ ~Running /\ ThreadsOK
  BY <1>1 DEF InSdhs, Running, InWrite, RunOK
<1>3. thread = NoThreads
  BY <1>1, <1>2 DEF ThreadsOK
<1>4. coll.cur + Total <= Cells /\ coll \in Statics
  BY <1>1, <1>2, <1>3 DEF ThreadsOK, RunOK
<1>5. CASE pc' = "over"
  BY <1>1, <1>3, <1>4, <1>5, SdhsStartFacts, GoneFacts
<1>6. CASE pc' = "test"
  <2>1. proc # 0 /\ proc' = 0 /\ coll' = parent.coll /\ thread' = thread
    BY <1>6, SdhsStartFacts
  <2>2. parent.coll = FreshMem
    BY <2>1, ProcFacts DEF RunOK
  <2> QED BY <1>3, <2>1, <2>2, NoThreadFacts, GoneFacts
<1>7. CASE pc' = "sdhs run"
  <2>1. /\ coll' = init_alloc_tcoll_dynamic(coll) /\ thread' = StartThreads /\ proc' = proc /\ suite' = suite
    BY <1>7, SdhsStartFacts
  <2>2. coll' \in Statics /\ coll'.cur = coll.cur /\ coll'.iter = coll.iter
    <3>1. Blank \in [0 .. Cells - 1 -> Timings]
      BY DEF Blank, Timings
    <3> QED BY <1>4, <2>1, <3>1 DEF init_alloc_tcoll_dynamic, Statics
  <2>3. /\ \A t \in Threads : thread'[t].at = "alloc" /\ thread'[t].left = PerThread
        /\ thread' \in [Threads -> Thread] /\ thread' # NoThreads
    BY <2>1, StartFacts
  <2>4. Running' /\ InSdhs'
    BY <1>7 DEF Running, InSdhs
  <2>5. Shape'
    BY <2>3 DEF Shape
  <2>6. CurLeft' \in Nat /\ IterLeft' \in Nat /\ CurLeft' <= Total /\ IterLeft' <= Total
    BY BelowFacts DEF CurLeft, IterLeft
  <2>7. proc # 0 => coll.cur = 0 /\ coll.iter = 0
    BY <1>1, ProcFacts, NoThreadFacts DEF RunOK
  <2>8. CellsLeft'
    <3>1. \A t \in Threads : ~CurLoaded(t)' /\ thread'[t].at # "arr last"
      BY <2>3 DEF CurLoaded
    <3>2. PICK c \in Nat, n \in Nat, m \in Nat, k \in Nat : c = coll'.cur /\ n = CurLeft' /\ m = Total /\ k = Cells
      BY <2>2, <2>6, StaticsFacts, TotalFacts
    <3>3. CASE proc # 0
      <4>1. CurLimit' = m /\ c = 0 /\ n <= m
        BY <2>1, <2>2, <2>4, <2>6, <2>7, <3>2, <3>3 DEF CurLimit
      <4>2. c + n <= m
        BY <4>1
      <4> QED BY <3>1, <3>2, <4>1, <4>2 DEF CellsLeft
    <3>4. CASE proc = 0
      <4>1. CurLimit' = k /\ c + m <= k /\ n <= m
        BY <1>4, <2>1, <2>2, <2>6, <3>2, <3>4 DEF CurLimit
      <4>2. c + n <= k
        BY <4>1
      <4> QED BY <3>1, <3>2, <4>1, <4>2 DEF CellsLeft
    <3> QED BY <3>3, <3>4
  <2>9. ThreadsOK'
    <3>1. conf.debugger => "sdhs" \notin ToSet(Tail(suite))
      BY <1>2, FirstSdhs
    <3> QED BY <1>1, <1>7, <2>1, <2>3, <2>4, <3>1 DEF ThreadsOK
  <2>10. SdhsOK'
    <3>1. SUFFICES ASSUME proc # 0 PROVE IterRight' /\ CurRight'
      BY <2>1 DEF SdhsOK
    <3>2. coll'.cur = 0 /\ coll'.iter = 0
      BY <2>2, <2>7, <3>1
    <3>3. IterRight'
      <4>1. coll'.iter + IterLeft' <= Total
        BY <2>6, <3>2
      <4> QED BY <2>3, <4>1 DEF IterRight
    <3>4. CurRight'
      <4>1. \A i \in 0 .. Cells - 1 : ~(i < coll'.cur)
        BY <3>2
      <4> QED BY <2>3, <4>1 DEF CurRight, CurLoaded
    <3> QED BY <3>3, <3>4
  <2> QED BY <2>2, <2>3, <2>5, <2>8, <2>9, <2>10 DEF RunOK
<1> QED BY <1>5, <1>6, <1>7, SdhsStartFacts

LEMMA SdhsThreadRun ==
  ASSUME BenchTypeOK, PhaseOK, FreshOK, RunOK, SdhsThread
  PROVE  RunOK'
<1>1. PICK t \in Threads : ThreadStep(t)
  BY DEF SdhsThread
<1>2. /\ conf' = conf /\ pc' = pc /\ proc' = proc /\ entry' = entry /\ suite' = suite /\ drained' = drained
  BY DEF SdhsThread, control, process
<1>3. (Running' <=> Running) /\ (InSdhs' <=> InSdhs) /\ CurLimit' = CurLimit
  BY <1>2 DEF Running, InSdhs, InWrite, CurLimit
<1>4. coll \in Statics /\ thread \in [Threads -> Thread] /\ Shape /\ CellsLeft /\ ThreadsOK /\ SdhsOK
  BY DEF RunOK
<1>5. thread # NoThreads
  BY <1>1, IdleFacts
<1>6. coll' \in Statics /\ thread' \in [Threads -> Thread] /\ Shape' /\ CellsLeft'
  BY <1>1, <1>3, <1>4, ShapeStep, CellsStep
<1>7. thread' # NoThreads
  <2>1. thread'[t].at # "idle"
    BY <1>1, <1>4, StepFacts DEF StepA, StepB, StepC, StepD, StepE, StepF, StepG
  <2> QED BY <2>1, NoThreadFacts
<1>8. ~drained \/ pc = "sdhs run"
  BY <1>1, <1>4, DrainedFacts DEF ThreadsOK
<1>9. ThreadsOK'
  BY <1>2, <1>3, <1>4, <1>5, <1>7, <1>8 DEF ThreadsOK
<1>10. SdhsOK'
  <2>1. SUFFICES ASSUME proc # 0, Running PROVE IterRight' /\ CurRight'
    BY <1>2, <1>3 DEF SdhsOK
  <2>2. IterRight /\ CurRight
    BY <1>4, <2>1 DEF SdhsOK
  <2> QED BY <1>1, <1>4, <2>2, IterStep, CurStep
<1> QED BY <1>6, <1>9, <1>10 DEF RunOK

LEMMA SdhsWaitsRun ==
  ASSUME BenchTypeOK, PhaseOK, FreshOK, RunOK, SdhsWaits
  PROVE  RunOK'
<1>1. /\ pc = "sdhs run" /\ pc' = "write" /\ entry' = Sdhs /\ coll' = coll /\ thread' = thread /\ conf' = conf
      /\ suite' = suite /\ proc' = proc /\ drained' \in BOOLEAN /\ (drained' => ThreadsDone)
  BY DEF SdhsWaits, control
<1>2. Running /\ Running' /\ InSdhs /\ InSdhs'
  BY <1>1 DEF Running, InSdhs, InWrite
<1>3. ThreadsOK
  BY DEF RunOK
<1>4. Shape' /\ thread' \in [Threads -> Thread] /\ coll' \in Statics
  BY <1>1 DEF RunOK, Shape
<1>5. CellsLeft'
  <2>1. CurLimit' = CurLimit /\ CurLeft' = CurLeft
    BY <1>1, <1>2 DEF CurLimit, CurLeft
  <2> QED BY <1>1, <2>1 DEF RunOK, CellsLeft, CurLoaded
<1>6. SdhsOK'
  <2>1. SUFFICES ASSUME proc # 0 PROVE IterRight' /\ CurRight'
    BY <1>1 DEF SdhsOK
  <2>2. IterRight /\ CurRight
    BY <1>2, <2>1 DEF RunOK, SdhsOK
  <2>3. IterRight'
    BY <1>1, <2>2 DEF IterRight, IterLeft
  <2>4. CurRight'
    BY <1>1, <2>2 DEF CurRight, Timing, CurLoaded
  <2> QED BY <2>3, <2>4
<1>7. ThreadsOK'
  BY <1>1, <1>2, <1>3 DEF ThreadsOK, ThreadsDone
<1> QED BY <1>4, <1>5, <1>6, <1>7 DEF RunOK

LEMMA SdhsEndsRun ==
  ASSUME BenchTypeOK, TestOK, PhaseOK, FreshOK, RunOK, SdhsEnds
  PROVE  RunOK'
<1>1. /\ pc = "sdhs end" /\ pc' = "test" /\ conf' = conf /\ suite' = Tail(suite)
      /\ proc # 0 => thread' = NoThreads /\ coll' = parent.coll /\ proc' = 0
      /\ proc = 0 => thread' = thread /\ coll' = coll /\ proc' = 0 /\ (drained' => drained)
  BY DEF SdhsEnds, Forked
<1>2. Running /\ ~Running' /\ InSdhs /\ ~InSdhs'
  BY <1>1 DEF Running, InSdhs, InWrite
<1>3. CASE proc # 0
  <2>1. parent.coll = FreshMem /\ FreshMem \in Statics
    BY <1>3, ProcFacts, NoThreadFacts DEF RunOK
  <2> QED BY <1>1, <1>3, <2>1, GoneFacts
<1>4. CASE proc = 0
  <2>1. ThreadsOK /\ conf.debugger
    BY <1>2, <1>4, ProcFacts DEF RunOK
  <2>2. Shape' /\ thread' \in [Threads -> Thread] /\ coll' \in Statics
    BY <1>1, <1>4 DEF RunOK, Shape
  <2>3. CellsLeft'
    <3>1. CurLimit' = CurLimit /\ CurLeft' = CurLeft
      BY <1>1, <1>4 DEF CurLimit, CurLeft
    <3> QED BY <1>1, <1>4, <3>1 DEF RunOK, CellsLeft, CurLoaded
  <2>4. ThreadsOK'
    BY <1>1, <1>2, <1>4, <2>1 DEF ThreadsOK
  <2>5. SdhsOK'
    BY <1>1, <1>4 DEF SdhsOK
  <2> QED BY <2>2, <2>3, <2>4, <2>5 DEF RunOK
<1> QED BY <1>3, <1>4

LEMMA RunKept ==
  ASSUME BenchTypeOK, TestOK, PhaseOK, EntryOK, FreshOK, RunOK, BenchNext
  PROVE  RunOK'
<1>1. CASE Plain
  BY <1>1, PlainRun
<1>2. CASE Dies
  BY <1>2, DiesRun
<1>3. CASE Measuring
  BY <1>3, MeasureRun
<1>4. CASE CloseLog
  BY <1>4, CloseRun
<1>5. CASE sdhs_test
  BY <1>5, SdhsTestRun
<1>6. CASE SdhsStarts
  BY <1>6, SdhsStartsRun
<1>7. CASE SdhsThread
  BY <1>7, SdhsThreadRun
<1>8. CASE SdhsWaits
  BY <1>8, SdhsWaitsRun
<1>9. CASE SdhsEnds
  BY <1>9, SdhsEndsRun
<1>10. CASE Restart
  <2>1. thread' = NoThreads /\ coll' = FreshMem /\ proc' = 0
    BY <1>10 DEF Restart
  <2> QED BY <2>1, NoThreadFacts, GoneFacts
<1> QED BY PlainFacts, <1>1, <1>2, <1>3, <1>4, <1>5, <1>6, <1>7, <1>8, <1>9, <1>10

LEMMA MeasuredKept ==
  ASSUME BenchTypeOK, TestOK, PhaseOK, EntryOK, FreshOK, RunOK, MeasuredOK, BenchNext
  PROVE  MeasuredOK'
<1>0. left \in Seq(Nat \ {0}) /\ Iterations \in Nat /\ ThreadsOK
  BY TypeFacts, BenchAssumption DEF RunOK
<1>1. ASSUME pc' \notin {"each", "all", "write", "body"} PROVE MeasuredOK'
  BY <1>1 DEF MeasuredOK, InWrite, Sizing, Summing
<1>2. CASE Dies
  BY <1>1, <1>2, DiesFacts
<1>3. CASE ChildStarts
  <2>1. /\ pc = "child" /\ proc' = proc /\ coll' = coll /\ loops' = loops
        /\ pc' = "all" \/ (pc' = "each" /\ left' = SizesOf[Loop.class])
    BY <1>3 DEF ChildStarts
  <2>2. ~InWrite' /\ Loop' = Loop /\ InLoop
    BY <2>1 DEF InWrite, Loop, InLoop
  <2>3. SUFFICES ASSUME proc # 0 PROVE MeasuredOK'
    BY <2>1, <2>2 DEF MeasuredOK
  <2>4. coll'.iter = 0
    BY <2>1, <2>3, ProcFacts, NoThreadFacts DEF RunOK
  <2>5. Iterations * Len(SizesOf[Loop.class]) \in Nat /\ Len(SizesOf[Loop.class]) \in Nat
    BY <2>2, LoopFacts, CountFacts
  <2>6. CASE pc' = "all"
    <3>1. ~Sizing' /\ coll'.iter <= Iterations * Len(SizesOf[Loop.class])
      BY <2>2, <2>4, <2>5, <2>6 DEF Sizing
    <3> QED BY <2>2, <3>1 DEF MeasuredOK
  <2>7. CASE pc' = "each" /\ left' = SizesOf[Loop.class]
    <3>1. Len(left') - 0 = Len(SizesOf[Loop.class])
      BY <2>5, <2>7
    <3>2. coll'.iter + Iterations * (Len(left') - 0) <= Iterations * Len(SizesOf[Loop.class])
      BY <2>4, <2>5, <3>1
    <3>3. ~Summing'
      BY <2>2, <2>7 DEF Summing
    <3> QED BY <2>2, <2>7, <3>2, <3>3 DEF MeasuredOK
  <2> QED BY <2>1, <2>6, <2>7
<1>4. CASE Measuring /\ ~Dies
  <2>1. /\ pc \in {"each", "all"} /\ pc' = "write" /\ proc' = proc /\ loops' = loops /\ left' = left /\ InLoop
        /\ pc = "each" => left # <<>>
    BY <1>4, MeasureFacts DEF Measuring
  <2>2. /\ coll'.cur = Count(entry') /\ coll'.iter = coll.iter + Count(entry') /\ entry' # Sdhs
        /\ \A i \in 0 .. Cells - 1 : i < coll'.cur => coll'.arr[i] = entry'
        /\ pc = "each" => entry'.size # 0 /\ Count(entry') = Iterations
        /\ pc = "all" => entry'.size = 0 /\ Count(entry') = Iterations * Len(SizesOf[Loop.class])
    BY <1>4, MeasuringFacts
  <2>3. Loop' = Loop /\ InWrite'
    BY <2>1 DEF Loop, InWrite
  <2>4. Iterations * Len(SizesOf[Loop.class]) \in Nat /\ coll.iter \in Nat
    BY <2>1, LoopFacts, CountFacts, StaticsFacts DEF RunOK
  <2>5. CASE pc = "each"
    <3>1. ~Summing' /\ Sizing
      BY <2>1, <2>2, <2>3, <2>5 DEF Summing, Sizing
    <3>2. ASSUME proc # 0
          PROVE  coll'.iter + Iterations * (Len(left') - 1) <= Iterations * Len(SizesOf[Loop.class])
      <4>1. PICK n \in Nat, x \in Nat, k \in Nat, it \in Nat :
              n = Len(left) /\ n >= 1 /\ x = coll.iter /\ k = Iterations * Len(SizesOf[Loop.class]) /\ it = Iterations
        BY <1>0, <2>1, <2>4, <2>5, HeadTailProperties, EmptySeq
      <4>2. x + it * (n - 0) <= k
        BY <2>5, <3>1, <3>2, <4>1 DEF MeasuredOK
      <4>3. n - 0 = n /\ it * n \in Nat /\ it * (n - 1) = it * n - it
        BY <4>1, TimesFacts
      <4>4. x + it * n <= k
        BY <4>2, <4>3
      <4>5. x + it + it * (n - 1) <= k
        BY <4>3, <4>4
      <4>6. coll'.iter = x + it /\ Len(left') = n
        BY <2>1, <2>2, <2>5, <4>1
      <4> QED BY <4>1, <4>5, <4>6
    <3> QED BY <2>1, <2>2, <2>3, <3>1, <3>2 DEF MeasuredOK
  <2>6. CASE pc = "all"
    <3>1. ~Sizing'
      BY <2>1, <2>2, <2>6 DEF Sizing
    <3>2. ASSUME proc # 0 PROVE coll'.iter <= Iterations * Len(SizesOf[Loop.class])
      <4>1. coll.iter = 0
        BY <2>6, <3>2, ProcFacts, NoThreadFacts DEF RunOK
      <4> QED BY <2>2, <2>4, <2>6, <4>1
    <3> QED BY <2>1, <2>2, <2>3, <3>1, <3>2 DEF MeasuredOK
  <2> QED BY <2>1, <2>5, <2>6
<1>5. CASE OpenEntry \/ WriteBody
  <2>1. /\ InWrite /\ loops' = loops /\ proc' = proc /\ entry' = entry /\ coll' = coll /\ drained' = drained
        /\ Written \/ (pc' = "body" /\ left' = left)
    BY <1>5, WritingFacts
  <2>2. Loop' = Loop
    BY <2>1 DEF Loop
  <2>3. CASE Written
    <3>1. CASE entry # Sdhs /\ entry.size # 0 /\ pc' = "each" /\ left' = Tail(left) /\ left # <<>>
      <4>1. ~InWrite' /\ ~Summing' /\ Sizing /\ pc # "each"
        BY <2>1, <3>1 DEF InWrite, Summing, Sizing
      <4>2. ASSUME proc # 0
            PROVE  coll'.iter + Iterations * (Len(left') - 0) <= Iterations * Len(SizesOf[Loop.class])
        <5>1. coll.iter + Iterations * (Len(left) - 1) <= Iterations * Len(SizesOf[Loop.class])
          BY <4>1, <4>2 DEF MeasuredOK
        <5>2. Len(left') - 0 = Len(left) - 1
          BY <1>0, <3>1, HeadTailProperties
        <5> QED BY <2>1, <5>1, <5>2
      <4> QED BY <2>1, <2>2, <3>1, <4>1, <4>2 DEF MeasuredOK
    <3>2. CASE pc' \in {"close", "sdhs end"}
      BY <1>1, <3>2
    <3> QED BY <2>1, <2>3, <3>1, <3>2, WrittenFacts
  <2>4. CASE pc' = "body" /\ left' = left
    <3>1. InWrite' /\ pc # "each" /\ (Sizing' <=> Sizing) /\ (Summing' <=> Summing)
      BY <2>1, <2>4 DEF InWrite, Sizing, Summing
    <3>2. \A e : Count(e)' = Count(e)
      BY DEF Count
    <3> QED BY <2>1, <2>2, <2>4, <3>1 DEF MeasuredOK
  <2> QED BY <2>1, <2>3, <2>4
<1>6. CASE SdhsThread
  <2>1. PICK t \in Threads : ThreadStep(t)
    BY <1>6 DEF SdhsThread
  <2>2. /\ pc' = pc /\ proc' = proc /\ entry' = entry /\ drained' = drained
    BY <1>6 DEF SdhsThread, control, process
  <2>3. ~drained \/ pc = "sdhs run"
    BY <1>0, <2>1, DrainedFacts DEF ThreadsOK, RunOK
  <2>4. ~(proc # 0 /\ ~Running)
    BY <1>0, <2>1, IdleFacts, ProcFacts
  <2>5. ~(InWrite' /\ entry' # Sdhs /\ drained')
    BY <2>2, <2>3 DEF InWrite
  <2>6. Sizing \/ Summing => ~Running
    BY EntryFacts DEF Sizing, Summing, Running, InWrite
  <2>7. (Sizing' <=> Sizing) /\ (Summing' <=> Summing)
    BY <2>2 DEF Sizing, Summing, InWrite
  <2> QED BY <2>2, <2>4, <2>5, <2>6, <2>7 DEF MeasuredOK
<1>7. CASE SdhsWaits
  <2>1. entry' = Sdhs /\ pc' = "write"
    BY <1>7 DEF SdhsWaits
  <2>2. ~Sizing' /\ ~Summing'
    BY <2>1 DEF Sizing, Summing, InWrite, Sdhs
  <2> QED BY <2>1, <2>2 DEF MeasuredOK
<1>8. CASE EachEnds
  <2>1. pc' = "close" \/ (pc' = "all" /\ proc' = 0)
    BY <1>8 DEF EachEnds, Forked, process
  <2>2. ~InWrite'
    BY <2>1 DEF InWrite
  <2> QED BY <2>1, <2>2 DEF MeasuredOK, Sizing, Summing
<1>9. CASE SdhsEnds \/ SdhsStarts \/ sdhs_test \/ Restart \/ CloseLog \/ run_tests \/ TestsDone
  <2>1. pc' \notin {"each", "all", "write", "body"} \/ Dies
    BY <1>9, SdhsStartFacts, CloseFacts DEF SdhsEnds, sdhs_test, Restart, run_tests, TestsDone, Return
  <2> QED BY <1>1, <1>2, <2>1
<1>10. CASE prepare_logging \/ arena_test \/ malloc_test \/ LoopsDone \/ tight_loop_test \/ Fork \/ LoopEnds \/ ForkSdhsFails
  <2>1. pc' \notin {"each", "all", "write", "body"} \/ Dies
    BY <1>10 DEF prepare_logging, arena_test, malloc_test, LoopsDone, tight_loop_test, Fork, LoopEnds, ForkSdhsFails
  <2> QED BY <1>1, <1>2, <2>1
<1>11. CASE Terminated
  <2>1. pc' = "over"
    BY <1>11 DEF Terminated, benchVars
  <2> QED BY <1>1, <2>1
<1> QED BY <1>2, <1>3, <1>4, <1>5, <1>6, <1>7, <1>8, <1>9, <1>10, <1>11 DEF BenchNext, UnknownTest, OpenFails, Measuring

(* A finite set of numbers that is not empty has a largest and a smallest  *)
(* element: otherwise the elements beyond one of a least upper part are a  *)
(* smaller one.                                                            *)
LEMMA MaxFacts ==
  ASSUME NEW S, IsFiniteSet(S), S \subseteq Int, S # {}
  PROVE  Max(S) \in S /\ \A y \in S : Max(S) >= y
<1> DEFINE From(x) == {y \in S : y >= x}
           Parts == {From(x) : x \in S}
<1>1. PICK P \in Parts : \A Q \in Parts : ~ (<<Q, P>> \in StrictSubsetOrdering(S))
  <2>1. IsWellFoundedOn(StrictSubsetOrdering(S), FiniteSubsetsOf(S))
    BY FS_StrictSubsetOrderingWellFounded
  <2>2. Parts \subseteq FiniteSubsetsOf(S)
    BY FS_FiniteSubsetsOfFinite
  <2>3. Parts # {}
    OBVIOUS
  <2> HIDE DEF Parts
  <2> QED
    BY <2>1, <2>2, <2>3, WFMin
<1>2. PICK x \in S : P = From(x)
  BY <1>1
<1>3. ASSUME NEW y \in S
      PROVE  x >= y
  <2>0. x \in Int /\ y \in Int
    BY <1>2, <1>3
  <2>1. ASSUME y > x
        PROVE  FALSE
    <3>0. x >= x /\ ~(x >= y) /\ \A z \in Int : z >= y => z >= x
      <4> HIDE DEF Parts
      <4> QED
        BY <2>1, <2>0
    <3>1. From(y) \subseteq P /\ x \in P /\ x \notin From(y) /\ P \subseteq S
      BY <1>2, <3>0, Zenon
    <3>2. <<From(y), P>> \in StrictSubsetOrdering(S)
      BY <3>1 DEF StrictSubsetOrdering
    <3>3. From(y) \in Parts
      OBVIOUS
    <3> HIDE DEF From, Parts
    <3> QED
      BY <1>1, <3>2, <3>3
  <2> HIDE DEF From, Parts
  <2> QED
    BY <2>0, <2>1
<1>4. \E z \in S : \A y \in S : z >= y
  BY <1>3
<1> QED
  BY <1>4 DEF Max

(* The directories.                                                        *)
DiskOK == disk \in [Dirs -> SUBSET Result] /\ \A d \in Dirs : IsFiniteSet(disk[d])
FilesOK == DiskOK /\ LogsOK /\ NumbersOK /\ OpenOK /\ BodyOK /\ DataOK

LEMMA ResultFacts ==
  ASSUME NEW f \in Result
  PROVE  /\ f.nr \in Nat /\ f.name \in {"bin", "tsc_freq.bin", "log.txt"} /\ f.start \in Nat /\ f.proc \in {0, 1}
         /\ f.iter \in Nat /\ f.count \in Nat /\ f.data \in Seq(Timings)
         /\ f.fate \in {"open", "whole", "cut", "failed"} /\ f.drained \in BOOLEAN
BY DEF Result

(* The numbers of a directory are below the next one.                      *)
NextNr(S) == Max({0} \cup {f.nr : f \in S}) + 1

LEMMA NextFacts ==
  ASSUME NEW S \in SUBSET Result, IsFiniteSet(S)
  PROVE  /\ NextNr(S) \in Nat /\ NextNr(S) >= 1 /\ \A f \in S : f.nr < NextNr(S)
         /\ NextNr(S) = 1 \/ \E f \in S : f.nr = NextNr(S) - 1
<1> DEFINE N == {f.nr : f \in S}
           h == [f \in S |-> f.nr]
           T == {0} \cup N
<1>1. N \subseteq Nat /\ \A f \in S : f.nr \in Nat
  BY ResultFacts
<1>2. h \in Surjection(S, N)
  BY DEF Surjection
<1>3. IsFiniteSet(N)
  BY <1>2, FS_Surjection
<1>4. IsFiniteSet(T)
  BY <1>3, FS_Singleton, FS_Union
<1>5. T \subseteq Int /\ T \subseteq Nat /\ T # {} /\ 0 \in T
  BY <1>1
<1>6. PICK m \in Nat : m = Max(T) /\ m \in T /\ \A y \in T : m >= y
  <2> HIDE DEF T
  <2> QED BY <1>4, <1>5, MaxFacts
<1>7. NextNr(S) = m + 1
  BY <1>6 DEF NextNr
<1>8. \A f \in S : f.nr < m + 1
  <2>1. ASSUME NEW f \in S PROVE f.nr < m + 1
    <3>1. f.nr \in Nat /\ m >= f.nr
      BY <1>1, <1>6
    <3> QED BY <3>1
  <2> QED BY <2>1
<1>9. m = 0 \/ \E f \in S : f.nr = m
  BY <1>6
<1>10. m + 1 \in Nat /\ m + 1 >= 1 /\ m + 1 - 1 = m /\ (m = 0 => m + 1 = 1)
  OBVIOUS
<1> QED BY <1>7, <1>8, <1>9, <1>10

LEMMA NextUnique ==
  ASSUME NEW S \in SUBSET Result, IsFiniteSet(S), NEW n \in Nat, \A f \in S : f.nr <= n, \E f \in S : f.nr = n
  PROVE  NextNr(S) = n + 1
<1>1. PICK m \in Nat : NextNr(S) = m /\ m >= 1 /\ (m = 1 \/ \E f \in S : f.nr = m - 1) /\ \A f \in S : f.nr < m
  BY NextFacts
<1>2. n < m
  BY <1>1
<1>3. m - 1 <= n
  BY <1>1
<1> QED BY <1>1, <1>2, <1>3

LEMMA RunNrFacts ==
  ASSUME NEW d
  PROVE  get_next_run_nr(d) = NextNr(disk[d])
BY DEF get_next_run_nr, NextNr

(* A file is added, or takes the place of the one of its number and name.  *)
LEMMA PutFacts ==
  ASSUME NEW S \in SUBSET Result, IsFiniteSet(S), NEW f \in Result
  PROVE  /\ Put(S, f) \in SUBSET Result /\ IsFiniteSet(Put(S, f)) /\ f \in Put(S, f)
         /\ \A g \in S : (g.nr # f.nr \/ g.name # f.name) => g \in Put(S, f)
         /\ \A g \in Put(S, f) : g = f \/ (g \in S /\ (g.nr # f.nr \/ g.name # f.name))
<1> DEFINE R == {g \in S : g.nr # f.nr \/ g.name # f.name}
<1>1. R \in SUBSET S /\ R \in SUBSET Result
  OBVIOUS
<1>2. IsFiniteSet(R)
  BY <1>1, FS_Subset
<1>3. IsFiniteSet(R \cup {f})
  BY <1>2, FS_AddElement
<1>4. Put(S, f) = R \cup {f}
  BY DEF Put
<1> QED BY <1>1, <1>3, <1>4

LEMMA SavedFacts ==
  ASSUME DiskOK, NEW dir \in Dirs, NEW f \in Result
  PROVE  /\ Saved(dir, f) \in [Dirs -> SUBSET Result] /\ \A d \in Dirs : IsFiniteSet(Saved(dir, f)[d])
         /\ Saved(dir, f)[dir] = Put(disk[dir], f) /\ \A d \in Dirs : d # dir => Saved(dir, f)[d] = disk[d]
<1>1. disk[dir] \in SUBSET Result /\ IsFiniteSet(disk[dir])
  BY DEF DiskOK
<1>2. Put(disk[dir], f) \in SUBSET Result /\ IsFiniteSet(Put(disk[dir], f))
  BY <1>1, PutFacts
<1>3. Saved(dir, f) = [disk EXCEPT ![dir] = Put(disk[dir], f)]
  BY DEF Saved
<1> QED BY <1>2, <1>3 DEF DiskOK

(* What a process leaves behind has lost nothing but its openness.         *)
LEMMA SettledFacts ==
  ASSUME DiskOK, NEW fate \in {"whole", "cut"}
  PROVE  /\ Settled(disk, fate) \in [Dirs -> SUBSET Result] /\ \A d \in Dirs : IsFiniteSet(Settled(disk, fate)[d])
         /\ \A d \in Dirs :
              /\ \A f \in disk[d] : \E g \in Settled(disk, fate)[d] :
                   \/ g = f
                   \/ f.fate = "open" /\ f.start = start /\ f.proc = proc /\ g = [f EXCEPT !.fate = fate]
              /\ \A g \in Settled(disk, fate)[d] : \E f \in disk[d] :
                   \/ g = f /\ ~(f.fate = "open" /\ f.start = start /\ f.proc = proc)
                   \/ f.fate = "open" /\ f.start = start /\ f.proc = proc /\ g = [f EXCEPT !.fate = fate]
<1> DEFINE s(f) == IF f.fate = "open" /\ f.start = start /\ f.proc = proc THEN [f EXCEPT !.fate = fate] ELSE f
           After(d) == {s(f) : f \in disk[d]}
<1>1. Settled(disk, fate) = [d \in Dirs |-> After(d)]
  BY DEF Settled, DiskOK
<1>2. \A f \in Result : s(f) \in Result
  BY DEF Result
<1>3. ASSUME NEW d \in Dirs PROVE After(d) \in SUBSET Result /\ IsFiniteSet(After(d))
  <2>1. disk[d] \in SUBSET Result /\ IsFiniteSet(disk[d])
    BY DEF DiskOK
  <2>2. After(d) \in SUBSET Result
    <3> HIDE DEF s
    <3> QED BY <1>2, <2>1
  <2> DEFINE h == [f \in disk[d] |-> s(f)]
  <2>3. h \in Surjection(disk[d], After(d))
    <3> HIDE DEF s
    <3> QED BY DEF Surjection
  <2> HIDE DEF h
  <2> QED BY <2>1, <2>2, <2>3, FS_Surjection
<1>4. ASSUME NEW d \in Dirs, NEW f \in disk[d] PROVE s(f) \in After(d)
  OBVIOUS
<1>5. ASSUME NEW d \in Dirs, NEW g \in After(d) PROVE \E f \in disk[d] : g = s(f)
  OBVIOUS
<1>6. ASSUME NEW f
      PROVE  \/ s(f) = f /\ ~(f.fate = "open" /\ f.start = start /\ f.proc = proc)
             \/ f.fate = "open" /\ f.start = start /\ f.proc = proc /\ s(f) = [f EXCEPT !.fate = fate]
  OBVIOUS
<1> HIDE DEF s, After
<1>7. Settled(disk, fate) \in [Dirs -> SUBSET Result] /\ \A d \in Dirs : IsFiniteSet(Settled(disk, fate)[d])
  BY <1>1, <1>3
<1>8. \A d \in Dirs : Settled(disk, fate)[d] = After(d)
  BY <1>1
<1>9. ASSUME NEW d \in Dirs
      PROVE  /\ \A f \in disk[d] : \E g \in Settled(disk, fate)[d] :
                   \/ g = f
                   \/ f.fate = "open" /\ f.start = start /\ f.proc = proc /\ g = [f EXCEPT !.fate = fate]
             /\ \A g \in Settled(disk, fate)[d] : \E f \in disk[d] :
                   \/ g = f /\ ~(f.fate = "open" /\ f.start = start /\ f.proc = proc)
                   \/ f.fate = "open" /\ f.start = start /\ f.proc = proc /\ g = [f EXCEPT !.fate = fate]
  <2>1. ASSUME NEW f \in disk[d]
        PROVE \E g \in Settled(disk, fate)[d] :
                   \/ g = f
                   \/ f.fate = "open" /\ f.start = start /\ f.proc = proc /\ g = [f EXCEPT !.fate = fate]
    BY <1>4, <1>6, <1>8, Zenon
  <2>2. ASSUME NEW g \in Settled(disk, fate)[d]
        PROVE \E f \in disk[d] :
                   \/ g = f /\ ~(f.fate = "open" /\ f.start = start /\ f.proc = proc)
                   \/ f.fate = "open" /\ f.start = start /\ f.proc = proc /\ g = [f EXCEPT !.fate = fate]
    <3>1. g \in After(d)
      BY <1>8
    <3>2. PICK f \in disk[d] : g = s(f)
      BY <1>5, <3>1
    <3> QED BY <1>6, <3>2, Zenon
  <2> QED BY <2>1, <2>2
<1> QED BY <1>7, <1>9

(* What a step does to the directories.                                    *)
Still ==
  /\ disk' = disk /\ conf' = conf /\ pc # "body" /\ pc' # "body" /\ LogFresh'
  /\ (start' = start /\ proc' = proc /\ pc' # "over") \/ (~conf.debugger /\ proc = 0) \/ pc = "over"

(* A process is killed that met no failing call.                           *)
Dead == Dies /\ (pc \in {"test", "loop", "each", "all"} \/ (pc = "close" /\ log_file = "failed"))

Settles ==
  /\ \E fate \in {"whole", "cut"} : disk' = Settled(disk, fate) /\ (fate = "cut" => Dead \/ faults' # 0)
  /\ conf' = conf /\ pc # "body" /\ pc' # "body" /\ pc' # "logged"

Logging(dir, f) ==
  /\ disk' = Saved(dir, f) /\ dir \in Dirs /\ dir.class = "log"
  /\ f \in Result /\ f.name # "bin" /\ f.fate = "whole"
  /\ \A g \in disk[dir] : g.nr # f.nr \/ g.name # f.name
  /\ pc # "body" /\ pc' # "body" /\ pc' # "over" /\ LogFresh' /\ start' = start /\ proc' = proc /\ conf' = conf

LEMMA DiesSettles ==
  ASSUME Dies, pc # "body", Dead \/ faults' # 0
  PROVE  Settles
<1>1. disk' = Settled(disk, "cut") /\ conf' = conf
  BY DEF Dies
<1>2. pc' \in {"over", "forked", "test"}
  BY DiesFacts
<1> QED BY <1>1, <1>2 DEF Settles

LEMMA FileFacts ==
  ASSUME start \in Nat, proc \in {0, 1}, NEW nr \in Nat, NEW name \in {"bin", "tsc_freq.bin", "log.txt"}
  PROVE  /\ File(nr, name) \in Result /\ File(nr, name).nr = nr /\ File(nr, name).name = name
         /\ File(nr, name).fate = "whole" /\ File(nr, name).start = start /\ File(nr, name).proc = proc
<1>1. <<>> \in Seq(Timings)
  OBVIOUS
<1> QED BY <1>1 DEF File, Result

LEMMA DiskEffects ==
  ASSUME BenchTypeOK, TestOK, PhaseOK, EntryOK, FilesOK, BenchNext
  PROVE  \/ Still \/ Settles \/ SdhsThread \/ (\E dir \in Dirs, f \in Result : Logging(dir, f))
         \/ OpenEntry \/ WriteBody
<1>0. /\ start \in Nat /\ proc \in {0, 1} /\ conf.debugger \in BOOLEAN /\ run_nr \in Nat
      /\ pc \notin ChildAt => proc = 0
      /\ conf.debugger => proc = 0
  BY TypeFacts DEF PhaseOK, BenchTypeOK
<1>f. faults + 1 # 0
  <2>1. faults \in 0 .. MaxFaults
    BY DEF BenchTypeOK
  <2> QED BY <2>1
<1>1. ASSUME disk' = disk, conf' = conf, pc # "body", pc' # "body", pc' # "logged",
             (start' = start /\ proc' = proc /\ pc' # "over") \/ (~conf.debugger /\ proc = 0) \/ pc = "over"
      PROVE  Still
  BY <1>1 DEF Still, LogFresh
<1>2. CASE run_tests
  <2>1. CASE conf.enabled
    <3>1. disk' = disk /\ conf' = conf /\ pc = "conf" /\ pc' = "test" /\ start' = start /\ proc' = proc
      BY <1>2, <2>1 DEF run_tests, process
    <3> QED BY <1>1, <3>1
  <2>2. CASE ~conf.enabled
    BY <1>2, <2>2 DEF run_tests, Return, Settles
  <2> QED BY <2>1, <2>2
<1>3. CASE TestsDone
  BY <1>3 DEF TestsDone, Return, Settles
<1>4. CASE UnknownTest
  BY <1>4, DiesSettles DEF UnknownTest, Dead
<1>5. CASE prepare_logging
  <2> DEFINE dir == LogDir(Head(suite))
             f == File(run_nr', "tsc_freq.bin")
  <2>1. /\ run_nr' = get_next_run_nr(dir) /\ conf' = conf /\ pc = "test" /\ pc' = "logged" /\ suite' = suite
        /\ start' = start /\ proc' = proc /\ Head(suite) \in {"arena", "malloc", "sdhs"}
        /\ disk' = disk \/ disk' = Saved(dir, f)
    BY <1>5 DEF prepare_logging, control
  <2>2. dir \in Dirs /\ dir.class = "log"
    BY <2>1, DirFacts DEF LogDir, Dir
  <2>3. disk[dir] \in SUBSET Result /\ IsFiniteSet(disk[dir])
    BY <2>2 DEF FilesOK, DiskOK
  <2>4. run_nr' \in Nat /\ \A g \in disk[dir] : g.nr # run_nr'
    <3>1. \A g \in disk[dir] : g.nr \in Nat
      BY <2>3, ResultFacts
    <3>2. PICK n : n = NextNr(disk[dir])
      OBVIOUS
    <3>3. n \in Nat /\ \A g \in disk[dir] : g.nr < n
      BY <2>3, <3>2, NextFacts
    <3>4. run_nr' = n
      BY <2>1, <3>2, RunNrFacts
    <3> QED BY <3>1, <3>3, <3>4
  <2>5. f \in Result /\ f.nr = run_nr' /\ f.name = "tsc_freq.bin" /\ f.fate = "whole"
    BY <1>0, <2>4, FileFacts
  <2>6. Head(suite') = Head(suite)
    BY <2>1
  <2> HIDE DEF f, dir
  <2>7. CASE disk' = disk
    <3>1. LogFresh'
      BY <2>1, <2>4, <2>6, <2>7 DEF LogFresh, dir
    <3> QED BY <2>1, <2>7, <3>1 DEF Still
  <2>8. CASE disk' = Saved(dir, f)
    <3>1. disk'[dir] = Put(disk[dir], f)
      BY <2>2, <2>5, <2>8, SavedFacts DEF FilesOK
    <3>2. \A g \in disk'[dir] : g.nr = run_nr' => g.name # "log.txt"
      <4>1. \A g \in disk'[dir] : g = f \/ g \in disk[dir]
        BY <2>3, <2>5, <3>1, PutFacts
      <4> QED BY <2>4, <2>5, <4>1
    <3>3. LogFresh'
      BY <2>6, <3>2 DEF LogFresh, dir
    <3>4. Logging(dir, f)
      BY <2>1, <2>2, <2>4, <2>5, <2>8, <3>3 DEF Logging
    <3> QED BY <2>2, <2>5, <3>4
  <2> QED BY <2>1, <2>7, <2>8
<1>6. CASE arena_test
  <2>1. CASE Dies
    <3>1. pc = "logged" /\ (Fault \/ pc' = "loop")
      BY <1>6 DEF arena_test
    <3>2. Fault
      BY <2>1, <3>1, DiesFacts
    <3>3. faults' # 0
      BY <1>f, <3>2 DEF Fault
    <3> QED BY <2>1, <3>1, <3>3, DiesSettles
  <2>2. CASE ~Dies
    <3> DEFINE f == File(run_nr, "log.txt")
    <3>1. /\ pc = "logged" /\ Head(suite) = "arena" /\ pc' = "loop" /\ disk' = Saved(LogDir("arena"), f)
          /\ conf' = conf /\ start' = start /\ proc' = proc
      BY <1>6, <2>2 DEF arena_test, process
    <3>2. LogDir("arena") \in Dirs /\ LogDir("arena").class = "log"
      BY DirFacts DEF LogDir, Dir
    <3>3. f \in Result /\ f.nr = run_nr /\ f.name = "log.txt" /\ f.fate = "whole"
      BY <1>0, FileFacts
    <3>4. \A g \in disk[LogDir("arena")] : g.nr = run_nr => g.name # "log.txt"
      BY <3>1 DEF FilesOK, LogsOK, LogFresh
    <3> HIDE DEF f
    <3>5. Logging(LogDir("arena"), f)
      BY <3>1, <3>2, <3>3, <3>4 DEF Logging, LogFresh
    <3> QED BY <3>2, <3>3, <3>5
  <2> QED BY <2>1, <2>2
<1>7. CASE malloc_test \/ LoopsDone \/ EachEnds \/ LoopEnds
  <2>1. disk' = disk /\ conf' = conf /\ pc # "body" /\ pc' \notin {"body", "logged", "over"} /\ start' = start /\ proc' = proc
    BY <1>7 DEF malloc_test, LoopsDone, EachEnds, LoopEnds, control, process
  <2> QED BY <1>1, <2>1
<1>8. CASE tight_loop_test
  <2>1. CASE Dies
    BY <1>8, <2>1, DiesSettles DEF tight_loop_test, Dead
  <2>2. CASE ~Dies
    <3>1. disk' = disk /\ conf' = conf /\ pc = "loop" /\ pc' \in {"child", "forked"} /\ start' = start /\ proc' = proc
      BY <1>8, <2>2 DEF tight_loop_test
    <3> QED BY <1>1, <3>1
  <2> QED BY <2>1, <2>2
<1>9. CASE Fork
  <2>1. disk' = disk /\ conf' = conf /\ pc = "forked" /\ pc' \in {"child", "forked"} /\ phase <= 2
    BY <1>9 DEF Fork
  <2>2. ~conf.debugger /\ proc = 0
    BY <1>0, <2>1 DEF PhaseOK, ChildAt
  <2> QED BY <1>1, <2>1, <2>2
<1>10. CASE ChildStarts
  <2>1. /\ pc = "child" /\ pc' \in {"each", "all"} /\ conf' = conf /\ start' = start /\ proc' = proc
        /\ disk' = disk \/ disk' = Logged
    BY <1>10 DEF ChildStarts
  <2>2. CASE disk' = disk
    BY <1>1, <2>1, <2>2
  <2>3. CASE disk' # disk
    <3> DEFINE f == File(run_nr, "log.txt")
               dir == LogDir(Head(suite))
    <3>1. disk' = Saved(dir, f) /\ ~\E g \in disk[dir] : g.nr = run_nr /\ g.name = "log.txt"
      BY <2>1, <2>3 DEF Logged
    <3>2. dir \in Dirs /\ dir.class = "log"
      <4>1. Head(suite) \in {"arena", "malloc"}
        BY <2>1 DEF TestOK, InLoop
      <4> QED BY <4>1, DirFacts DEF LogDir, Dir
    <3>3. f \in Result /\ f.nr = run_nr /\ f.name = "log.txt" /\ f.fate = "whole"
      BY <1>0, FileFacts
    <3> HIDE DEF f, dir
    <3>5. Logging(dir, f)
      BY <2>1, <3>1, <3>2, <3>3 DEF Logging, LogFresh
    <3> QED BY <3>2, <3>3, <3>5
  <2> QED BY <2>2, <2>3
<1>11. CASE each_size_by_itself \/ all_sizes_repeatedly
  <2>1. pc \in {"each", "all"}
    BY <1>11, MeasureFacts
  <2>2. CASE Dies
    BY <2>1, <2>2, DiesSettles DEF Dead
  <2>3. CASE ~Dies
    <3>1. disk' = disk /\ conf' = conf /\ pc' = "write" /\ start' = start /\ proc' = proc
      BY <1>11, <2>3, MeasureFacts
    <3> QED BY <1>1, <2>1, <3>1
  <2> QED BY <2>2, <2>3
<1>12. CASE OpenFails
  BY <1>f, <1>12, DiesSettles DEF OpenFails, Fault
<1>13. CASE CloseLog
  <2>1. pc = "close"
    BY <1>13, CloseFacts
  <2>2. CASE Dies /\ log_file = "failed"
    BY <2>1, <2>2, DiesSettles DEF Dead
  <2>3. CASE ~(Dies /\ log_file = "failed")
    <3>1. /\ conf' = conf /\ pc' = "forked" /\ start' = start /\ proc' = 0
          /\ proc # 0 => disk' = Settled(disk, "whole")
          /\ proc = 0 => disk' = disk
      BY <1>13, <2>3, CloseFacts
    <3>2. CASE proc = 0
      BY <1>1, <2>1, <3>1, <3>2
    <3>3. CASE proc # 0
      BY <2>1, <3>1, <3>3 DEF Settles
    <3> QED BY <3>2, <3>3
  <2> QED BY <2>2, <2>3
<1>14. CASE sdhs_test
  <2>1. disk' = disk /\ conf' = conf /\ pc = "logged" /\ pc' = "sdhs" /\ start' = start /\ (conf.debugger => proc' = 0)
    BY <1>14 DEF sdhs_test
  <2>2. proc = 0
    BY <1>0, <2>1 DEF ChildAt
  <2> QED BY <1>0, <1>1, <2>1, <2>2
<1>15. CASE ForkSdhsFails
  BY <1>15 DEF ForkSdhsFails, Settles
<1>16. CASE SdhsStarts
  <2>1. pc = "sdhs" /\ conf' = conf /\ start' = start
    BY <1>16, SdhsStartFacts
  <2>2. \/ pc' = "sdhs run" /\ disk' = disk /\ proc' = proc
        \/ pc' \in {"test", "over"} /\ disk' = Settled(disk, "whole")
    BY <1>16, SdhsStartFacts
  <2>3. CASE pc' = "sdhs run" /\ disk' = disk /\ proc' = proc
    BY <1>1, <2>1, <2>3
  <2>4. CASE pc' \in {"test", "over"} /\ disk' = Settled(disk, "whole")
    BY <2>1, <2>4 DEF Settles
  <2> QED BY <2>2, <2>3, <2>4
<1>17. CASE SdhsWaits
  <2>1. disk' = disk /\ conf' = conf /\ pc = "sdhs run" /\ pc' = "write" /\ start' = start /\ proc' = proc
    BY <1>17 DEF SdhsWaits, control
  <2> QED BY <1>1, <2>1
<1>18. CASE SdhsEnds
  <2>1. conf' = conf /\ pc = "sdhs end" /\ pc' = "test" /\ start' = start
    BY <1>18 DEF SdhsEnds
  <2>2. disk' = Settled(disk, "whole") \/ (disk' = disk /\ proc' = proc)
    BY <1>18 DEF SdhsEnds
  <2>3. CASE disk' = Settled(disk, "whole")
    BY <2>1, <2>3 DEF Settles
  <2>4. CASE disk' = disk /\ proc' = proc
    BY <1>1, <2>1, <2>4
  <2> QED BY <2>2, <2>3, <2>4
<1>19. CASE Restart
  <2>1. disk' = disk /\ conf' = conf /\ pc = "over" /\ pc' = "conf"
    BY <1>19 DEF Restart
  <2> QED BY <1>1, <2>1
<1>20. CASE Terminated
  <2>1. disk' = disk /\ conf' = conf /\ pc = "over" /\ pc' = "over"
    BY <1>20 DEF Terminated, benchVars, control
  <2> QED BY <1>1, <2>1
<1> QED BY <1>2, <1>3, <1>4, <1>5, <1>6, <1>7, <1>8, <1>9, <1>10, <1>11, <1>12, <1>13, <1>14, <1>15, <1>16, <1>17,
           <1>18, <1>19, <1>20 DEF BenchNext

(* Every file is still there, and what was not open is as it was.          *)
Kept ==
  \A d \in Dirs : \A f \in disk[d] :
    \E g \in disk'[d] : /\ g.nr = f.nr /\ g.name = f.name /\ g.start = f.start
                        /\ f.fate # "open" => g = f

(* Without a failing call a file is not lost.                              *)
Lasting ==
  faults' = 0 /\ ~Dead =>
    \A d \in Dirs : \A f \in disk[d] :
      f.fate \in {"open", "whole"} =>
        \E g \in disk'[d] : g.name = f.name /\ g.start = f.start /\ g.fate \in {"open", "whole"}

LEMMA StillFiles ==
  ASSUME FilesOK, Still, conf.debugger \in BOOLEAN
  PROVE  FilesOK' /\ Kept /\ Lasting
<1>1. /\ disk' = disk /\ conf' = conf /\ pc # "body" /\ pc' # "body" /\ LogFresh'
      /\ (start' = start /\ proc' = proc /\ pc' # "over") \/ (~conf.debugger /\ proc = 0) \/ pc = "over"
  BY DEF Still
<1>2. DiskOK' /\ NumbersOK' /\ Kept /\ Lasting
  BY <1>1 DEF FilesOK, DiskOK, NumbersOK, Kept, Lasting
<1>3. LogsOK'
  BY <1>1 DEF FilesOK, LogsOK
<1>4. BodyOK'
  BY <1>1 DEF BodyOK
<1>5. OpenOK'
  <2>1. ASSUME NEW d \in Dirs, NEW f \in disk[d], f.fate = "open"
        PROVE  f.start = start' /\ f.proc = proc' /\ pc' # "over" /\ f.proc = (IF conf.debugger THEN 0 ELSE 1)
    <3>1. f.start = start /\ f.proc = proc /\ pc # "over" /\ f.proc = (IF conf.debugger THEN 0 ELSE 1)
      BY <2>1 DEF FilesOK, OpenOK
    <3>2. ~(~conf.debugger /\ proc = 0)
      BY <3>1
    <3> QED BY <1>1, <3>1, <3>2
  <2> QED BY <1>1, <2>1 DEF OpenOK
<1>6. DataOK'
  <2>1. \A d \in Dirs : \A f \in disk[d] : f.name = "bin" => Complete(d, f)
    BY <1>1 DEF FilesOK, DataOK
  <2> QED BY <1>1, <2>1 DEF DataOK, Complete, Count
<1> QED BY <1>2, <1>3, <1>4, <1>5, <1>6 DEF FilesOK

LEMMA FateFacts ==
  ASSUME NEW f \in Result, NEW fate, NEW g, g = [f EXCEPT !.fate = fate]
  PROVE  /\ g.nr = f.nr /\ g.name = f.name /\ g.start = f.start /\ g.proc = f.proc /\ g.iter = f.iter
         /\ g.count = f.count /\ g.data = f.data /\ g.drained = f.drained /\ g.fate = fate
BY DEF Result

LEMMA SettlesFiles ==
  ASSUME FilesOK, Settles
  PROVE  FilesOK' /\ Kept /\ Lasting
<1>1. conf' = conf /\ pc # "body" /\ pc' # "body" /\ pc' # "logged"
  BY DEF Settles
<1>2. PICK fate \in {"whole", "cut"} : disk' = Settled(disk, fate) /\ (fate = "cut" => Dead \/ faults' # 0)
  BY DEF Settles
<1>3. /\ disk' \in [Dirs -> SUBSET Result] /\ \A d \in Dirs : IsFiniteSet(disk'[d])
      /\ \A d \in Dirs :
              /\ \A f \in disk[d] : \E g \in disk'[d] :
                   \/ g = f
                   \/ f.fate = "open" /\ f.start = start /\ f.proc = proc /\ g = [f EXCEPT !.fate = fate]
              /\ \A g \in disk'[d] : \E f \in disk[d] :
                   \/ g = f /\ ~(f.fate = "open" /\ f.start = start /\ f.proc = proc)
                   \/ f.fate = "open" /\ f.start = start /\ f.proc = proc /\ g = [f EXCEPT !.fate = fate]
  BY <1>2, SettledFacts DEF FilesOK
<1>4. \A d \in Dirs : \A f \in disk[d] : f \in Result
  BY DEF FilesOK, DiskOK
<1>5. \A d \in Dirs : \A f \in disk[d] : f.fate = "open" => f.start = start /\ f.proc = proc
  BY DEF FilesOK, OpenOK
<1>6. ASSUME NEW d \in Dirs, NEW g \in disk'[d]
      PROVE  /\ g.fate # "open"
             /\ \E f \in disk[d] : /\ f.nr = g.nr /\ f.name = g.name
                                   /\ (g = f /\ f.fate # "open") \/ (f.fate = "open" /\ g = [f EXCEPT !.fate = fate])
                                   /\ g.iter = f.iter /\ g.count = f.count /\ g.data = f.data /\ g.drained = f.drained
                                   /\ g.proc = f.proc /\ (g.fate = f.fate \/ (f.fate = "open" /\ g.fate = fate))
  <2>1. PICK f \in disk[d] :
                   \/ g = f /\ ~(f.fate = "open" /\ f.start = start /\ f.proc = proc)
                   \/ f.fate = "open" /\ f.start = start /\ f.proc = proc /\ g = [f EXCEPT !.fate = fate]
    BY <1>3
  <2>2. CASE g = f /\ f.fate # "open"
    BY <2>2
  <2>3. CASE f.fate = "open" /\ g = [f EXCEPT !.fate = fate]
    <3>1. f \in Result
      BY <1>4
    <3>2. /\ g.nr = f.nr /\ g.name = f.name /\ g.proc = f.proc /\ g.iter = f.iter
          /\ g.count = f.count /\ g.data = f.data /\ g.drained = f.drained /\ g.fate = fate
      BY <2>3, <3>1, FateFacts
    <3> QED BY <2>3, <3>2
  <2> QED BY <1>5, <2>1, <2>2, <2>3
<1>7. DiskOK'
  BY <1>3 DEF DiskOK
<1>8. Kept
  <2>1. ASSUME NEW d \in Dirs, NEW f \in disk[d]
        PROVE  \E g \in disk'[d] : /\ g.nr = f.nr /\ g.name = f.name /\ g.start = f.start
                                   /\ f.fate # "open" => g = f
    <3>1. PICK g \in disk'[d] :
                   \/ g = f
                   \/ f.fate = "open" /\ f.start = start /\ f.proc = proc /\ g = [f EXCEPT !.fate = fate]
      BY <1>3
    <3>2. CASE g = f
      BY <3>2
    <3>3. CASE f.fate = "open" /\ g = [f EXCEPT !.fate = fate]
      <4>1. g.nr = f.nr /\ g.name = f.name /\ g.start = f.start
        BY <1>4, <3>3, FateFacts
      <4> QED BY <3>3, <4>1
    <3> QED BY <3>1, <3>2, <3>3
  <2> QED BY <2>1 DEF Kept
<1>9. LogsOK'
  <2>1. ASSUME NEW d \in Dirs, NEW g \in disk'[d]
        PROVE  IF d.class = "log" THEN g.name # "bin" /\ g.fate = "whole" ELSE g.name = "bin"
    <3>1. PICK f \in disk[d] : f.name = g.name /\ (g.fate = f.fate \/ f.fate = "open")
      BY <1>6
    <3>2. IF d.class = "log" THEN f.name # "bin" /\ f.fate = "whole" ELSE f.name = "bin"
      BY DEF FilesOK, LogsOK
    <3> QED BY <3>1, <3>2
  <2> QED BY <1>1, <2>1 DEF LogsOK, LogFresh
<1>10. NumbersOK'
  <2>1. ASSUME NEW d \in Dirs, NEW g \in disk'[d], NEW h \in disk'[d], g.nr = h.nr, g.name = h.name
        PROVE  g = h
    <3>1. PICK f \in disk[d] : /\ f.nr = g.nr /\ f.name = g.name
                               /\ (g = f /\ f.fate # "open") \/ (f.fate = "open" /\ g = [f EXCEPT !.fate = fate])
      BY <1>6, Zenon
    <3>2. PICK e \in disk[d] : /\ e.nr = h.nr /\ e.name = h.name
                               /\ (h = e /\ e.fate # "open") \/ (e.fate = "open" /\ h = [e EXCEPT !.fate = fate])
      BY <1>6, Zenon
    <3>3. f = e
      BY <2>1, <3>1, <3>2 DEF FilesOK, NumbersOK
    <3> QED BY <3>1, <3>2, <3>3, Zenon
  <2> QED BY <2>1 DEF NumbersOK
<1>11. OpenOK'
  BY <1>6 DEF OpenOK
<1>12. BodyOK'
  BY <1>1 DEF BodyOK
<1>13. DataOK'
  <2>1. ASSUME NEW d \in Dirs, NEW g \in disk'[d], g.name = "bin"
        PROVE  Complete(d, g)
    <3>1. PICK f \in disk[d] : /\ f.name = g.name /\ g.proc = f.proc
                               /\ g.iter = f.iter /\ g.count = f.count /\ g.data = f.data /\ g.drained = f.drained
                               /\ (g.fate = f.fate \/ (f.fate = "open" /\ g.fate = fate))
      BY <1>6
    <3>2. Complete(d, f)
      BY <1>1, <2>1, <3>1 DEF FilesOK, DataOK
    <3> QED BY <3>1, <3>2 DEF Complete
  <2> QED BY <2>1 DEF DataOK, Complete, Count
<1>14. Lasting
  <2>1. ASSUME fate = "whole", NEW d \in Dirs, NEW f \in disk[d], f.fate \in {"open", "whole"}
        PROVE  \E g \in disk'[d] : g.name = f.name /\ g.start = f.start /\ g.fate \in {"open", "whole"}
    <3>1. PICK g \in disk'[d] :
                   \/ g = f
                   \/ f.fate = "open" /\ f.start = start /\ f.proc = proc /\ g = [f EXCEPT !.fate = fate]
      BY <1>3
    <3>2. CASE g = f
      BY <2>1, <3>2
    <3>3. CASE g = [f EXCEPT !.fate = fate]
      <4>1. g.name = f.name /\ g.start = f.start /\ g.fate = fate
        BY <1>4, <3>3, FateFacts
      <4> QED BY <2>1, <4>1
    <3> QED BY <3>1, <3>2, <3>3
  <2> QED BY <1>2, <2>1 DEF Lasting
<1> QED BY <1>7, <1>8, <1>9, <1>10, <1>11, <1>12, <1>13, <1>14 DEF FilesOK

LEMMA LoggingFiles ==
  ASSUME FilesOK, NEW dir \in Dirs, NEW new \in Result, Logging(dir, new)
  PROVE  FilesOK' /\ Kept /\ Lasting
<1>1. /\ disk' = Saved(dir, new) /\ dir.class = "log"
      /\ new.name # "bin" /\ new.fate = "whole"
      /\ \A g \in disk[dir] : g.nr # new.nr \/ g.name # new.name
      /\ pc # "body" /\ pc' # "body" /\ pc' # "over" /\ LogFresh' /\ start' = start /\ proc' = proc /\ conf' = conf
  BY DEF Logging
<1>2. /\ disk' \in [Dirs -> SUBSET Result] /\ \A d \in Dirs : IsFiniteSet(disk'[d])
      /\ disk'[dir] = Put(disk[dir], new) /\ \A d \in Dirs : d # dir => disk'[d] = disk[d]
  BY <1>1, SavedFacts DEF FilesOK
<1>3. disk[dir] \in SUBSET Result /\ IsFiniteSet(disk[dir])
  BY DEF FilesOK, DiskOK
<1>4. /\ \A d \in Dirs : \A f \in disk[d] : f \in disk'[d]
      /\ \A d \in Dirs : \A g \in disk'[d] : g \in disk[d] \/ (d = dir /\ g = new)
  BY <1>1, <1>2, <1>3, PutFacts
<1>5. DiskOK' /\ Kept /\ Lasting
  BY <1>2, <1>4 DEF DiskOK, Kept, Lasting
<1>6. LogsOK'
  <2>1. ASSUME NEW d \in Dirs, NEW g \in disk'[d]
        PROVE  IF d.class = "log" THEN g.name # "bin" /\ g.fate = "whole" ELSE g.name = "bin"
    BY <1>1, <1>4 DEF FilesOK, LogsOK
  <2> QED BY <1>1, <2>1 DEF LogsOK
<1>7. NumbersOK'
  <2>1. ASSUME NEW d \in Dirs, NEW g \in disk'[d], NEW h \in disk'[d], g.nr = h.nr, g.name = h.name
        PROVE  g = h
    BY <1>1, <1>4, <2>1 DEF FilesOK, NumbersOK
  <2> QED BY <2>1 DEF NumbersOK
<1>8. OpenOK'
  <2>1. ASSUME NEW d \in Dirs, NEW g \in disk'[d], g.fate = "open" PROVE g \in disk[d]
    BY <1>1, <1>4, <2>1
  <2> QED BY <1>1, <2>1 DEF FilesOK, OpenOK
<1>9. BodyOK'
  BY <1>1 DEF BodyOK
<1>10. DataOK'
  <2>1. ASSUME NEW d \in Dirs, NEW g \in disk'[d], g.name = "bin" PROVE Complete(d, g)
    BY <1>1, <1>4, <2>1 DEF FilesOK, DataOK
  <2> QED BY <2>1 DEF DataOK, Complete, Count
<1> QED BY <1>5, <1>6, <1>7, <1>8, <1>9, <1>10 DEF FilesOK

LEMMA SdhsThreadFiles ==
  ASSUME FilesOK, RunOK, SdhsThread
  PROVE  FilesOK' /\ Kept /\ Lasting
<1>1. /\ disk' = disk /\ conf' = conf /\ pc' = pc /\ start' = start /\ proc' = proc /\ entry' = entry
      /\ drained' = drained /\ suite' = suite /\ run_nr' = run_nr
  BY DEF SdhsThread, control, process
<1>2. PICK t \in Threads : ThreadStep(t)
  BY DEF SdhsThread
<1>3. ~drained \/ pc = "sdhs run"
  BY <1>2, DrainedFacts DEF ThreadsOK, RunOK
<1>4. DiskOK' /\ NumbersOK' /\ Kept /\ Lasting
  BY <1>1 DEF FilesOK, DiskOK, NumbersOK, Kept, Lasting
<1>5. LogsOK'
  BY <1>1 DEF FilesOK, LogsOK, LogFresh
<1>6. OpenOK'
  BY <1>1 DEF FilesOK, OpenOK
<1>7. \A d : get_next_run_nr(d)' = get_next_run_nr(d)
  BY <1>1 DEF get_next_run_nr
<1>8. BodyOK'
  BY <1>1, <1>3, <1>7 DEF FilesOK, BodyOK, Newest
<1>9. DataOK'
  BY <1>1, <1>7 DEF FilesOK, DataOK, Complete, Count, Newest
<1> QED BY <1>4, <1>5, <1>6, <1>8, <1>9 DEF FilesOK

(* The directory of a measurement.                                         *)
LEMMA EntryDir ==
  ASSUME BenchTypeOK, TestOK, EntryOK, InWrite
  PROVE  /\ entry \in Dirs /\ entry.class # "log"
         /\ entry # Sdhs => Count(entry) \in Nat \ {0}
<1>1. CASE entry = Sdhs
  BY <1>1, DirFacts DEF Sdhs
<1>2. CASE entry # Sdhs
  <2>1. InLoop
    BY <1>2 DEF InLoop
  <2>2. /\ Loop.fn \in Fns /\ Loop.class \in ToSet(Classes) /\ Loop.class # "log"
        /\ SizesOf[Loop.class] \in Seq(Nat \ {0})
    BY <2>1, LoopFacts
  <2>3. \A n, c : Dir(Loop.fn, n, c).size = n /\ Dir(Loop.fn, n, c).class = c
    BY DEF Dir
  <2>4. /\ Iterations \in Nat \ {0} /\ Iterations * Len(SizesOf[Loop.class]) \in Nat /\ Iterations * 1 = Iterations
        /\ Iterations <= Iterations * Len(SizesOf[Loop.class])
    BY <2>2, CountFacts
  <2>5. CASE entry.size = 0
    <3>1. entry = Dir(Loop.fn, 0, Loop.class)
      BY <1>2, <2>5, EntryFacts
    <3>2. entry \in Dirs /\ entry.class = Loop.class
      BY <2>2, <2>3, <3>1, DirFacts
    <3>3. Count(entry) = Iterations * Len(SizesOf[Loop.class])
      BY <2>5, <3>2 DEF Count
    <3>4. Count(entry) \in Nat \ {0}
      <4>1. \A i \in Nat \ {0}, n \in Nat : i <= n => n \in Nat \ {0}
        OBVIOUS
      <4> QED BY <2>4, <3>3, <4>1
    <3> QED BY <2>2, <3>2, <3>4
  <2>6. CASE entry.size # 0
    <3>1. left # <<>> /\ entry = Dir(Loop.fn, Head(left), "")
      BY <1>2, <2>6, EntryFacts
    <3>2. left \in Seq(Nat \ {0}) /\ Rest(left, SizesOf[Loop.class])
      BY <2>6, TypeFacts DEF EntryOK, Sizing
    <3>3. Head(left) \in ToSet(SizesOf[Loop.class])
      BY <2>2, <3>1, <3>2, RestFacts
    <3>4. entry \in Dirs /\ entry.class = ""
      BY <2>2, <2>3, <3>1, <3>3, DirFacts
    <3>5. Count(entry) = Iterations
      BY <2>4, <2>6 DEF Count
    <3> QED BY <2>4, <3>4, <3>5
  <2> QED BY <2>5, <2>6
<1> QED BY <1>1, <1>2

Opened(n) ==
  [File(n, "bin") EXCEPT !.iter = coll.iter, !.count = coll.cur, !.fate = "open", !.drained = drained]

LEMMA OpenedFacts ==
  ASSUME BenchTypeOK, NEW n \in Nat
  PROVE  /\ Opened(n) \in Result /\ Opened(n).nr = n /\ Opened(n).name = "bin" /\ Opened(n).start = start
         /\ Opened(n).proc = proc /\ Opened(n).fate = "open" /\ Opened(n).drained = drained
         /\ Opened(n).iter = coll.iter /\ Opened(n).count = coll.cur
<1>1. start \in Nat /\ proc \in {0, 1} /\ drained \in BOOLEAN /\ coll.iter \in Nat /\ coll.cur \in Nat
  <2>1. coll \in Statics /\ drained \in BOOLEAN
    BY DEF BenchTypeOK
  <2> QED BY <2>1, TypeFacts, StaticsFacts, TotalFacts
<1>2. PICK f \in Result : f = File(n, "bin") /\ f.nr = n /\ f.name = "bin" /\ f.start = start /\ f.proc = proc
  BY <1>1, FileFacts
<1>3. Opened(n) = [f EXCEPT !.iter = coll.iter, !.count = coll.cur, !.fate = "open", !.drained = drained]
  BY <1>2 DEF Opened
<1> QED BY <1>1, <1>2, <1>3 DEF Result

LEMMA OpenEntryFiles ==
  ASSUME BenchTypeOK, TestOK, PhaseOK, EntryOK, FilesOK, OpenEntry
  PROVE  FilesOK' /\ Kept /\ Lasting
<1>1. /\ InWrite /\ pc = "write" /\ conf' = conf /\ start' = start /\ proc' = proc /\ entry' = entry
      /\ coll' = coll /\ drained' = drained
      /\ \/ pc' = "body" /\ disk' = Saved(entry, Opened(get_next_run_nr(entry)))
         \/ Written /\ disk' = disk
  BY WritingFacts DEF OpenEntry, WriteFails, Opened
<1>0. conf.debugger \in BOOLEAN /\ entry \in Dirs /\ entry.class # "log"
  BY <1>1, TypeFacts, EntryDir
<1>2. CASE Written /\ disk' = disk
  <2>1. pc' \notin {"body", "logged", "over"}
    BY <1>1, <1>2, WrittenFacts
  <2>2. Still
    BY <1>1, <1>2, <2>1 DEF Still, LogFresh
  <2> QED BY <1>0, <2>2, StillFiles
<1>3. CASE pc' = "body" /\ disk' = Saved(entry, Opened(get_next_run_nr(entry)))
  <2>1. disk[entry] \in SUBSET Result /\ IsFiniteSet(disk[entry])
    BY <1>0 DEF FilesOK, DiskOK
  <2>2. PICK n \in Nat : n = get_next_run_nr(entry) /\ \A f \in disk[entry] : f.nr < n
    BY <2>1, NextFacts, RunNrFacts
  <2>3. PICK new \in Result :
          /\ new = Opened(n) /\ new.nr = n /\ new.name = "bin" /\ new.start = start
          /\ new.proc = proc /\ new.fate = "open" /\ new.drained = drained
          /\ new.iter = coll.iter /\ new.count = coll.cur
    BY OpenedFacts
  <2>4. /\ disk' \in [Dirs -> SUBSET Result] /\ \A d \in Dirs : IsFiniteSet(disk'[d])
        /\ disk'[entry] = Put(disk[entry], new) /\ \A d \in Dirs : d # entry => disk'[d] = disk[d]
    BY <1>0, <1>3, <2>2, <2>3, SavedFacts DEF FilesOK
  <2>5. \A f \in disk[entry] : f.nr \in Nat /\ f.nr # new.nr /\ f.nr < n
    BY <2>1, <2>2, <2>3, ResultFacts
  <2>6. /\ \A d \in Dirs : \A f \in disk[d] : f \in disk'[d]
        /\ \A d \in Dirs : \A g \in disk'[d] : g \in disk[d] \/ (d = entry /\ g = new)
    BY <2>1, <2>4, <2>5, PutFacts
  <2>7. new \in disk'[entry]
    BY <2>1, <2>4, PutFacts
  <2>8. get_next_run_nr(entry)' = n + 1
    <3>1. disk'[entry] \in SUBSET Result /\ IsFiniteSet(disk'[entry])
      BY <1>0, <2>4
    <3>2. \A f \in disk'[entry] : f.nr <= n
      <4>1. ASSUME NEW f \in disk'[entry] PROVE f.nr <= n
        BY <1>0, <2>3, <2>5, <2>6
      <4> QED BY <4>1
    <3>3. NextNr(disk'[entry]) = n + 1
      BY <2>3, <2>7, <3>1, <3>2, NextUnique
    <3> QED BY <1>1, <3>3 DEF get_next_run_nr, NextNr
  <2>9. \A f \in disk'[entry] : Newest(entry, f)' <=> f = new
    <3>1. ASSUME NEW f \in disk'[entry] PROVE Newest(entry, f)' <=> f = new
      <4>1. n + 1 - 1 = n
        OBVIOUS
      <4>2. Newest(entry, f)' <=> f.nr = n
        BY <1>1, <2>8, <4>1 DEF Newest
      <4>3. f = new \/ f \in disk[entry]
        BY <1>0, <2>6
      <4> QED BY <2>3, <2>5, <4>2, <4>3
    <3> QED BY <3>1
  <2>10. DiskOK' /\ Kept /\ Lasting
    BY <2>4, <2>6 DEF DiskOK, Kept, Lasting
  <2>11. LogsOK'
    BY <1>0, <1>1, <1>3, <2>3, <2>6 DEF FilesOK, LogsOK, LogFresh
  <2>12. NumbersOK'
    <3>1. ASSUME NEW d \in Dirs, NEW g \in disk'[d], NEW h \in disk'[d], g.nr = h.nr, g.name = h.name
          PROVE  g = h
      BY <2>5, <2>6, <3>1 DEF FilesOK, NumbersOK
    <3> QED BY <3>1 DEF NumbersOK
  <2>13. OpenOK'
    <3>1. proc = (IF conf.debugger THEN 0 ELSE 1)
      BY <1>0, <1>1 DEF PhaseOK, ChildAt
    <3>2. ASSUME NEW d \in Dirs, NEW f \in disk'[d], f.fate = "open"
          PROVE  f.start = start /\ f.proc = proc /\ f.proc = (IF conf.debugger THEN 0 ELSE 1)
      BY <2>3, <2>6, <3>1, <3>2 DEF FilesOK, OpenOK
    <3> QED BY <1>1, <1>3, <3>2 DEF OpenOK
  <2>14. BodyOK'
    BY <1>1, <1>3, <2>3, <2>9 DEF BodyOK
  <2>15. DataOK'
    <3>1. ASSUME NEW d \in Dirs, NEW f \in disk'[d], f.name = "bin", ~(d = entry /\ f = new) PROVE Complete(d, f)
      BY <1>1, <2>6, <3>1 DEF FilesOK, DataOK
    <3>2. \A d \in Dirs : \A f \in disk'[d] : f.name = "bin" /\ ~(d = entry /\ Newest(d, f)') => Complete(d, f)
      <4>1. ASSUME NEW d \in Dirs, NEW f \in disk'[d], f.name = "bin", ~(d = entry /\ Newest(d, f)') PROVE Complete(d, f)
        <5>1. ~(d = entry /\ f = new)
          <6>1. ASSUME d = entry, f = new PROVE FALSE
            <7>1. Newest(d, f)' <=> Newest(entry, f)'
              BY <1>1, <6>1 DEF Newest, get_next_run_nr
            <7> QED BY <2>7, <2>9, <4>1, <6>1, <7>1
          <6> QED BY <6>1
        <5> QED BY <3>1, <4>1, <5>1
      <4> QED BY <4>1
    <3> QED BY <1>1, <1>3, <3>2 DEF DataOK, Complete, Count
  <2> QED BY <2>10, <2>11, <2>12, <2>13, <2>14, <2>15 DEF FilesOK
<1> QED BY <1>1, <1>2, <1>3

LEMMA WrittenData ==
  ASSUME NEW m \in Statics, NEW s, s = [i \in 1 .. m.cur |-> m.arr[i - 1]]
  PROVE  s \in Seq(Timings) /\ Len(s) = m.cur
<1>1. PICK n \in 0 .. Cells : n = m.cur
  BY StaticsFacts
<1>2. Cells \in Nat /\ n \in Nat /\ m.arr \in [0 .. Cells - 1 -> Timings]
  BY <1>1, TotalFacts, StaticsFacts
<1>3. \A i \in 1 .. n : i - 1 \in 0 .. Cells - 1
  BY <1>2
<1>4. s \in [1 .. n -> Timings]
  BY <1>1, <1>2, <1>3
<1>5. s \in UNION {[1 .. k -> Timings] : k \in Nat}
  BY <1>2, <1>4
<1>6. s \in Seq(Timings)
  BY <1>5, SeqDef, Zenon
<1>7. Len(s) \in Nat /\ DOMAIN s = 1 .. Len(s) /\ DOMAIN s = 1 .. n
  BY <1>4, <1>6, LenProperties
<1>8. PICK k \in Nat : k = Len(s)
  BY <1>7
<1>9. 1 .. k = 1 .. n
  BY <1>7, <1>8
<1>10. k = n
  <2>1. (k >= 1 => k \in 1 .. k) /\ (n >= 1 => n \in 1 .. n)
    BY <1>2
  <2>2. (k >= 1 => k <= n) /\ (n >= 1 => n <= k)
    <3>1. ASSUME k >= 1 PROVE k <= n
      <4>1. k \in 1 .. n
        BY <1>9, <2>1, <3>1
      <4> QED BY <4>1
    <3>2. ASSUME n >= 1 PROVE n <= k
      <4>1. n \in 1 .. k
        BY <1>9, <2>1, <3>2
      <4> QED BY <4>1
    <3> QED BY <3>1, <3>2
  <2> QED BY <1>2, <2>2
<1> QED BY <1>1, <1>6, <1>8, <1>10

(* What is written is the collection, and all its timings are of the one   *)
(* who collected.                                                          *)
LEMMA BodyData ==
  ASSUME NEW m \in Statics, NEW e \in Timings, NEW s, s = [i \in 1 .. m.cur |-> m.arr[i - 1]],
         \A i \in 0 .. Cells - 1 : i < m.cur => m.arr[i] = e, m.cur # 0
  PROVE  ToSet(s) = {e}
<1>1. PICK n \in 0 .. Cells : n = m.cur
  BY StaticsFacts
<1>2. Cells \in Nat /\ n \in Nat
  BY <1>1, TotalFacts
<1>3. ASSUME NEW i \in 1 .. n PROVE m.arr[i - 1] = e
  <2>1. i - 1 \in 0 .. Cells - 1 /\ i - 1 < n
    BY <1>2
  <2> QED BY <1>1, <2>1
<1>4. DOMAIN s = 1 .. n /\ \A i \in 1 .. n : s[i] = e
  BY <1>1, <1>3
<1>5. 1 \in 1 .. n
  BY <1>1, <1>2
<1> QED BY <1>4, <1>5 DEF ToSet

(* The collection of a measurement that nobody disturbs is complete.       *)
LEMMA MeasuredBody ==
  ASSUME BenchTypeOK, TestOK, PhaseOK, EntryOK, FreshOK, RunOK, MeasuredOK, InWrite, entry # Sdhs
  PROVE  /\ drained => coll.cur = Count(entry) /\ \A i \in 0 .. Cells - 1 : i < coll.cur => coll.arr[i] = entry
         /\ proc = 1 => \E c \in ToSet(Classes) : coll.iter <= Iterations * Len(SizesOf[c])
<1>1. drained => coll.cur = Count(entry) /\ \A i \in 0 .. Cells - 1 : i < coll.cur => coll.arr[i] = entry
  BY DEF MeasuredOK
<1>2. InLoop
  BY DEF InLoop
<1>3. Loop.class \in ToSet(Classes)
  BY <1>2, LoopFacts
<1>4. ASSUME proc # 0 PROVE coll.iter <= Iterations * Len(SizesOf[Loop.class])
  <2>1. CASE entry.size = 0
    BY <1>4, <2>1 DEF MeasuredOK, Summing
  <2>2. CASE entry.size # 0
    <3>1. left # <<>> /\ left \in Seq(Nat \ {0}) /\ pc # "each"
      BY <2>2, EntryFacts, TypeFacts DEF InWrite
    <3>2. coll.iter + Iterations * (Len(left) - 1) <= Iterations * Len(SizesOf[Loop.class])
      BY <1>4, <2>2, <3>1 DEF MeasuredOK, Sizing
    <3>3. PICK k \in Nat : k = Len(left) - 1
      BY <3>1
    <3>4. PICK a \in Nat, b \in Nat : a = Iterations /\ b = Iterations * Len(SizesOf[Loop.class])
      BY <1>3, CountFacts
    <3>5. a * k \in Nat
      BY TimesFacts
    <3>6. coll.iter \in Nat
      BY StaticsFacts DEF BenchTypeOK
    <3>7. coll.iter + a * k <= b
      BY <3>2, <3>3, <3>4
    <3>8. PICK p \in Nat : p = a * k
      BY <3>5
    <3>9. coll.iter <= b
      BY <3>4, <3>6, <3>7, <3>8
    <3> QED BY <3>4, <3>9
  <2> QED BY <2>1, <2>2
<1> QED BY <1>1, <1>3, <1>4

(* The same where all threads of a data handler have ended.                *)
LEMMA SdhsBody ==
  ASSUME BenchTypeOK, PhaseOK, FreshOK, RunOK, InWrite, entry = Sdhs, proc # 0, drained
  PROVE  /\ \A i \in 0 .. Cells - 1 : i < coll.cur => coll.arr[i] = Sdhs
         /\ coll.cur \in 1 .. Total /\ coll.iter \in 1 .. Total
<1>1. Running /\ pc # "sdhs run"
  BY DEF Running, InWrite
<1>2. IterRight /\ CurRight /\ \A t \in Threads : thread[t].left = 0
  BY <1>1 DEF RunOK, SdhsOK, ThreadsOK
<1>3. \A t \in Threads : thread[t].at # "arr last"
  <2>1. ASSUME NEW t \in Threads, thread[t].at = "arr last" PROVE FALSE
    <3>1. thread[t].left >= 1 /\ thread[t].left = 0
      BY <1>2, <2>1 DEF RunOK, Shape
    <3> QED BY <3>1
  <2> QED BY <2>1
<1>4. \A i \in 0 .. Cells - 1 : i < coll.cur => coll.arr[i] = Sdhs
  BY <1>2, <1>3 DEF CurRight, Timing
<1>5. PerThread # 0 /\ Threads # {} /\ Total \in Nat
  BY TotalFacts
<1>6. coll.cur # 0 /\ coll.iter # 0
  BY <1>2, <1>5 DEF CurRight, IterRight
<1>7. CurLeft \in Nat /\ IterLeft \in Nat
  BY BelowFacts DEF CurLeft, IterLeft
<1>8. coll.cur + CurLeft <= Total /\ coll.iter + IterLeft <= Total
  BY <1>1, <1>2 DEF RunOK, CellsLeft, CurLimit, IterRight
<1>9. coll.cur \in Nat /\ coll.iter \in Nat
  <2>1. coll.iter \in Nat /\ coll.cur \in 0 .. Cells /\ Cells \in Nat
    BY StaticsFacts, TotalFacts DEF BenchTypeOK
  <2> QED BY <2>1
<1> QED BY <1>4, <1>5, <1>6, <1>7, <1>8, <1>9

(* What a file holds after the body was written.                           *)
LEMMA BodyComplete ==
  ASSUME BenchTypeOK, TestOK, PhaseOK, EntryOK, FreshOK, RunOK, MeasuredOK, InWrite,
         NEW g, g.drained = drained, g.proc = proc, drained => g.count = coll.cur /\ g.iter = coll.iter,
         g.data = [i \in 1 .. coll.cur |-> coll.arr[i - 1]]
  PROVE  Complete(entry, g)
<1>1. coll \in Statics /\ entry \in Dirs /\ entry \in Timings /\ (entry # Sdhs => Count(entry) # 0)
  BY EntryDir DEF RunOK, Timings
<1>2. SUFFICES ASSUME drained PROVE Complete(entry, g)
  BY DEF Complete
<1>3. g.count = coll.cur /\ g.iter = coll.iter /\ g.count = Len(g.data)
  BY <1>1, <1>2, WrittenData
<1>4. CASE entry # Sdhs
  <2>1. /\ coll.cur = Count(entry) /\ \A i \in 0 .. Cells - 1 : i < coll.cur => coll.arr[i] = entry
        /\ proc = 1 => \E c \in ToSet(Classes) : coll.iter <= Iterations * Len(SizesOf[c])
    BY <1>2, <1>4, MeasuredBody
  <2>2. PICK e \in Timings, m \in Statics : e = entry /\ m = coll
    BY <1>1
  <2>3. ToSet(g.data) = {e}
    <3>1. /\ \A i \in 0 .. Cells - 1 : i < m.cur => m.arr[i] = e
          /\ m.cur # 0 /\ g.data = [i \in 1 .. m.cur |-> m.arr[i - 1]]
      BY <1>1, <1>4, <2>1, <2>2
    <3> QED BY <3>1, BodyData
  <2> QED BY <1>3, <1>4, <2>1, <2>2, <2>3 DEF Complete
<1>5. CASE entry = Sdhs /\ proc # 0
  <2>1. /\ \A i \in 0 .. Cells - 1 : i < coll.cur => coll.arr[i] = Sdhs
        /\ coll.cur \in 1 .. Total /\ coll.iter \in 1 .. Total
    BY <1>2, <1>5, SdhsBody
  <2>2. PICK e \in Timings, m \in Statics : e = Sdhs /\ m = coll
    BY <1>1, <1>5
  <2>3. ToSet(g.data) = {e}
    <3>1. /\ \A i \in 0 .. Cells - 1 : i < m.cur => m.arr[i] = e
          /\ m.cur # 0 /\ g.data = [i \in 1 .. m.cur |-> m.arr[i - 1]]
      BY <2>1, <2>2, TotalFacts
    <3> QED BY <3>1, BodyData
  <2>4. coll.cur <= Total
    BY <2>1, TotalFacts
  <2> QED BY <1>3, <1>5, <2>1, <2>2, <2>3, <2>4 DEF Complete
<1>6. CASE entry = Sdhs /\ proc = 0
  BY <1>6 DEF Complete
<1> QED BY <1>4, <1>5, <1>6

(* The body of a file is written, or only a part of it.                    *)
LEMMA WriteBodyFacts ==
  ASSUME BenchTypeOK, TestOK, EntryOK, FilesOK, WriteBody
  PROVE  /\ InWrite /\ pc = "body" /\ Written /\ entry \in Dirs /\ entry.class # "log"
         /\ \E f \in disk[entry], new \in Result :
              /\ Newest(entry, f) /\ f.fate = "open" /\ f.start = start /\ f.proc = proc /\ f.drained = drained
              /\ drained => f.count = coll.cur /\ f.iter = coll.iter
              /\ disk' = Saved(entry, new) /\ new.nr = f.nr /\ new.name = f.name /\ f.name = "bin"
              /\ new.start = f.start /\ new.proc = f.proc /\ new.drained = f.drained
              /\ \/ /\ new.fate = "open" /\ new.count = f.count /\ new.iter = f.iter
                    /\ new.data = [i \in 1 .. coll.cur |-> coll.arr[i - 1]] /\ faults' = faults
                 \/ new.fate = "failed" /\ faults' = faults + 1
<1>1. InWrite /\ pc = "body" /\ Written
  BY DEF WriteBody, WriteFails, InWrite
<1>2. entry \in Dirs /\ entry.class # "log"
  BY <1>1, EntryDir
<1> DEFINE s == [i \in 1 .. coll.cur |-> coll.arr[i - 1]]
<1>3. PICK f \in disk[entry] :
        /\ f.nr = get_next_run_nr(entry) - 1
        /\ \/ faults' = faults /\ disk' = Saved(entry, [f EXCEPT !.data = s])
           \/ faults' = faults + 1 /\ disk' = Saved(entry, [f EXCEPT !.fate = "failed"])
  BY DEF WriteBody, NoFault, WriteFails, Fault
<1>4. Newest(entry, f) /\ f \in Result
  BY <1>2, <1>3 DEF Newest, FilesOK, DiskOK
<1>5. f.fate = "open" /\ f.drained = drained /\ (drained => f.count = coll.cur /\ f.iter = coll.iter)
  BY <1>1, <1>4 DEF FilesOK, BodyOK
<1>6. f.start = start /\ f.proc = proc /\ f.name = "bin"
  BY <1>2, <1>5 DEF FilesOK, OpenOK, LogsOK
<1>7. s \in Seq(Timings)
  <2>1. coll \in Statics
    BY DEF BenchTypeOK
  <2> QED BY <2>1, WrittenData
<1> HIDE DEF s
<1>8. CASE faults' = faults /\ disk' = Saved(entry, [f EXCEPT !.data = s])
  <2>1. PICK new : new = [f EXCEPT !.data = s]
    OBVIOUS
  <2>2. /\ new \in Result /\ new.nr = f.nr /\ new.name = f.name /\ new.start = f.start /\ new.proc = f.proc
        /\ new.drained = f.drained /\ new.fate = f.fate /\ new.count = f.count /\ new.iter = f.iter
        /\ new.data = s
    BY <1>4, <1>7, <2>1 DEF Result
  <2> QED BY <1>1, <1>2, <1>4, <1>5, <1>6, <1>8, <2>1, <2>2 DEF s
<1>9. CASE faults' = faults + 1 /\ disk' = Saved(entry, [f EXCEPT !.fate = "failed"])
  <2>1. PICK new : new = [f EXCEPT !.fate = "failed"]
    OBVIOUS
  <2>2. /\ new \in Result /\ new.nr = f.nr /\ new.name = f.name /\ new.start = f.start /\ new.proc = f.proc
        /\ new.drained = f.drained /\ new.fate = "failed"
    BY <1>4, <2>1 DEF Result
  <2> QED BY <1>1, <1>2, <1>4, <1>5, <1>6, <1>9, <2>1, <2>2
<1> QED BY <1>3, <1>8, <1>9

LEMMA WriteBodyFiles ==
  ASSUME BenchTypeOK, TestOK, PhaseOK, EntryOK, FreshOK, RunOK, MeasuredOK, FilesOK, WriteBody
  PROVE  FilesOK' /\ Kept /\ Lasting
<1>1. InWrite /\ pc = "body" /\ Written /\ entry \in Dirs /\ entry.class # "log"
  BY WriteBodyFacts
<1>2. PICK f \in disk[entry], new \in Result :
              /\ Newest(entry, f) /\ f.fate = "open" /\ f.start = start /\ f.proc = proc /\ f.drained = drained
              /\ drained => f.count = coll.cur /\ f.iter = coll.iter
              /\ disk' = Saved(entry, new) /\ new.nr = f.nr /\ new.name = f.name /\ f.name = "bin"
              /\ new.start = f.start /\ new.proc = f.proc /\ new.drained = f.drained
              /\ \/ /\ new.fate = "open" /\ new.count = f.count /\ new.iter = f.iter
                    /\ new.data = [i \in 1 .. coll.cur |-> coll.arr[i - 1]] /\ faults' = faults
                 \/ new.fate = "failed" /\ faults' = faults + 1
  BY WriteBodyFacts
<1>3. /\ conf' = conf /\ start' = start /\ proc' = proc /\ entry' = entry
      /\ pc' \notin {"body", "logged", "over"}
  <2>1. pc' \notin {"body", "logged", "over"}
    BY <1>1, WrittenFacts
  <2> QED BY <2>1, WritingFacts
<1>4. disk[entry] \in SUBSET Result /\ IsFiniteSet(disk[entry])
  BY <1>1 DEF FilesOK, DiskOK
<1>5. /\ disk' \in [Dirs -> SUBSET Result] /\ \A d \in Dirs : IsFiniteSet(disk'[d])
      /\ disk'[entry] = Put(disk[entry], new) /\ \A d \in Dirs : d # entry => disk'[d] = disk[d]
  BY <1>1, <1>2, SavedFacts DEF FilesOK
<1>6. \A g \in disk[entry] : g = f \/ g.nr # new.nr \/ g.name # new.name
  BY <1>1, <1>2 DEF FilesOK, NumbersOK
<1>7. \A g \in disk[entry] : Newest(entry, g) => g = f
  <2>1. \A g \in disk[entry] : g.name = "bin"
    BY <1>1 DEF FilesOK, LogsOK
  <2>2. \A g \in disk[entry] : Newest(entry, g) => g.nr = f.nr
    BY <1>2 DEF Newest
  <2> QED BY <1>1, <1>2, <2>1, <2>2 DEF FilesOK, NumbersOK
<1>8. new \in disk'[entry] /\ \A d \in Dirs : \A g \in disk[d] : g \in disk'[d] \/ (d = entry /\ g = f)
  BY <1>4, <1>5, <1>6, PutFacts
<1>9. \A d \in Dirs : \A g \in disk'[d] :
        \/ d = entry /\ g = new
        \/ g \in disk[d] /\ (d = entry => g.nr # new.nr \/ g.name # new.name)
  BY <1>4, <1>5, PutFacts
<1>10. DiskOK'
  BY <1>5 DEF DiskOK
<1>11. Kept
  <2>1. ASSUME NEW d \in Dirs, NEW g \in disk[d]
        PROVE  \E h \in disk'[d] : h.nr = g.nr /\ h.name = g.name /\ h.start = g.start /\ (g.fate # "open" => h = g)
    BY <1>1, <1>2, <1>8
  <2> QED BY <2>1 DEF Kept
<1>12. LogsOK'
  <2>1. ASSUME NEW d \in Dirs, NEW g \in disk'[d]
        PROVE  IF d.class = "log" THEN g.name # "bin" /\ g.fate = "whole" ELSE g.name = "bin"
    BY <1>1, <1>2, <1>9 DEF FilesOK, LogsOK
  <2> QED BY <1>3, <2>1 DEF LogsOK, LogFresh
<1>13. NumbersOK'
  <2>1. ASSUME NEW d \in Dirs, NEW g \in disk'[d], NEW h \in disk'[d], g.nr = h.nr, g.name = h.name
        PROVE  g = h
    BY <1>9, <2>1 DEF FilesOK, NumbersOK
  <2> QED BY <2>1 DEF NumbersOK
<1>14. OpenOK'
  <2>1. ASSUME NEW d \in Dirs, NEW g \in disk'[d], g.fate = "open"
        PROVE  g.start = start /\ g.proc = proc /\ g.proc = (IF conf.debugger THEN 0 ELSE 1)
    BY <1>1, <1>2, <1>9, <2>1 DEF FilesOK, OpenOK
  <2> QED BY <1>3, <2>1 DEF OpenOK
<1>15. BodyOK'
  BY <1>3 DEF BodyOK
<1>16. DataOK'
  <2>1. Complete(entry, new)
    <3>1. CASE new.fate = "failed"
      BY <3>1 DEF Complete
    <3>2. CASE new.fate # "failed"
      BY <1>1, <1>2, <3>2, BodyComplete
    <3> QED BY <3>1, <3>2
  <2>2. ASSUME NEW d \in Dirs, NEW g \in disk'[d], g.name = "bin" PROVE Complete(d, g)
    <3>1. CASE d = entry /\ g = new
      BY <2>1, <3>1
    <3>2. CASE g \in disk[d] /\ (d = entry => g.nr # new.nr \/ g.name # new.name)
      <4>1. ~(d = entry /\ Newest(d, g))
        BY <1>2, <1>7, <3>2
      <4> QED BY <2>2, <3>2, <4>1 DEF FilesOK, DataOK
    <3> QED BY <1>9, <3>1, <3>2
  <2> QED BY <1>3, <2>2 DEF DataOK, Complete, Count
<1>17. Lasting
  <2>1. faults' = 0 => new.fate = "open"
    <3>1. faults \in 0 .. MaxFaults
      BY DEF BenchTypeOK
    <3> QED BY <1>2, <3>1
  <2>2. ASSUME faults' = 0, NEW d \in Dirs, NEW g \in disk[d], g.fate \in {"open", "whole"}
        PROVE  \E h \in disk'[d] : h.name = g.name /\ h.start = g.start /\ h.fate \in {"open", "whole"}
    BY <1>1, <1>2, <1>8, <2>1, <2>2
  <2> QED BY <2>2 DEF Lasting
<1> QED BY <1>10, <1>11, <1>12, <1>13, <1>14, <1>15, <1>16, <1>17 DEF FilesOK

LEMMA FilesKept ==
  ASSUME BenchTypeOK, TestOK, PhaseOK, EntryOK, FreshOK, RunOK, MeasuredOK, FilesOK, BenchNext
  PROVE  FilesOK' /\ Kept /\ Lasting
<1>1. conf.debugger \in BOOLEAN
  BY TypeFacts
<1>2. \/ Still \/ Settles \/ SdhsThread \/ (\E dir \in Dirs, f \in Result : Logging(dir, f))
      \/ OpenEntry \/ WriteBody
  BY DiskEffects
<1> QED BY <1>1, <1>2, StillFiles, SettlesFiles, SdhsThreadFiles, LoggingFiles, OpenEntryFiles, WriteBodyFiles

(* What kind of values the variables hold.                                 *)
PlaceType ==
  /\ conf \in Confs /\ start \in 1 .. conf.starts /\ proc \in {0, 1} /\ drained \in BOOLEAN
  /\ pc \in {"conf", "test", "logged", "loop", "forked", "child", "each", "all", "write", "body",
             "close", "sdhs", "sdhs run", "sdhs end", "over"}
  /\ result \in {"none", "disabled", "passed", "failed", "killed"}
  /\ arena \in {"none", "made"} /\ log_file \in {"none", "open", "failed"} /\ phase \in 1 .. 3

LEMMA PlaceKept ==
  ASSUME BenchTypeOK, TestOK, EntryOK, BenchNext
  PROVE  PlaceType'
<1>0. PlaceType /\ conf.starts \in Nat
  BY TypeFacts DEF BenchTypeOK, PlaceType
<1>s. start < conf.starts => start + 1 \in 1 .. conf.starts
  <2>1. start \in Nat /\ conf.starts \in Nat
    BY TypeFacts
  <2> QED BY <2>1
<1>p. 1 \in 1 .. 3 /\ 3 \in 1 .. 3 /\ (phase <= 2 => phase + 1 \in 1 .. 3)
  <2>1. phase \in 1 .. 3
    BY <1>0 DEF PlaceType
  <2> QED BY <2>1
<1>q. conf.starts >= 1 /\ 1 \in 1 .. conf.starts
  <2>1. conf.starts \in Nat \ {0}
    BY TypeFacts
  <2> QED BY <2>1
<1> USE DEF PlaceType, control, process, Forked
<1>1. CASE run_tests
  BY <1>0, <1>1 DEF run_tests, Return
<1>2. CASE TestsDone
  BY <1>0, <1>2 DEF TestsDone, Return
<1>3. CASE UnknownTest
  BY <1>0, DiesFacts, <1>3 DEF UnknownTest, Dies
<1>4. CASE prepare_logging
  BY <1>0, <1>4 DEF prepare_logging
<1>5. CASE arena_test
  BY <1>0, DiesFacts, <1>5 DEF arena_test, Dies
<1>6. CASE malloc_test
  BY <1>0, <1>6 DEF malloc_test
<1>7. CASE LoopsDone
  BY <1>0, <1>7 DEF LoopsDone
<1>8. CASE tight_loop_test
  BY <1>0, <1>p, <1>q, DiesFacts, <1>8 DEF tight_loop_test, Dies
<1>9. CASE Fork
  BY <1>0, <1>p, <1>q, <1>9 DEF Fork
<1>10. CASE LoopEnds
  BY <1>0, <1>10 DEF LoopEnds
<1>11. CASE ChildStarts
  BY <1>0, <1>11 DEF ChildStarts
<1>12. CASE each_size_by_itself
  BY <1>0, DiesFacts, <1>12 DEF each_size_by_itself, Measure, Dies
<1>13. CASE EachEnds
  BY <1>0, <1>13 DEF EachEnds
<1>14. CASE all_sizes_repeatedly
  BY <1>0, DiesFacts, <1>14 DEF all_sizes_repeatedly, Measure, Dies
<1>15. CASE OpenEntry
  BY <1>0, <1>15 DEF OpenEntry, WriteFails, Written
<1>16. CASE OpenFails
  BY <1>0, DiesFacts, <1>16 DEF OpenFails, Dies
<1>17. CASE WriteBody
  BY <1>0, <1>17 DEF WriteBody, WriteFails, Written
<1>18. CASE CloseLog
  BY <1>0, <1>p, <1>q, DiesFacts, <1>18 DEF CloseLog, ChildExits, Dies
<1>19. CASE sdhs_test
  BY <1>0, <1>19 DEF sdhs_test
<1>20. CASE ForkSdhsFails
  BY <1>0, <1>20 DEF ForkSdhsFails
<1>21. CASE SdhsStarts
  BY <1>0, <1>21 DEF SdhsStarts, ChildExits, Return
<1>22. CASE SdhsThread
  <2>1. UNCHANGED <<control, pc, process, drained>>
    BY <1>22 DEF SdhsThread
  <2> QED BY <1>0, <2>1
<1>23. CASE SdhsWaits
  BY <1>0, <1>23 DEF SdhsWaits
<1>24. CASE SdhsEnds
  BY <1>0, <1>24 DEF SdhsEnds
<1>25. CASE Restart
  BY <1>0, <1>p, <1>q, <1>s, <1>25 DEF Restart
<1>26. CASE Terminated
  BY <1>0, <1>26 DEF Terminated, benchVars
<1> QED BY <1>1, <1>2, <1>3, <1>4, <1>5, <1>6, <1>7, <1>8, <1>9, <1>10, <1>11, <1>12, <1>13, <1>14, <1>15, <1>16, <1>17, <1>18, <1>19, <1>20, <1>21, <1>22, <1>23, <1>24, <1>25, <1>26 DEF BenchNext

ListType ==
  suite \in Seq(STRING) /\ loops \in Seq(Loops) /\ left \in Seq(Nat \ {0})

LEMMA ListsKept ==
  ASSUME BenchTypeOK, TestOK, EntryOK, BenchNext
  PROVE  ListType'
<1>0. suite \in Seq(STRING) /\ conf.suite \in Seq(STRING) /\ loops \in Seq(Loops) /\ left \in Seq(Nat \ {0})
  BY TypeFacts
<1>a. /\ pc \in {"logged", "loop", "sdhs", "sdhs end"} => suite # <<>>
      /\ InWrite /\ Written => left' = left \/ (left # <<>> /\ left' = Tail(left))
      /\ Head(suite) = "sdhs" /\ Forked /\ pc \in {"each", "all", "write", "close", "loop"} => suite # <<>>
  <2>1. InWrite /\ Written => left' = left \/ (left # <<>> /\ left' = Tail(left))
    BY WrittenFacts
  <2> QED BY <2>1 DEF TestOK, InSdhs, InLoop, InWrite
<1>b. pc \in {"child", "each"} => SizesOf[Loop.class] \in Seq(Nat \ {0})
  BY LoopFacts DEF InLoop
<1>c. /\ suite # <<>> => Tail(suite) \in Seq(STRING)
      /\ loops # <<>> => Tail(loops) \in Seq(Loops)
      /\ left # <<>> => Tail(left) \in Seq(Nat \ {0})
  BY <1>0, HeadTailProperties
<1>d. /\ Product(ArenaFns) \in Seq(Loops) /\ Product(MallocFns) \in Seq(Loops)
      /\ <<>> \in Seq(STRING) /\ <<>> \in Seq(Loops) /\ <<>> \in Seq(Nat \ {0})
  <2>1. Product(ArenaFns) \in Seq(Loops) /\ Product(MallocFns) \in Seq(Loops)
    BY LoopTypes
  <2>2. \A S : <<>> \in Seq(S)
    OBVIOUS
  <2> QED BY <2>1, <2>2
<1>e. pc = "forked" => loops # <<>>
  BY DEF TestOK, InLoop
<1> USE DEF ListType, control, process
<1>1. CASE run_tests
  BY <1>0, <1>a, <1>c, <1>1 DEF run_tests, Return
<1>2. CASE TestsDone
  BY <1>0, <1>a, <1>c, <1>2 DEF TestsDone, Return
<1>3. CASE UnknownTest
  BY <1>0, <1>a, <1>c, DiesFacts, <1>3 DEF UnknownTest, Dies
<1>4. CASE prepare_logging
  BY <1>0, <1>a, <1>c, <1>4 DEF prepare_logging
<1>5. CASE arena_test
  BY <1>0, <1>a, <1>c, DiesFacts, <1>d, <1>5 DEF arena_test, Dies
<1>6. CASE malloc_test
  BY <1>0, <1>a, <1>c, <1>d, <1>6 DEF malloc_test
<1>7. CASE LoopsDone
  BY <1>0, <1>a, <1>c, <1>7 DEF LoopsDone
<1>8. CASE tight_loop_test
  BY <1>0, <1>a, <1>c, DiesFacts, <1>8 DEF tight_loop_test, Dies
<1>9. CASE Fork
  BY <1>0, <1>a, <1>c, <1>9 DEF Fork
<1>10. CASE LoopEnds
  BY <1>0, <1>a, <1>c, <1>e, <1>10 DEF LoopEnds
<1>11. CASE ChildStarts
  BY <1>0, <1>a, <1>c, <1>b, <1>11 DEF ChildStarts
<1>12. CASE each_size_by_itself
  BY <1>0, <1>a, <1>c, DiesFacts, <1>12 DEF each_size_by_itself, Measure, Dies
<1>13. CASE EachEnds
  BY <1>0, <1>a, <1>c, <1>13 DEF EachEnds
<1>14. CASE all_sizes_repeatedly
  BY <1>0, <1>a, <1>c, DiesFacts, <1>14 DEF all_sizes_repeatedly, Measure, Dies
<1>15. CASE OpenEntry
  BY <1>0, <1>a, <1>c, WritingFacts, <1>15 DEF OpenEntry, WriteFails, Written
<1>16. CASE OpenFails
  BY <1>0, <1>a, <1>c, DiesFacts, <1>16 DEF OpenFails, Dies
<1>17. CASE WriteBody
  BY <1>0, <1>a, <1>c, WritingFacts, <1>17 DEF WriteBody, WriteFails, Written
<1>18. CASE CloseLog
  BY <1>0, <1>a, <1>c, DiesFacts, <1>18 DEF CloseLog, ChildExits, Dies
<1>19. CASE sdhs_test
  BY <1>0, <1>a, <1>c, <1>19 DEF sdhs_test
<1>20. CASE ForkSdhsFails
  BY <1>0, <1>a, <1>c, <1>20 DEF ForkSdhsFails
<1>21. CASE SdhsStarts
  BY <1>0, <1>a, <1>c, <1>21 DEF SdhsStarts, ChildExits, Return
<1>22. CASE SdhsThread
  BY <1>0, <1>a, <1>c, <1>22 DEF SdhsThread
<1>23. CASE SdhsWaits
  BY <1>0, <1>a, <1>c, <1>23 DEF SdhsWaits
<1>24. CASE SdhsEnds
  BY <1>0, <1>a, <1>c, <1>24 DEF SdhsEnds
<1>25. CASE Restart
  BY <1>0, <1>a, <1>c, <1>d, <1>25 DEF Restart
<1>26. CASE Terminated
  BY <1>0, <1>a, <1>c, <1>26 DEF Terminated, benchVars
<1> QED BY <1>1, <1>2, <1>3, <1>4, <1>5, <1>6, <1>7, <1>8, <1>9, <1>10, <1>11, <1>12, <1>13, <1>14, <1>15, <1>16, <1>17, <1>18, <1>19, <1>20, <1>21, <1>22, <1>23, <1>24, <1>25, <1>26 DEF BenchNext

CountType ==
  /\ main_ua \in Nat /\ uas \in Nat /\ prepared \in Nat /\ run_nr \in Nat /\ faults \in 0 .. MaxFaults
  /\ parent \in [coll : Statics, main_ua : Nat] /\ entry \in Dirs \cup {Dir("", 0, "")}

LEMMA CountsKept ==
  ASSUME BenchTypeOK, TestOK, EntryOK, FilesOK, BenchNext
  PROVE  CountType'
<1>0. /\ CountType /\ MaxFaults \in Nat /\ FreshMem \in Statics
      /\ parent.coll \in Statics /\ parent.main_ua \in Nat /\ coll \in Statics
  BY BenchAssumption, NoThreadFacts DEF BenchTypeOK, CountType
<1>a. [coll |-> FreshMem, main_ua |-> 0] \in [coll : Statics, main_ua : Nat]
  BY <1>0
<1>b. main_ua + 1 \in Nat /\ main_ua + 2 \in Nat /\ main_ua + 3 \in Nat
  <2>1. main_ua \in Nat
    BY <1>0 DEF CountType
  <2> QED BY <2>1
<1>c. 0 \in 0 .. MaxFaults /\ 0 \in Nat /\ (faults < MaxFaults => faults + 1 \in 0 .. MaxFaults)
  <2>1. faults \in 0 .. MaxFaults /\ MaxFaults \in Nat
    BY <1>0 DEF CountType
  <2> QED BY <2>1
<1>d. [coll |-> coll, main_ua |-> main_ua] \in [coll : Statics, main_ua : Nat]
  BY <1>0 DEF CountType
<1>e. pc \in {"each", "all"} => InLoop
  BY DEF InLoop
<1>f. Measuring /\ ~Dies => entry' \in Dirs
  BY MeasuringFacts
<1>g. prepare_logging => run_nr' \in Nat
  <2>1. SUFFICES ASSUME prepare_logging PROVE run_nr' \in Nat
    OBVIOUS
  <2>2. Head(suite) \in {"arena", "malloc", "sdhs"} /\ run_nr' = get_next_run_nr(LogDir(Head(suite)))
    BY <2>1 DEF prepare_logging
  <2>3. LogDir(Head(suite)) \in Dirs
    BY <2>2, DirFacts
  <2>4. disk[LogDir(Head(suite))] \in SUBSET Result /\ IsFiniteSet(disk[LogDir(Head(suite))])
    BY <2>3 DEF FilesOK, DiskOK
  <2> QED BY <2>2, <2>4, NextFacts, RunNrFacts
<1>h. Sdhs \in Dirs
  BY DirFacts
<1> USE DEF CountType, control, process, Fault, NoFault
<1>1. CASE run_tests
  BY <1>0, <1>a, <1>b, <1>c, <1>d, <1>1 DEF run_tests, Return
<1>2. CASE TestsDone
  BY <1>0, <1>a, <1>b, <1>c, <1>d, <1>2 DEF TestsDone, Return
<1>3. CASE UnknownTest
  BY <1>0, <1>a, <1>b, <1>c, <1>d, DiesFacts, <1>3 DEF UnknownTest, Dies
<1>4. CASE prepare_logging
  BY <1>0, <1>a, <1>b, <1>c, <1>d, <1>g, <1>4 DEF prepare_logging
<1>5. CASE arena_test
  BY <1>0, <1>a, <1>b, <1>c, <1>d, DiesFacts, <1>5 DEF arena_test, Dies
<1>6. CASE malloc_test
  BY <1>0, <1>a, <1>b, <1>c, <1>d, <1>6 DEF malloc_test
<1>7. CASE LoopsDone
  BY <1>0, <1>a, <1>b, <1>c, <1>d, <1>7 DEF LoopsDone
<1>8. CASE tight_loop_test
  BY <1>0, <1>a, <1>b, <1>c, <1>d, DiesFacts, <1>8 DEF tight_loop_test, Dies
<1>9. CASE Fork
  BY <1>0, <1>a, <1>b, <1>c, <1>d, <1>9 DEF Fork
<1>10. CASE LoopEnds
  BY <1>0, <1>a, <1>b, <1>c, <1>d, <1>10 DEF LoopEnds
<1>11. CASE ChildStarts
  BY <1>0, <1>a, <1>b, <1>c, <1>d, <1>11 DEF ChildStarts
<1>12. CASE each_size_by_itself
  BY <1>0, <1>a, <1>b, <1>c, <1>d, DiesFacts, <1>f, <1>12 DEF each_size_by_itself, Measure, Dies, Measuring
<1>13. CASE EachEnds
  BY <1>0, <1>a, <1>b, <1>c, <1>d, <1>13 DEF EachEnds
<1>14. CASE all_sizes_repeatedly
  BY <1>0, <1>a, <1>b, <1>c, <1>d, DiesFacts, <1>f, <1>14 DEF all_sizes_repeatedly, Measure, Dies, Measuring
<1>15. CASE OpenEntry
  BY <1>0, <1>a, <1>b, <1>c, <1>d, <1>15 DEF OpenEntry, WriteFails, Written
<1>16. CASE OpenFails
  BY <1>0, <1>a, <1>b, <1>c, <1>d, DiesFacts, <1>16 DEF OpenFails, Dies
<1>17. CASE WriteBody
  BY <1>0, <1>a, <1>b, <1>c, <1>d, <1>17 DEF WriteBody, WriteFails, Written
<1>18. CASE CloseLog
  BY <1>0, <1>a, <1>b, <1>c, <1>d, DiesFacts, <1>18 DEF CloseLog, ChildExits, Dies
<1>19. CASE sdhs_test
  BY <1>0, <1>a, <1>b, <1>c, <1>d, <1>19 DEF sdhs_test
<1>20. CASE ForkSdhsFails
  BY <1>0, <1>a, <1>b, <1>c, <1>d, <1>20 DEF ForkSdhsFails
<1>21. CASE SdhsStarts
  BY <1>0, <1>a, <1>b, <1>c, <1>d, <1>21 DEF SdhsStarts, ChildExits, Return
<1>22. CASE SdhsThread
  BY <1>0, <1>a, <1>b, <1>c, <1>d, <1>22 DEF SdhsThread
<1>23. CASE SdhsWaits
  BY <1>0, <1>a, <1>b, <1>c, <1>d, <1>h, <1>23 DEF SdhsWaits
<1>24. CASE SdhsEnds
  BY <1>0, <1>a, <1>b, <1>c, <1>d, <1>24 DEF SdhsEnds
<1>25. CASE Restart
  BY <1>0, <1>a, <1>b, <1>c, <1>d, <1>25 DEF Restart
<1>26. CASE Terminated
  BY <1>0, <1>a, <1>b, <1>c, <1>d, <1>26 DEF Terminated, benchVars
<1> QED BY <1>1, <1>2, <1>3, <1>4, <1>5, <1>6, <1>7, <1>8, <1>9, <1>10, <1>11, <1>12, <1>13, <1>14, <1>15, <1>16, <1>17, <1>18, <1>19, <1>20, <1>21, <1>22, <1>23, <1>24, <1>25, <1>26 DEF BenchNext

LEMMA TypeKept ==
  ASSUME BenchTypeOK, TestOK, EntryOK, FilesOK, BenchNext, RunOK', FilesOK'
  PROVE  BenchTypeOK'
<1>1. PlaceType' /\ ListType' /\ CountType'
  BY PlaceKept, ListsKept, CountsKept
<1>2. coll' \in Statics /\ thread' \in [Threads -> Thread] /\ DiskOK'
  BY DEF RunOK, FilesOK
<1> QED BY <1>1, <1>2 DEF PlaceType, ListType, CountType, DiskOK, BenchTypeOK, Loops

(* What a step that goes on and meets no failing call does.                *)
Well == faults' = 0 /\ ~Dead /\ pc' \notin {"conf", "over"}

LEMMA OpenFacts ==
  ASSUME BenchTypeOK, TestOK, EntryOK, Well
  PROVE  /\ faults + 1 # 0
         /\ OpenEntry => pc = "write" /\ pc' = "body" /\ left' = left /\ faults' = faults
         /\ WriteBody => Written /\ faults' = faults
<1>1. faults \in 0 .. MaxFaults
  BY DEF BenchTypeOK
<1>2. faults + 1 # 0
  BY <1>1
<1> QED BY <1>2 DEF Well, OpenEntry, WriteBody, WriteFails, Fault, NoFault

LEMMA GoesOn ==
  ASSUME BenchTypeOK, TestOK, EntryOK, BenchNext, Well
  PROVE  start' = start /\ conf' = conf /\ faults = 0 /\ pc # "over"
<1>0. faults + 1 # 0 /\ faults' = 0 /\ ~Dead /\ pc' \notin {"conf", "over"}
  BY OpenFacts DEF Well
<1> USE DEF control, process, Fault, NoFault, Dead
<1>1. CASE run_tests
  BY <1>0, <1>1 DEF run_tests, Return
<1>2. CASE TestsDone
  BY <1>0, <1>2 DEF TestsDone, Return
<1>3. CASE UnknownTest
  BY <1>0, <1>3 DEF UnknownTest, Dies
<1>4. CASE prepare_logging
  BY <1>0, <1>4 DEF prepare_logging
<1>5. CASE arena_test
  BY <1>0, <1>5 DEF arena_test, Dies
<1>6. CASE malloc_test
  BY <1>0, <1>6 DEF malloc_test
<1>7. CASE LoopsDone
  BY <1>0, <1>7 DEF LoopsDone
<1>8. CASE tight_loop_test
  BY <1>0, <1>8 DEF tight_loop_test, Dies
<1>9. CASE Fork
  BY <1>0, <1>9 DEF Fork
<1>10. CASE LoopEnds
  BY <1>0, <1>10 DEF LoopEnds
<1>11. CASE ChildStarts
  BY <1>0, <1>11 DEF ChildStarts
<1>12. CASE each_size_by_itself
  BY <1>0, MeasureFacts, <1>12 DEF each_size_by_itself, Measure, Dies
<1>13. CASE EachEnds
  BY <1>0, <1>13 DEF EachEnds
<1>14. CASE all_sizes_repeatedly
  BY <1>0, MeasureFacts, <1>14 DEF all_sizes_repeatedly, Measure, Dies
<1>15. CASE OpenEntry
  BY <1>0, <1>15 DEF OpenEntry, WriteFails, Written
<1>16. CASE OpenFails
  BY <1>0, <1>16 DEF OpenFails, Dies
<1>17. CASE WriteBody
  BY <1>0, <1>17 DEF WriteBody, WriteFails, Written
<1>18. CASE CloseLog
  BY <1>0, CloseFacts, <1>18 DEF CloseLog, ChildExits, Dies
<1>19. CASE sdhs_test
  BY <1>0, <1>19 DEF sdhs_test
<1>20. CASE ForkSdhsFails
  BY <1>0, <1>20 DEF ForkSdhsFails
<1>21. CASE SdhsStarts
  BY <1>0, SdhsStartFacts, <1>21 DEF SdhsStarts, ChildExits, Return
<1>22. CASE SdhsThread
  BY <1>0, <1>22 DEF SdhsThread
<1>23. CASE SdhsWaits
  BY <1>0, <1>23 DEF SdhsWaits
<1>24. CASE SdhsEnds
  BY <1>0, <1>24 DEF SdhsEnds
<1>25. CASE Restart
  BY <1>0, <1>25 DEF Restart
<1>26. CASE Terminated
  BY <1>0, <1>26 DEF Terminated, benchVars
<1> QED BY <1>1, <1>2, <1>3, <1>4, <1>5, <1>6, <1>7, <1>8, <1>9, <1>10, <1>11, <1>12, <1>13, <1>14, <1>15, <1>16, <1>17, <1>18, <1>19, <1>20, <1>21, <1>22, <1>23, <1>24, <1>25, <1>26 DEF BenchNext

LEMMA SuiteStep ==
  ASSUME BenchTypeOK, TestOK, EntryOK, BenchNext, Well
  PROVE  \/ pc = "conf" /\ suite' = conf.suite
         \/ pc # "conf" /\ suite' = suite
         \/ pc = "sdhs end" /\ suite' = Tail(suite)
         \/ pc = "loop" /\ loops = <<>> /\ suite' = Tail(suite)
<1>0. faults + 1 # 0 /\ faults' = 0 /\ ~Dead /\ pc' \notin {"conf", "over"}
  BY OpenFacts DEF Well
<1> USE DEF control, process, Fault, NoFault, Dead
<1>1. CASE run_tests
  BY <1>0, <1>1 DEF run_tests, Return
<1>2. CASE TestsDone
  BY <1>0, <1>2 DEF TestsDone, Return
<1>3. CASE UnknownTest
  BY <1>0, <1>3 DEF UnknownTest, Dies
<1>4. CASE prepare_logging
  BY <1>0, <1>4 DEF prepare_logging
<1>5. CASE arena_test
  BY <1>0, <1>5 DEF arena_test, Dies
<1>6. CASE malloc_test
  BY <1>0, <1>6 DEF malloc_test
<1>7. CASE LoopsDone
  BY <1>0, <1>7 DEF LoopsDone
<1>8. CASE tight_loop_test
  BY <1>0, <1>8 DEF tight_loop_test, Dies
<1>9. CASE Fork
  BY <1>0, <1>9 DEF Fork
<1>10. CASE LoopEnds
  BY <1>0, <1>10 DEF LoopEnds
<1>11. CASE ChildStarts
  BY <1>0, <1>11 DEF ChildStarts
<1>12. CASE each_size_by_itself
  BY <1>0, MeasureFacts, <1>12 DEF each_size_by_itself, Measure, Dies
<1>13. CASE EachEnds
  BY <1>0, <1>13 DEF EachEnds
<1>14. CASE all_sizes_repeatedly
  BY <1>0, MeasureFacts, <1>14 DEF all_sizes_repeatedly, Measure, Dies
<1>15. CASE OpenEntry
  BY <1>0, <1>15 DEF OpenEntry, WriteFails, Written
<1>16. CASE OpenFails
  BY <1>0, <1>16 DEF OpenFails, Dies
<1>17. CASE WriteBody
  BY <1>0, <1>17 DEF WriteBody, WriteFails, Written
<1>18. CASE CloseLog
  BY <1>0, CloseFacts, <1>18 DEF CloseLog, ChildExits, Dies
<1>19. CASE sdhs_test
  BY <1>0, <1>19 DEF sdhs_test
<1>20. CASE ForkSdhsFails
  BY <1>0, <1>20 DEF ForkSdhsFails
<1>21. CASE SdhsStarts
  BY <1>0, SdhsStartFacts, <1>21 DEF SdhsStarts, ChildExits, Return
<1>22. CASE SdhsThread
  BY <1>0, <1>22 DEF SdhsThread
<1>23. CASE SdhsWaits
  BY <1>0, <1>23 DEF SdhsWaits
<1>24. CASE SdhsEnds
  BY <1>0, <1>24 DEF SdhsEnds
<1>25. CASE Restart
  BY <1>0, <1>25 DEF Restart
<1>26. CASE Terminated
  BY <1>0, <1>26 DEF Terminated, benchVars
<1> QED BY <1>1, <1>2, <1>3, <1>4, <1>5, <1>6, <1>7, <1>8, <1>9, <1>10, <1>11, <1>12, <1>13, <1>14, <1>15, <1>16, <1>17, <1>18, <1>19, <1>20, <1>21, <1>22, <1>23, <1>24, <1>25, <1>26 DEF BenchNext

LEMMA LoopStep ==
  ASSUME BenchTypeOK, TestOK, EntryOK, BenchNext, Well, pc' = "loop" \/ InLoop'
  PROVE  /\ suite' = suite
         /\ \/ (pc = "loop" \/ InLoop) /\ loops' = loops
            \/ loops' = Product(TestFns)
            \/ pc = "forked" /\ phase = 3 /\ loops' = Tail(loops)
<1>0. faults + 1 # 0 /\ faults' = 0 /\ ~Dead /\ pc' \notin {"conf", "over"}
  BY OpenFacts DEF Well
<1>a. InWrite => Sdhs.size = 0 /\ Sdhs.fn = "sdhs" /\ (entry # Sdhs => entry.fn # "sdhs")
  BY EntryFacts
<1>b. /\ OpenEntry => pc = "write" /\ pc' = "body" /\ left' = left /\ faults' = faults
      /\ WriteBody => Written /\ faults' = faults
  BY OpenFacts
<1>c. pc \in {"logged"} /\ Head(suite) = "malloc" => TestFns = MallocFns
  BY DEF TestFns
<1>d. pc \in {"logged"} /\ Head(suite) = "arena" => TestFns = ArenaFns
  BY DEF TestFns
<1> USE DEF control, process, Fault, NoFault, InLoop, InWrite, Dead
<1>1. CASE run_tests
  BY <1>0, <1>a, <1>1 DEF run_tests, Return
<1>2. CASE TestsDone
  BY <1>0, <1>a, <1>2 DEF TestsDone, Return
<1>3. CASE UnknownTest
  BY <1>0, <1>a, <1>3 DEF UnknownTest, Dies
<1>4. CASE prepare_logging
  BY <1>0, <1>a, <1>4 DEF prepare_logging
<1>5. CASE arena_test
  BY <1>0, <1>a, <1>d, <1>5 DEF arena_test, Dies
<1>6. CASE malloc_test
  BY <1>0, <1>a, <1>c, <1>6 DEF malloc_test
<1>7. CASE LoopsDone
  BY <1>0, <1>a, <1>7 DEF LoopsDone
<1>8. CASE tight_loop_test
  BY <1>0, <1>a, <1>8 DEF tight_loop_test, Dies
<1>9. CASE Fork
  BY <1>0, <1>a, <1>9 DEF Fork
<1>10. CASE LoopEnds
  BY <1>0, <1>a, <1>10 DEF LoopEnds
<1>11. CASE ChildStarts
  BY <1>0, <1>a, <1>11 DEF ChildStarts
<1>12. CASE each_size_by_itself
  BY <1>0, <1>a, MeasureFacts, <1>12 DEF each_size_by_itself, Measure, Dies
<1>13. CASE EachEnds
  BY <1>0, <1>a, <1>13 DEF EachEnds
<1>14. CASE all_sizes_repeatedly
  BY <1>0, <1>a, MeasureFacts, <1>14 DEF all_sizes_repeatedly, Measure, Dies
<1>15. CASE OpenEntry
  BY <1>0, <1>a, WritingFacts, <1>b, <1>15 DEF OpenEntry, WriteFails, Written
<1>16. CASE OpenFails
  BY <1>0, <1>a, <1>16 DEF OpenFails, Dies
<1>17. CASE WriteBody
  BY <1>0, <1>a, WritingFacts, <1>b, <1>17 DEF WriteBody, WriteFails, Written
<1>18. CASE CloseLog
  BY <1>0, <1>a, CloseFacts, <1>18 DEF CloseLog, ChildExits, Dies
<1>19. CASE sdhs_test
  BY <1>0, <1>a, <1>19 DEF sdhs_test
<1>20. CASE ForkSdhsFails
  BY <1>0, <1>a, <1>20 DEF ForkSdhsFails
<1>21. CASE SdhsStarts
  BY <1>0, <1>a, SdhsStartFacts, <1>21 DEF SdhsStarts, ChildExits, Return
<1>22. CASE SdhsThread
  BY <1>0, <1>a, <1>22 DEF SdhsThread
<1>23. CASE SdhsWaits
  BY <1>0, <1>a, <1>23 DEF SdhsWaits
<1>24. CASE SdhsEnds
  BY <1>0, <1>a, <1>24 DEF SdhsEnds
<1>25. CASE Restart
  BY <1>0, <1>a, <1>25 DEF Restart
<1>26. CASE Terminated
  BY <1>0, <1>a, <1>26 DEF Terminated, benchVars
<1> QED BY <1>1, <1>2, <1>3, <1>4, <1>5, <1>6, <1>7, <1>8, <1>9, <1>10, <1>11, <1>12, <1>13, <1>14, <1>15, <1>16, <1>17, <1>18, <1>19, <1>20, <1>21, <1>22, <1>23, <1>24, <1>25, <1>26 DEF BenchNext

LEMMA SizeStep ==
  ASSUME BenchTypeOK, TestOK, PhaseOK, EntryOK, BenchNext, Well, Sizing'
  PROVE  /\ InLoop /\ loops' = loops
         /\ \/ Sizing /\ left' = left
            \/ left' = SizesOf[Loop.class]
            \/ /\ WriteBody /\ Sizing /\ left # <<>> /\ left' = Tail(left)
               /\ entry = Dir(Loop.fn, Head(left), "")
<1>0. faults + 1 # 0 /\ faults' = 0 /\ ~Dead /\ pc' \notin {"conf", "over"}
  BY OpenFacts DEF Well
<1>a. InWrite => Sdhs.size = 0 /\ Sdhs.fn = "sdhs" /\ (entry # Sdhs => entry.fn # "sdhs")
  BY EntryFacts
<1>b. /\ OpenEntry => pc = "write" /\ pc' = "body" /\ left' = left /\ faults' = faults
      /\ WriteBody => Written /\ faults' = faults
  BY OpenFacts
<1>c. pc \in {"forked", "child", "each", "all", "close"} => InLoop
  BY DEF InLoop
<1>d. InWrite /\ entry # Sdhs => InLoop
  BY DEF InLoop
<1>e. /\ Measuring => entry' # Sdhs /\ (pc = "each" => entry'.size # 0) /\ (pc = "all" => entry'.size = 0)
      /\ SdhsWaits => Sdhs.size = 0
  BY MeasureFacts, MeasuringFacts DEF Well, Sdhs, Dead, Measuring
<1>h. WriteBody => \/ /\ entry # Sdhs /\ entry.size # 0 /\ pc' = "each" /\ left' = Tail(left) /\ left # <<>>
                     /\ entry = Dir(Loop.fn, Head(left), "") /\ InLoop /\ InWrite
                   \/ pc' \in {"close", "sdhs end"}
  BY <1>b, WritingFacts, WrittenFacts
<1> USE DEF control, process, Fault, NoFault, Sizing, InWrite, Dead
<1>1. CASE run_tests
  BY <1>0, <1>a, <1>c, <1>d, <1>1 DEF run_tests, Return
<1>2. CASE TestsDone
  BY <1>0, <1>a, <1>c, <1>d, <1>2 DEF TestsDone, Return
<1>3. CASE UnknownTest
  BY <1>0, <1>a, <1>c, <1>d, <1>3 DEF UnknownTest, Dies
<1>4. CASE prepare_logging
  BY <1>0, <1>a, <1>c, <1>d, <1>4 DEF prepare_logging
<1>5. CASE arena_test
  BY <1>0, <1>a, <1>c, <1>d, <1>5 DEF arena_test, Dies
<1>6. CASE malloc_test
  BY <1>0, <1>a, <1>c, <1>d, <1>6 DEF malloc_test
<1>7. CASE LoopsDone
  BY <1>0, <1>a, <1>c, <1>d, <1>7 DEF LoopsDone
<1>8. CASE tight_loop_test
  BY <1>0, <1>a, <1>c, <1>d, <1>8 DEF tight_loop_test, Dies
<1>9. CASE Fork
  BY <1>0, <1>a, <1>c, <1>d, <1>9 DEF Fork
<1>10. CASE LoopEnds
  BY <1>0, <1>a, <1>c, <1>d, <1>10 DEF LoopEnds
<1>11. CASE ChildStarts
  BY <1>0, <1>a, <1>c, <1>d, <1>11 DEF ChildStarts
<1>12. CASE each_size_by_itself
  BY <1>0, <1>a, <1>c, <1>d, MeasureFacts, <1>e, <1>12 DEF each_size_by_itself, Measure, Dies, Measuring
<1>13. CASE EachEnds
  BY <1>0, <1>a, <1>c, <1>d, <1>13 DEF EachEnds
<1>14. CASE all_sizes_repeatedly
  BY <1>0, <1>a, <1>c, <1>d, MeasureFacts, <1>e, <1>14 DEF all_sizes_repeatedly, Measure, Dies, Measuring
<1>15. CASE OpenEntry
  BY <1>0, <1>a, <1>c, <1>d, WritingFacts, <1>b, <1>15 DEF OpenEntry, WriteFails, Written
<1>16. CASE OpenFails
  BY <1>0, <1>a, <1>c, <1>d, <1>16 DEF OpenFails, Dies
<1>17. CASE WriteBody
  BY <1>0, <1>a, <1>c, <1>d, WritingFacts, <1>h, <1>17 DEF WriteBody, WriteFails, Written
<1>18. CASE CloseLog
  BY <1>0, <1>a, <1>c, <1>d, CloseFacts, <1>18 DEF CloseLog, ChildExits, Dies
<1>19. CASE sdhs_test
  BY <1>0, <1>a, <1>c, <1>d, <1>19 DEF sdhs_test
<1>20. CASE ForkSdhsFails
  BY <1>0, <1>a, <1>c, <1>d, <1>20 DEF ForkSdhsFails
<1>21. CASE SdhsStarts
  BY <1>0, <1>a, <1>c, <1>d, SdhsStartFacts, <1>21 DEF SdhsStarts, ChildExits, Return
<1>22. CASE SdhsThread
  BY <1>0, <1>a, <1>c, <1>d, <1>22 DEF SdhsThread
<1>23. CASE SdhsWaits
  BY <1>0, <1>a, <1>c, <1>d, <1>e, <1>23 DEF SdhsWaits
<1>24. CASE SdhsEnds
  BY <1>0, <1>a, <1>c, <1>d, <1>24 DEF SdhsEnds
<1>25. CASE Restart
  BY <1>0, <1>a, <1>c, <1>d, <1>25 DEF Restart
<1>26. CASE Terminated
  BY <1>0, <1>a, <1>c, <1>d, <1>26 DEF Terminated, benchVars
<1> QED BY <1>1, <1>2, <1>3, <1>4, <1>5, <1>6, <1>7, <1>8, <1>9, <1>10, <1>11, <1>12, <1>13, <1>14, <1>15, <1>16, <1>17, <1>18, <1>19, <1>20, <1>21, <1>22, <1>23, <1>24, <1>25, <1>26 DEF BenchNext

LEMMA EachStep ==
  ASSUME BenchTypeOK, TestOK, PhaseOK, EntryOK, BenchNext, Well, EachOver'
  PROVE  /\ InLoop /\ loops' = loops
         /\ EachOver \/ (Sizing /\ left = <<>>)
<1>0. faults + 1 # 0 /\ faults' = 0 /\ ~Dead /\ pc' \notin {"conf", "over"}
  BY OpenFacts DEF Well
<1>a. InWrite => Sdhs.size = 0 /\ Sdhs.fn = "sdhs" /\ (entry # Sdhs => entry.fn # "sdhs")
  BY EntryFacts
<1>b. /\ OpenEntry => pc = "write" /\ pc' = "body" /\ left' = left /\ faults' = faults
      /\ WriteBody => Written /\ faults' = faults
  BY OpenFacts
<1>c. pc \in {"forked", "child", "each", "all", "close"} => InLoop
  BY DEF InLoop
<1>d. InWrite /\ entry # Sdhs => InLoop
  BY DEF InLoop
<1>e. /\ Measuring => entry' # Sdhs /\ (pc = "each" => entry'.size # 0) /\ (pc = "all" => entry'.size = 0)
      /\ SdhsWaits => Sdhs.size = 0
  BY MeasureFacts, MeasuringFacts DEF Well, Sdhs, Dead, Measuring
<1>h. WriteBody => \/ pc' \in {"each", "sdhs end"}
                   \/ entry # Sdhs /\ entry.size = 0 /\ pc' = "close" /\ InLoop /\ InWrite
  BY <1>b, WritingFacts, WrittenFacts
<1>i. phase \in 1 .. 3
  BY DEF BenchTypeOK
<1>j. pc = "forked" => proc = 0
  BY DEF PhaseOK, ChildAt
<1> USE DEF control, process, Fault, NoFault, Sizing, Summing, EachOver, InWrite, Forked, Dead
<1>1. CASE run_tests
  BY <1>0, <1>a, <1>c, <1>d, <1>1 DEF run_tests, Return
<1>2. CASE TestsDone
  BY <1>0, <1>a, <1>c, <1>d, <1>2 DEF TestsDone, Return
<1>3. CASE UnknownTest
  BY <1>0, <1>a, <1>c, <1>d, <1>3 DEF UnknownTest, Dies
<1>4. CASE prepare_logging
  BY <1>0, <1>a, <1>c, <1>d, <1>4 DEF prepare_logging
<1>5. CASE arena_test
  BY <1>0, <1>a, <1>c, <1>d, <1>5 DEF arena_test, Dies
<1>6. CASE malloc_test
  BY <1>0, <1>a, <1>c, <1>d, <1>6 DEF malloc_test
<1>7. CASE LoopsDone
  BY <1>0, <1>a, <1>c, <1>d, <1>7 DEF LoopsDone
<1>8. CASE tight_loop_test
  BY <1>0, <1>a, <1>c, <1>d, <1>i, <1>8 DEF tight_loop_test
<1>9. CASE Fork
  BY <1>0, <1>a, <1>c, <1>d, <1>i, <1>j, <1>9 DEF Fork
<1>10. CASE LoopEnds
  BY <1>0, <1>a, <1>c, <1>d, <1>10 DEF LoopEnds
<1>11. CASE ChildStarts
  BY <1>0, <1>a, <1>c, <1>d, <1>i, <1>11 DEF ChildStarts
<1>12. CASE each_size_by_itself
  BY <1>0, <1>a, <1>c, <1>d, MeasureFacts, <1>e, <1>12 DEF each_size_by_itself, Measure, Dies, Measuring
<1>13. CASE EachEnds
  BY <1>0, <1>a, <1>c, <1>d, <1>13 DEF EachEnds
<1>14. CASE all_sizes_repeatedly
  BY <1>0, <1>a, <1>c, <1>d, MeasureFacts, <1>e, <1>14 DEF all_sizes_repeatedly, Measure, Dies, Measuring
<1>15. CASE OpenEntry
  BY <1>0, <1>a, <1>c, <1>d, WritingFacts, <1>b, <1>15 DEF OpenEntry, WriteFails, Written
<1>16. CASE OpenFails
  BY <1>0, <1>a, <1>c, <1>d, <1>16 DEF OpenFails, Dies
<1>17. CASE WriteBody
  BY <1>0, <1>a, <1>c, <1>d, WritingFacts, <1>h, <1>17 DEF WriteBody, WriteFails, Written
<1>18. CASE CloseLog
  BY <1>0, <1>a, <1>c, <1>d, CloseFacts, <1>18 DEF CloseLog, ChildExits, Dies
<1>19. CASE sdhs_test
  BY <1>0, <1>a, <1>c, <1>d, <1>19 DEF sdhs_test
<1>20. CASE ForkSdhsFails
  BY <1>0, <1>a, <1>c, <1>d, <1>20 DEF ForkSdhsFails
<1>21. CASE SdhsStarts
  BY <1>0, <1>a, <1>c, <1>d, SdhsStartFacts, <1>21 DEF SdhsStarts, ChildExits, Return
<1>22. CASE SdhsThread
  BY <1>0, <1>a, <1>c, <1>d, <1>22 DEF SdhsThread
<1>23. CASE SdhsWaits
  BY <1>0, <1>a, <1>c, <1>d, <1>e, <1>23 DEF SdhsWaits
<1>24. CASE SdhsEnds
  BY <1>0, <1>a, <1>c, <1>d, <1>24 DEF SdhsEnds
<1>25. CASE Restart
  BY <1>0, <1>a, <1>c, <1>d, <1>25 DEF Restart
<1>26. CASE Terminated
  BY <1>0, <1>a, <1>c, <1>d, <1>26 DEF Terminated, benchVars
<1> QED BY <1>1, <1>2, <1>3, <1>4, <1>5, <1>6, <1>7, <1>8, <1>9, <1>10, <1>11, <1>12, <1>13, <1>14, <1>15, <1>16, <1>17, <1>18, <1>19, <1>20, <1>21, <1>22, <1>23, <1>24, <1>25, <1>26 DEF BenchNext

LEMMA AllStep ==
  ASSUME BenchTypeOK, TestOK, PhaseOK, EntryOK, BenchNext, Well, AllOver'
  PROVE  /\ InLoop /\ loops' = loops
         /\ AllOver \/ (WriteBody /\ entry = Dir(Loop.fn, 0, Loop.class))
<1>0. faults + 1 # 0 /\ faults' = 0 /\ ~Dead /\ pc' \notin {"conf", "over"}
  BY OpenFacts DEF Well
<1>a. InWrite => Sdhs.size = 0 /\ Sdhs.fn = "sdhs" /\ (entry # Sdhs => entry.fn # "sdhs")
  BY EntryFacts
<1>b. /\ OpenEntry => pc = "write" /\ pc' = "body" /\ left' = left /\ faults' = faults
      /\ WriteBody => Written /\ faults' = faults
  BY OpenFacts
<1>c. pc \in {"forked", "child", "each", "all", "close"} => InLoop
  BY DEF InLoop
<1>h. WriteBody => \/ pc' \in {"each", "sdhs end"}
                   \/ entry = Dir(Loop.fn, 0, Loop.class) /\ InLoop
  BY <1>b, WritingFacts, WrittenFacts
<1>i. phase \in 1 .. 3
  BY DEF BenchTypeOK
<1>j. pc = "each" /\ proc # 0 => phase = 2
  BY TypeFacts DEF PhaseOK, ChildAt, Sizing
<1> USE DEF control, process, Fault, NoFault, AllOver, Forked, Dead
<1>1. CASE run_tests
  BY <1>0, <1>c, <1>1 DEF run_tests, Return
<1>2. CASE TestsDone
  BY <1>0, <1>c, <1>2 DEF TestsDone, Return
<1>3. CASE UnknownTest
  BY <1>0, <1>c, <1>3 DEF UnknownTest, Dies
<1>4. CASE prepare_logging
  BY <1>0, <1>c, <1>4 DEF prepare_logging
<1>5. CASE arena_test
  BY <1>0, <1>c, <1>5 DEF arena_test, Dies
<1>6. CASE malloc_test
  BY <1>0, <1>c, <1>6 DEF malloc_test
<1>7. CASE LoopsDone
  BY <1>0, <1>c, <1>7 DEF LoopsDone
<1>8. CASE tight_loop_test
  BY <1>0, <1>c, <1>8 DEF tight_loop_test
<1>9. CASE Fork
  BY <1>0, <1>c, <1>i, <1>9 DEF Fork
<1>10. CASE LoopEnds
  BY <1>0, <1>c, <1>10 DEF LoopEnds
<1>11. CASE ChildStarts
  BY <1>0, <1>c, <1>11 DEF ChildStarts
<1>12. CASE each_size_by_itself
  BY <1>0, <1>c, MeasureFacts, <1>12 DEF each_size_by_itself, Measure, Dies
<1>13. CASE EachEnds
  BY <1>0, <1>c, <1>j, <1>13 DEF EachEnds
<1>14. CASE all_sizes_repeatedly
  BY <1>0, <1>c, MeasureFacts, <1>14 DEF all_sizes_repeatedly, Measure, Dies
<1>15. CASE OpenEntry
  BY <1>0, <1>c, WritingFacts, <1>b, <1>15 DEF OpenEntry, WriteFails, Written
<1>16. CASE OpenFails
  BY <1>0, <1>c, <1>16 DEF OpenFails, Dies
<1>17. CASE WriteBody
  BY <1>0, <1>c, WritingFacts, <1>h, <1>17 DEF WriteBody, WriteFails, Written
<1>18. CASE CloseLog
  BY <1>0, <1>c, CloseFacts, <1>18 DEF CloseLog, ChildExits, Dies
<1>19. CASE sdhs_test
  BY <1>0, <1>c, <1>19 DEF sdhs_test
<1>20. CASE ForkSdhsFails
  BY <1>0, <1>c, <1>20 DEF ForkSdhsFails
<1>21. CASE SdhsStarts
  BY <1>0, <1>c, SdhsStartFacts, <1>21 DEF SdhsStarts, ChildExits, Return
<1>22. CASE SdhsThread
  BY <1>0, <1>c, <1>22 DEF SdhsThread
<1>23. CASE SdhsWaits
  BY <1>0, <1>c, <1>23 DEF SdhsWaits
<1>24. CASE SdhsEnds
  BY <1>0, <1>c, <1>24 DEF SdhsEnds
<1>25. CASE Restart
  BY <1>0, <1>c, <1>25 DEF Restart
<1>26. CASE Terminated
  BY <1>0, <1>c, <1>26 DEF Terminated, benchVars
<1> QED BY <1>1, <1>2, <1>3, <1>4, <1>5, <1>6, <1>7, <1>8, <1>9, <1>10, <1>11, <1>12, <1>13, <1>14, <1>15, <1>16, <1>17, <1>18, <1>19, <1>20, <1>21, <1>22, <1>23, <1>24, <1>25, <1>26 DEF BenchNext

LEMMA EndStep ==
  ASSUME BenchTypeOK, TestOK, PhaseOK, EntryOK, BenchNext, Well, pc' = "sdhs end"
  PROVE  pc = "sdhs end" \/ (WriteBody /\ entry = Sdhs)
<1>0. faults + 1 # 0 /\ faults' = 0 /\ ~Dead /\ pc' \notin {"conf", "over"}
  BY OpenFacts DEF Well
<1>a. InWrite => Sdhs.size = 0 /\ Sdhs.fn = "sdhs" /\ (entry # Sdhs => entry.fn # "sdhs")
  BY EntryFacts
<1>b. /\ OpenEntry => pc = "write" /\ pc' = "body" /\ left' = left /\ faults' = faults
      /\ WriteBody => Written /\ faults' = faults
  BY OpenFacts
<1>c. pc \in {"forked", "child", "each", "all", "close"} => InLoop
  BY DEF InLoop
<1>h. WriteBody => entry = Sdhs
  BY <1>b, WritingFacts, WrittenFacts
<1> USE DEF control, process, Fault, NoFault, Dead
<1>1. CASE run_tests
  BY <1>0, <1>1 DEF run_tests, Return
<1>2. CASE TestsDone
  BY <1>0, <1>2 DEF TestsDone, Return
<1>3. CASE UnknownTest
  BY <1>0, <1>3 DEF UnknownTest, Dies
<1>4. CASE prepare_logging
  BY <1>0, <1>4 DEF prepare_logging
<1>5. CASE arena_test
  BY <1>0, <1>5 DEF arena_test, Dies
<1>6. CASE malloc_test
  BY <1>0, <1>6 DEF malloc_test
<1>7. CASE LoopsDone
  BY <1>0, <1>7 DEF LoopsDone
<1>8. CASE tight_loop_test
  BY <1>0, <1>8 DEF tight_loop_test
<1>9. CASE Fork
  BY <1>0, <1>9 DEF Fork
<1>10. CASE LoopEnds
  BY <1>0, <1>10 DEF LoopEnds
<1>11. CASE ChildStarts
  BY <1>0, <1>11 DEF ChildStarts
<1>12. CASE each_size_by_itself
  BY <1>0, MeasureFacts, <1>12 DEF each_size_by_itself, Measure, Dies
<1>13. CASE EachEnds
  BY <1>0, <1>13 DEF EachEnds
<1>14. CASE all_sizes_repeatedly
  BY <1>0, MeasureFacts, <1>14 DEF all_sizes_repeatedly, Measure, Dies
<1>15. CASE OpenEntry
  BY <1>0, WritingFacts, <1>b, <1>15 DEF OpenEntry, WriteFails, Written
<1>16. CASE OpenFails
  BY <1>0, <1>16 DEF OpenFails, Dies
<1>17. CASE WriteBody
  BY <1>0, WritingFacts, <1>h, <1>17 DEF WriteBody, WriteFails, Written
<1>18. CASE CloseLog
  BY <1>0, CloseFacts, <1>18 DEF CloseLog, ChildExits, Dies
<1>19. CASE sdhs_test
  BY <1>0, <1>19 DEF sdhs_test
<1>20. CASE ForkSdhsFails
  BY <1>0, <1>20 DEF ForkSdhsFails
<1>21. CASE SdhsStarts
  BY <1>0, SdhsStartFacts, <1>21 DEF SdhsStarts, ChildExits, Return
<1>22. CASE SdhsThread
  BY <1>0, <1>22 DEF SdhsThread
<1>23. CASE SdhsWaits
  BY <1>0, <1>23 DEF SdhsWaits
<1>24. CASE SdhsEnds
  BY <1>0, <1>24 DEF SdhsEnds
<1>25. CASE Restart
  BY <1>0, <1>25 DEF Restart
<1>26. CASE Terminated
  BY <1>0, <1>26 DEF Terminated, benchVars
<1> QED BY <1>1, <1>2, <1>3, <1>4, <1>5, <1>6, <1>7, <1>8, <1>9, <1>10, <1>11, <1>12, <1>13, <1>14, <1>15, <1>16, <1>17, <1>18, <1>19, <1>20, <1>21, <1>22, <1>23, <1>24, <1>25, <1>26 DEF BenchNext

LEMMA LogStep ==
  ASSUME BenchTypeOK, TestOK, PhaseOK, EntryOK, BenchNext, Well, Equipped
  PROVE  Equipped'
<1>0. faults + 1 # 0 /\ faults' = 0 /\ ~Dead /\ pc' \notin {"conf", "over"}
  BY OpenFacts DEF Well
<1>a. InWrite => Sdhs.size = 0 /\ Sdhs.fn = "sdhs" /\ (entry # Sdhs => entry.fn # "sdhs")
  BY EntryFacts
<1>b. /\ OpenEntry => pc = "write" /\ pc' = "body" /\ left' = left /\ faults' = faults
      /\ WriteBody => Written /\ faults' = faults
  BY OpenFacts
<1>c. pc \in {"forked", "child", "each", "all", "close"} => InLoop
  BY DEF InLoop
<1>h. WriteBody => InWrite /\ (entry # Sdhs \/ pc' = "sdhs end")
  BY <1>b, WritingFacts, WrittenFacts
<1>i. WriteBody \/ OpenEntry => log_file' = log_file /\ arena' = arena
  BY DEF WriteBody, OpenEntry
<1> USE DEF control, process, Fault, NoFault, Equipped, InWrite, Measured, Loop, Dead
<1>1. CASE run_tests
  BY <1>0, <1>c, <1>1 DEF run_tests, Return
<1>2. CASE TestsDone
  BY <1>0, <1>c, <1>2 DEF TestsDone, Return
<1>3. CASE UnknownTest
  BY <1>0, <1>c, <1>3 DEF UnknownTest, Dies
<1>4. CASE prepare_logging
  BY <1>0, <1>c, <1>4 DEF prepare_logging
<1>5. CASE arena_test
  BY <1>0, <1>c, <1>5 DEF arena_test, Dies
<1>6. CASE malloc_test
  BY <1>0, <1>c, <1>6 DEF malloc_test
<1>7. CASE LoopsDone
  BY <1>0, <1>c, <1>7 DEF LoopsDone
<1>8. CASE tight_loop_test
  BY <1>0, <1>c, <1>8 DEF tight_loop_test
<1>9. CASE Fork
  BY <1>0, <1>c, <1>9 DEF Fork
<1>10. CASE LoopEnds
  BY <1>0, <1>c, <1>10 DEF LoopEnds
<1>11. CASE ChildStarts
  BY <1>0, <1>c, <1>11 DEF ChildStarts
<1>12. CASE each_size_by_itself
  BY <1>0, <1>c, MeasureFacts, <1>12 DEF each_size_by_itself, Measure, Dies
<1>13. CASE EachEnds
  BY <1>0, <1>c, <1>13 DEF EachEnds
<1>14. CASE all_sizes_repeatedly
  BY <1>0, <1>c, MeasureFacts, <1>14 DEF all_sizes_repeatedly, Measure, Dies
<1>15. CASE OpenEntry
  BY <1>0, <1>c, WritingFacts, <1>b, <1>i, <1>15 DEF OpenEntry, WriteFails, Written
<1>16. CASE OpenFails
  BY <1>0, <1>c, <1>16 DEF OpenFails, Dies
<1>17. CASE WriteBody
  BY <1>0, <1>c, WritingFacts, <1>h, <1>i, <1>17 DEF WriteBody, WriteFails, Written
<1>18. CASE CloseLog
  BY <1>0, <1>c, CloseFacts, <1>18 DEF CloseLog, ChildExits, Dies
<1>19. CASE sdhs_test
  BY <1>0, <1>c, <1>19 DEF sdhs_test
<1>20. CASE ForkSdhsFails
  BY <1>0, <1>c, <1>20 DEF ForkSdhsFails
<1>21. CASE SdhsStarts
  BY <1>0, <1>c, SdhsStartFacts, <1>21 DEF SdhsStarts, ChildExits, Return
<1>22. CASE SdhsThread
  BY <1>0, <1>c, <1>22 DEF SdhsThread
<1>23. CASE SdhsWaits
  BY <1>0, <1>c, <1>23 DEF SdhsWaits
<1>24. CASE SdhsEnds
  BY <1>0, <1>c, <1>24 DEF SdhsEnds
<1>25. CASE Restart
  BY <1>0, <1>c, <1>25 DEF Restart
<1>26. CASE Terminated
  BY <1>0, <1>c, <1>26 DEF Terminated, benchVars
<1> QED BY <1>1, <1>2, <1>3, <1>4, <1>5, <1>6, <1>7, <1>8, <1>9, <1>10, <1>11, <1>12, <1>13, <1>14, <1>15, <1>16, <1>17, <1>18, <1>19, <1>20, <1>21, <1>22, <1>23, <1>24, <1>25, <1>26 DEF BenchNext

(* A process is only killed without a failing call where the assertion on  *)
(* the size of the arena fails, or for a test that does not exist.         *)
LEMMA DeadStep ==
  ASSUME BenchTypeOK, TestOK, PhaseOK, EntryOK, Equipped, Roomy, BenchNext, Dead
  PROVE  pc' = "over" /\ result' = "killed"
<1>1. Dies /\ (pc \in {"test", "loop", "each", "all"} \/ (pc = "close" /\ log_file = "failed"))
  BY DEF Dead
<1>2. \/ proc = 0 /\ pc' = "over" /\ result' = "killed"
      \/ proc # 0 /\ pc' \in {"forked", "test"}
  BY <1>1, DiesFacts
<1>3. pc \in {"test", "loop"} => proc = 0
  BY DEF PhaseOK, ChildAt
<1>4. ~(pc = "close" /\ log_file = "failed")
  BY DEF Equipped
<1>5. CASE pc \in {"each", "all"} /\ pc' # "over"
  <2>1. pc' \in {"forked", "test"}
    BY <1>2, <1>5
  <2>2. Measuring
    BY <1>5, <2>1 DEF BenchNext, Measuring, run_tests, TestsDone, UnknownTest, prepare_logging, arena_test, malloc_test,
       LoopsDone, tight_loop_test, Fork, LoopEnds, ChildStarts, EachEnds, OpenEntry, OpenFails, WriteBody, CloseLog,
       sdhs_test, ForkSdhsFails, SdhsStarts, SdhsThread, SdhsWaits, SdhsEnds, Restart, Terminated
  <2>3. InLoop
    BY <1>5 DEF InLoop
  <2>4. Loop.class \in ToSet(Classes) /\ SizesOf[Loop.class] \in Seq(Nat \ {0})
    BY <2>3, LoopFacts
  <2>5. Measured => arena = "made"
    BY <1>5 DEF Equipped
  <2>6. \A need \in {SizeSum(Loop.class)} \cup ToSet(SizesOf[Loop.class]) :
          AtLeast(lm_mem_sz_from_string(conf.text), need * Iterations)
    BY <2>4 DEF Roomy
  <2>7. CASE each_size_by_itself
    <3>1. pc = "each" /\ left # <<>> /\ (Room(Head(left) * Iterations) => pc' = "write")
      BY <2>7 DEF each_size_by_itself, Measure
    <3>2. left \in Seq(Nat \ {0}) /\ Rest(left, SizesOf[Loop.class])
      BY <3>1, TypeFacts DEF EntryOK, Sizing
    <3>3. Head(left) \in ToSet(SizesOf[Loop.class])
      BY <2>4, <3>1, <3>2, RestFacts
    <3>4. Room(Head(left) * Iterations)
      BY <2>5, <2>6, <3>3 DEF Room
    <3> QED BY <2>1, <3>1, <3>4
  <2>8. CASE all_sizes_repeatedly
    <3>1. Room(SizeSum(Loop.class) * Iterations) => pc' = "write"
      BY <2>8 DEF all_sizes_repeatedly, Measure
    <3>2. Room(SizeSum(Loop.class) * Iterations)
      BY <2>5, <2>6 DEF Room
    <3> QED BY <2>1, <3>1, <3>2
  <2> QED BY <2>2, <2>7, <2>8 DEF Measuring
<1> QED BY <1>1, <1>2, <1>3, <1>4, <1>5

(* The file of a measurement that was written.                             *)
LEMMA WrittenThere ==
  ASSUME BenchTypeOK, TestOK, EntryOK, FilesOK, WriteBody, faults' = 0
  PROVE  There(entry)' /\ entry' = entry
<1>1. entry' = entry /\ start' = start
  BY WritingFacts
<1>2. PICK f \in disk[entry], new \in Result :
              /\ f.start = start
              /\ disk' = Saved(entry, new) /\ new.name = f.name /\ f.name = "bin" /\ new.start = f.start
              /\ new.fate = "open" \/ faults' = faults + 1
  BY WriteBodyFacts
<1>3. entry \in Dirs
  BY WriteBodyFacts
<1>4. new.fate = "open"
  <2>1. faults \in 0 .. MaxFaults
    BY DEF BenchTypeOK
  <2> QED BY <1>2, <2>1
<1>5. disk[entry] \in SUBSET Result /\ IsFiniteSet(disk[entry])
  BY <1>3 DEF FilesOK, DiskOK
<1>6. new \in disk'[entry]
  BY <1>2, <1>3, <1>5, SavedFacts, PutFacts DEF FilesOK
<1> QED BY <1>1, <1>2, <1>4, <1>6 DEF There

(* What was there stays there.                                             *)
LEMMA ThereStays ==
  ASSUME Lasting, faults' = 0, ~Dead, start' = start
  PROVE  /\ \A d \in Dirs : There(d) => There(d)'
         /\ \A l \in Loops : /\ EachThere(l) => EachThere(l)'
                             /\ AllThere(l) => AllThere(l)'
         /\ \A t : TestThere(t) => TestThere(t)'
<1>1. \A d \in Dirs : There(d) => There(d)'
  BY DEF Lasting, There
<1>2. ASSUME NEW l \in Loops
      PROVE  (EachThere(l) => EachThere(l)') /\ (AllThere(l) => AllThere(l)')
  <2>1. l.fn \in Fns /\ l.class \in ToSet(Classes)
    BY DEF Loops
  <2>2. Dir(l.fn, 0, l.class) \in Dirs /\ \A s \in ToSet(SizesOf[l.class]) : Dir(l.fn, s, "") \in Dirs
    BY <2>1, DirFacts
  <2> QED BY <1>1, <2>2 DEF EachThere, AllThere
<1>3. ToSet(Product(ArenaFns)) \subseteq Loops /\ ToSet(Product(MallocFns)) \subseteq Loops
  <2>1. ASSUME NEW s \in Seq(Loops) PROVE ToSet(s) \subseteq Loops
    <3>1. \A i \in DOMAIN s : s[i] \in Loops
      BY LenProperties
    <3> QED BY <3>1 DEF ToSet
  <2> QED BY <2>1, LoopTypes
<1>4. ASSUME NEW t, TestThere(t) PROVE TestThere(t)'
  <2>1. t = "sdhs" => There(Sdhs)'
    BY <1>1, <1>4, DirFacts DEF TestThere
  <2>2. t = "arena" => LoopsThere(ToSet(Product(ArenaFns)))'
    BY <1>2, <1>3, <1>4 DEF TestThere, LoopsThere
  <2>3. t = "malloc" => LoopsThere(ToSet(Product(MallocFns)))'
    BY <1>2, <1>3, <1>4 DEF TestThere, LoopsThere
  <2> QED BY <2>1, <2>2, <2>3 DEF TestThere
<1> QED BY <1>1, <1>2, <1>4

LEMMA OverStep ==
  ASSUME BenchTypeOK, TestOK, EntryOK, BenchNext, pc' = "over", result' = "passed"
  PROVE  TestsDone \/ Terminated
<1>1. ~Dies
  BY DiesFacts
<1> USE DEF control, process
<1>a1. CASE run_tests
  BY <1>1, <1>a1 DEF run_tests, Return
<1>a2. CASE TestsDone
  BY <1>1, <1>a2 DEF TestsDone, Return
<1>a3. CASE UnknownTest
  BY <1>1, <1>a3 DEF UnknownTest, Dies
<1>a4. CASE prepare_logging
  BY <1>1, <1>a4 DEF prepare_logging
<1>a5. CASE arena_test
  BY <1>1, <1>a5 DEF arena_test, Dies
<1>a6. CASE malloc_test
  BY <1>1, <1>a6 DEF malloc_test
<1>a7. CASE LoopsDone
  BY <1>1, <1>a7 DEF LoopsDone
<1>a8. CASE tight_loop_test
  BY <1>1, <1>a8 DEF tight_loop_test, Dies
<1>a9. CASE Fork
  BY <1>1, <1>a9 DEF Fork
<1>a10. CASE LoopEnds
  BY <1>1, <1>a10 DEF LoopEnds
<1>a11. CASE ChildStarts
  BY <1>1, <1>a11 DEF ChildStarts
<1>a12. CASE each_size_by_itself
  BY <1>1, MeasureFacts, <1>a12 DEF each_size_by_itself, Measure, Dies
<1>a13. CASE EachEnds
  BY <1>1, <1>a13 DEF EachEnds
<1>a14. CASE all_sizes_repeatedly
  BY <1>1, MeasureFacts, <1>a14 DEF all_sizes_repeatedly, Measure, Dies
<1>a15. CASE OpenEntry
  BY <1>1, WritingFacts, WrittenFacts, <1>a15 DEF OpenEntry, WriteFails, Written
<1>a16. CASE OpenFails
  BY <1>1, <1>a16 DEF OpenFails, Dies
<1>a17. CASE WriteBody
  BY <1>1, WritingFacts, WrittenFacts, <1>a17 DEF WriteBody, WriteFails, Written
<1>a18. CASE CloseLog
  BY <1>1, CloseFacts, <1>a18 DEF CloseLog, ChildExits, Dies
<1>a19. CASE sdhs_test
  BY <1>1, <1>a19 DEF sdhs_test
<1>a20. CASE ForkSdhsFails
  BY <1>1, <1>a20 DEF ForkSdhsFails
<1>a21. CASE SdhsStarts
  BY <1>1, SdhsStartFacts, <1>a21 DEF SdhsStarts, ChildExits, Return
<1>a22. CASE SdhsThread
  BY <1>1, <1>a22 DEF SdhsThread
<1>a23. CASE SdhsWaits
  BY <1>1, <1>a23 DEF SdhsWaits
<1>a24. CASE SdhsEnds
  BY <1>1, <1>a24 DEF SdhsEnds
<1>a25. CASE Restart
  BY <1>1, <1>a25 DEF Restart
<1>a26. CASE Terminated
  BY <1>1, <1>a26 DEF Terminated, benchVars
<1> QED BY <1>a1, <1>a2, <1>a3, <1>a4, <1>a5, <1>a6, <1>a7, <1>a8, <1>a9, <1>a10, <1>a11, <1>a12, <1>a13, <1>a14, <1>a15, <1>a16, <1>a17, <1>a18, <1>a19, <1>a20, <1>a21, <1>a22, <1>a23, <1>a24, <1>a25, <1>a26 DEF BenchNext

LEMMA RestDone ==
  ASSUME NEW S, NEW s \in Seq(S), NEW t \in Seq(S), Rest(s, t), Len(s) = 0
  PROVE  Past(s, t) = ToSet(t)
<1>1. Len(t) \in Nat /\ ToSet(t) = {t[i] : i \in 1 .. Len(t)}
  BY DEF ToSet
<1> QED BY <1>1 DEF Past

LEMMA ProgressKept ==
  ASSUME BenchTypeOK, TestOK, PhaseOK, EntryOK, FilesOK, ProgressOK, Lasting, BenchNext
  PROVE  ProgressOK'
<1>1. SUFFICES ASSUME faults' = 0, Roomy', pc' \notin {"conf", "over"}
               PROVE  PastTests' /\ PastLoops' /\ PastSizes' /\ PastParts' /\ Equipped'
  BY DEF ProgressOK
<1>c. conf' = conf
  BY DEF BenchNext, run_tests, TestsDone, UnknownTest, prepare_logging, arena_test, malloc_test, LoopsDone,
     tight_loop_test, Fork, LoopEnds, ChildStarts, each_size_by_itself, EachEnds, all_sizes_repeatedly, OpenEntry,
     OpenFails, WriteBody, CloseLog, sdhs_test, ForkSdhsFails, SdhsStarts, SdhsThread, SdhsWaits, SdhsEnds, Restart,
     Terminated, Dies, Measure, control, benchVars
<1>2. Roomy
  BY <1>1, <1>c DEF Roomy
<1>3. faults' = faults \/ faults' = faults + 1 \/ pc' = "conf"
  BY DEF BenchNext, run_tests, TestsDone, UnknownTest, prepare_logging, arena_test, malloc_test, LoopsDone,
     tight_loop_test, Fork, LoopEnds, ChildStarts, each_size_by_itself, EachEnds, all_sizes_repeatedly, OpenEntry,
     OpenFails, WriteBody, CloseLog, sdhs_test, ForkSdhsFails, SdhsStarts, SdhsThread, SdhsWaits, SdhsEnds, Restart,
     Terminated, Measure, WriteFails, Fault, NoFault, benchVars
<1>4. faults = 0 /\ pc # "over"
  <2>1. faults \in 0 .. MaxFaults
    BY DEF BenchTypeOK
  <2>2. faults = 0
    BY <1>1, <1>3, <2>1
  <2>3. pc = "over" => pc' \in {"over", "conf"}
    BY DEF BenchNext, run_tests, TestsDone, UnknownTest, prepare_logging, arena_test, malloc_test, LoopsDone,
       tight_loop_test, Fork, LoopEnds, ChildStarts, each_size_by_itself, EachEnds, all_sizes_repeatedly, OpenEntry,
       OpenFails, WriteBody, CloseLog, sdhs_test, ForkSdhsFails, SdhsStarts, SdhsThread, SdhsWaits, SdhsEnds, Restart,
       Terminated, benchVars
  <2> QED BY <1>1, <2>2, <2>3
<1>5. pc # "conf" => PastTests /\ PastLoops /\ PastSizes /\ PastParts
  BY <1>2, <1>4 DEF ProgressOK
<1>6. Equipped
  <2>1. pc = "conf" => Equipped
    BY DEF Equipped, InWrite
  <2> QED BY <1>2, <1>4, <2>1 DEF ProgressOK
<1>7. ~Dead
  BY <1>1, <1>2, <1>6, DeadStep
<1>8. Well
  BY <1>1, <1>7 DEF Well
<1>9. start' = start
  BY <1>8, GoesOn
<1>10. /\ \A d \in Dirs : There(d) => There(d)'
       /\ \A l \in Loops : (EachThere(l) => EachThere(l)') /\ (AllThere(l) => AllThere(l)')
       /\ \A t : TestThere(t) => TestThere(t)'
  BY <1>1, <1>7, <1>9, ThereStays
<1>11. suite \in Seq(STRING) /\ conf.suite \in Seq(STRING) /\ loops \in Seq(Loops) /\ left \in Seq(Nat \ {0})
  BY TypeFacts
<1>12. InLoop => /\ Loop \in Loops /\ Loop.fn \in Fns /\ Loop.class \in ToSet(Classes)
                 /\ SizesOf[Loop.class] \in Seq(Nat \ {0})
  BY LoopFacts
<1>13. Product(TestFns) \in Seq(Loops)
  BY LoopTypes DEF TestFns
<1>w. WriteBody => There(entry)' /\ entry' = entry
  BY <1>1, WrittenThere
<1>14. PastTests'
  <2>1. CASE pc = "conf" /\ suite' = conf.suite
    <3>1. Past(suite', conf.suite) = {}
      BY <1>11, <2>1, RestFacts
    <3> QED BY <1>c, <3>1 DEF PastTests
  <2>2. CASE pc # "conf" /\ suite' = suite
    <3>1. \A t \in Past(suite, conf.suite) : TestThere(t)'
      BY <1>5, <1>10, <2>2 DEF PastTests
    <3> QED BY <1>c, <2>2, <3>1 DEF PastTests
  <2>3. ASSUME suite # <<>>, suite' = Tail(suite), TestThere(Head(suite)), pc # "conf"
        PROVE  PastTests'
    <3>1. Rest(suite, conf.suite)
      BY <1>4, <2>3 DEF TestOK
    <3>2. Past(suite', conf.suite) = Past(suite, conf.suite) \cup {Head(suite)}
      BY <1>11, <2>3, <3>1, RestFacts
    <3>3. \A t \in Past(suite', conf.suite) : TestThere(t)'
      BY <1>5, <1>10, <2>3, <3>2 DEF PastTests
    <3> QED BY <1>c, <3>3 DEF PastTests
  <2>4. CASE pc = "sdhs end" /\ suite' = Tail(suite)
    <3>1. suite # <<>> /\ Head(suite) = "sdhs"
      BY <2>4 DEF TestOK, InSdhs
    <3>2. There(Sdhs)
      BY <1>5, <2>4 DEF PastParts
    <3>3. TestThere(Head(suite))
      BY <3>1, <3>2 DEF TestThere
    <3> QED BY <2>3, <2>4, <3>1, <3>3
  <2>5. CASE pc = "loop" /\ loops = <<>> /\ suite' = Tail(suite)
    <3>1. suite # <<>> /\ Head(suite) \in {"arena", "malloc"} /\ Rest(loops, Product(TestFns))
      BY <2>5 DEF TestOK
    <3>2. Past(loops, Product(TestFns)) = ToSet(Product(TestFns))
      <4>1. Len(loops) = 0
        BY <2>5
      <4> QED BY <1>11, <1>13, <3>1, <4>1, RestDone
    <3>3. LoopsThere(ToSet(Product(TestFns)))
      BY <1>5, <2>5, <3>2 DEF PastLoops
    <3>4. TestThere(Head(suite))
      BY <3>1, <3>3 DEF TestThere, TestFns
    <3> QED BY <2>3, <2>5, <3>1, <3>4
  <2> QED BY <1>8, <2>1, <2>2, <2>4, <2>5, SuiteStep
<1>15. PastLoops'
  <2>1. SUFFICES ASSUME pc' = "loop" \/ InLoop'
                 PROVE  LoopsThere(Past(loops, Product(TestFns)))'
    BY DEF PastLoops
  <2>2. /\ suite' = suite
        /\ \/ (pc = "loop" \/ InLoop) /\ loops' = loops
           \/ loops' = Product(TestFns)
           \/ pc = "forked" /\ phase = 3 /\ loops' = Tail(loops)
    BY <1>8, <2>1, LoopStep
  <2>3. TestFns' = TestFns /\ Product(TestFns)' = Product(TestFns)
    BY <2>2 DEF TestFns, Product
  <2>4. SUFFICES ASSUME NEW l \in Past(loops', Product(TestFns)) PROVE EachThere(l)' /\ AllThere(l)'
    BY <2>3 DEF LoopsThere
  <2>5. \A m \in Past(loops, Product(TestFns)) : m \in Loops
    <3>1. Product(TestFns) \in Seq(Loops) /\ Len(loops) \in Nat
      BY <1>11, <1>13
    <3> QED BY <3>1 DEF Past
  <2>6. CASE (pc = "loop" \/ InLoop) /\ loops' = loops
    <3>1. EachThere(l) /\ AllThere(l) /\ l \in Loops
      BY <1>5, <2>4, <2>5, <2>6 DEF PastLoops, LoopsThere, InLoop, InWrite
    <3> QED BY <1>10, <3>1
  <2>7. CASE loops' = Product(TestFns)
    <3>1. Past(loops', Product(TestFns)) = {}
      BY <1>13, <2>7, RestFacts
    <3> QED BY <2>4, <3>1
  <2>8. CASE pc = "forked" /\ phase = 3 /\ loops' = Tail(loops)
    <3>1. InLoop /\ EachOver /\ AllOver
      BY <2>8 DEF InLoop, EachOver, AllOver
    <3>2. loops # <<>> /\ Rest(loops, Product(TestFns))
      BY <3>1 DEF TestOK
    <3>3. Past(loops', Product(TestFns)) = Past(loops, Product(TestFns)) \cup {Loop}
      BY <1>11, <1>13, <2>8, <3>2, RestFacts DEF Loop
    <3>4. EachThere(Loop) /\ AllThere(Loop) /\ Loop \in Loops
      BY <1>5, <1>12, <2>8, <3>1 DEF PastParts
    <3>5. CASE l = Loop
      BY <1>10, <3>4, <3>5
    <3>6. CASE l \in Past(loops, Product(TestFns))
      <4>1. EachThere(l) /\ AllThere(l) /\ l \in Loops
        BY <1>5, <2>5, <2>8, <3>1, <3>6 DEF PastLoops, LoopsThere
      <4> QED BY <1>10, <4>1
    <3> QED BY <2>4, <3>3, <3>5, <3>6
  <2> QED BY <2>2, <2>6, <2>7, <2>8
<1>16. PastSizes'
  <2>1. SUFFICES ASSUME Sizing'
                 PROVE  (\A s \in Past(left, SizesOf[Loop.class]) : There(Dir(Loop.fn, s, "")))'
    BY DEF PastSizes
  <2>2. /\ InLoop /\ loops' = loops
        /\ \/ Sizing /\ left' = left
           \/ left' = SizesOf[Loop.class]
           \/ /\ WriteBody /\ Sizing /\ left # <<>> /\ left' = Tail(left)
              /\ entry = Dir(Loop.fn, Head(left), "")
    BY <1>8, <2>1, SizeStep
  <2>3. Loop' = Loop /\ pc # "conf"
    BY <2>2 DEF Loop, InLoop, InWrite
  <2>4. SUFFICES ASSUME NEW s \in Past(left', SizesOf[Loop.class]) PROVE There(Dir(Loop.fn, s, ""))'
    BY <2>3
  <2>5. \A n \in Past(left, SizesOf[Loop.class]) : Dir(Loop.fn, n, "") \in Dirs
    <3>1. \A n \in Past(left, SizesOf[Loop.class]) : n \in ToSet(SizesOf[Loop.class])
      <4>1. SizesOf[Loop.class] \in Seq(Nat \ {0}) /\ Len(left) \in Nat
        BY <1>11, <1>12, <2>2, LenProperties
      <4>2. PICK t \in Seq(Nat \ {0}), k \in Nat : t = SizesOf[Loop.class] /\ k = Len(left)
        BY <4>1
      <4>3. \A i \in 1 .. Len(t) - k : t[i] \in ToSet(t)
        BY <4>2 DEF ToSet
      <4> QED BY <4>2, <4>3 DEF Past
    <3> QED BY <1>12, <2>2, <3>1, DirFacts
  <2>6. ASSUME s \in Past(left, SizesOf[Loop.class]), Sizing PROVE There(Dir(Loop.fn, s, ""))'
    <3>1. There(Dir(Loop.fn, s, "")) /\ Dir(Loop.fn, s, "") \in Dirs
      BY <1>5, <2>3, <2>5, <2>6 DEF PastSizes
    <3>2. PICK d \in Dirs : d = Dir(Loop.fn, s, "")
      BY <3>1
    <3>3. There(d)'
      BY <1>10, <3>1, <3>2
    <3> QED BY <2>3, <3>2, <3>3 DEF There
  <2>7. CASE Sizing /\ left' = left
    BY <2>4, <2>6, <2>7
  <2>8. CASE left' = SizesOf[Loop.class]
    <3>1. Past(left', SizesOf[Loop.class]) = {}
      BY <1>12, <2>2, <2>8, RestFacts
    <3> QED BY <2>4, <3>1
  <2>9. CASE /\ WriteBody /\ Sizing /\ left # <<>> /\ left' = Tail(left)
             /\ entry = Dir(Loop.fn, Head(left), "")
    <3>1. Rest(left, SizesOf[Loop.class])
      BY <2>9 DEF EntryOK
    <3>2. Past(left', SizesOf[Loop.class]) = Past(left, SizesOf[Loop.class]) \cup {Head(left)}
      BY <1>11, <1>12, <2>2, <2>9, <3>1, RestFacts
    <3>3. ASSUME s = Head(left) PROVE There(Dir(Loop.fn, s, ""))'
      BY <1>w, <2>3, <2>9, <3>3 DEF There
    <3> QED BY <2>4, <2>6, <2>9, <3>2, <3>3
  <2> QED BY <2>2, <2>7, <2>8, <2>9
<1>17. PastParts'
  <2>1. ASSUME EachOver' PROVE EachThere(Loop)'
    <3>1. InLoop /\ loops' = loops /\ (EachOver \/ (Sizing /\ left = <<>>))
      BY <1>8, <2>1, EachStep
    <3>2. Loop' = Loop /\ pc # "conf"
      BY <3>1 DEF Loop, InLoop, InWrite
    <3>3. EachThere(Loop)
      <4>1. CASE EachOver
        BY <1>5, <3>2, <4>1 DEF PastParts
      <4>2. CASE Sizing /\ left = <<>>
        <5>1. Rest(left, SizesOf[Loop.class])
          BY <4>2 DEF EntryOK
        <5>2. Past(left, SizesOf[Loop.class]) = ToSet(SizesOf[Loop.class])
          <6>1. Len(left) = 0 /\ left \in Seq(Nat \ {0}) /\ SizesOf[Loop.class] \in Seq(Nat \ {0})
            BY <1>11, <1>12, <3>1, <4>2
          <6> QED BY <5>1, <6>1, RestDone, Zenon
        <5> QED BY <1>5, <3>2, <4>2, <5>2 DEF PastSizes, EachThere
      <4> QED BY <3>1, <4>1, <4>2
    <3>4. PICK l \in Loops : l = Loop
      BY <1>12, <3>1
    <3>5. EachThere(l)'
      BY <1>10, <3>3, <3>4
    <3> QED BY <3>2, <3>4, <3>5 DEF EachThere, There
  <2>2. ASSUME AllOver' PROVE AllThere(Loop)'
    <3>1. InLoop /\ loops' = loops /\ (AllOver \/ (WriteBody /\ entry = Dir(Loop.fn, 0, Loop.class)))
      BY <1>8, <2>2, AllStep
    <3>2. Loop' = Loop /\ pc # "conf"
      BY <3>1 DEF Loop, InLoop, InWrite
    <3>3. CASE AllOver
      <4>1. AllThere(Loop)
        BY <1>5, <3>2, <3>3 DEF PastParts
      <4>2. PICK l \in Loops : l = Loop
        BY <1>12, <3>1
      <4>3. AllThere(l)'
        BY <1>10, <4>1, <4>2
      <4> QED BY <3>2, <4>2, <4>3 DEF AllThere, There
    <3>4. CASE WriteBody /\ entry = Dir(Loop.fn, 0, Loop.class)
      BY <1>w, <3>2, <3>4 DEF AllThere, There
    <3> QED BY <3>1, <3>3, <3>4
  <2>3. ASSUME pc' = "sdhs end" PROVE There(Sdhs)'
    <3>1. pc = "sdhs end" \/ (WriteBody /\ entry = Sdhs)
      BY <1>8, <2>3, EndStep
    <3>2. CASE pc = "sdhs end"
      <4>1. There(Sdhs)
        BY <1>5, <3>2 DEF PastParts
      <4> QED BY <1>10, <4>1, DirFacts
    <3>3. CASE WriteBody /\ entry = Sdhs
      BY <1>w, <3>3 DEF There
    <3> QED BY <3>1, <3>2, <3>3
  <2> QED BY <2>1, <2>2, <2>3 DEF PastParts
<1>18. Equipped'
  BY <1>6, <1>8, LogStep
<1> QED BY <1>14, <1>15, <1>16, <1>17, <1>18

(* At the end every file of the tests is there, and none is open.          *)
LEMMA ResultsKept ==
  ASSUME BenchTypeOK, TestOK, EntryOK, PhaseOK, ProgressOK, ResultsPresent, Lasting, BenchNext, OpenOK'
  PROVE  ResultsPresent'
<1>1. SUFFICES ASSUME pc' = "over", result' = "passed", faults' = 0, Roomy', NEW t \in ToSet(conf'.suite)
               PROVE  /\ t = "arena" => HasAll(ArenaFns)'
                      /\ t = "malloc" => HasAll(MallocFns)'
                      /\ t = "sdhs" => Has(Sdhs)'
  BY DEF ResultsPresent
<1>2. CASE Terminated
  <2>1. /\ pc = "over" /\ result = "passed" /\ faults = 0 /\ Roomy /\ t \in ToSet(conf.suite)
        /\ disk' = disk /\ start' = start
    BY <1>1, <1>2 DEF Terminated, benchVars, control, Roomy
  <2> QED BY <2>1 DEF ResultsPresent, HasAll, Has
<1>3. CASE TestsDone
  <2>1. /\ pc = "test" /\ suite = <<>> /\ faults' = faults /\ conf' = conf /\ start' = start
    BY <1>3 DEF TestsDone
  <2>2. PastTests
    BY <1>1, <2>1 DEF ProgressOK, Roomy
  <2>3. Len(suite) = 0 /\ suite \in Seq(STRING) /\ conf.suite \in Seq(STRING) /\ Rest(suite, conf.suite)
    BY <2>1, TypeFacts DEF TestOK
  <2>4. Past(suite, conf.suite) = ToSet(conf.suite)
    BY <2>3, RestDone
  <2>5. ~Dead
    <3>1. proc = 0
      BY <2>1 DEF PhaseOK, ChildAt
    <3> QED BY <1>1, <3>1, DiesFacts DEF Dead
  <2>6. TestThere(t)'
    BY <1>1, <2>1, <2>2, <2>4, <2>5, ThereStays DEF PastTests
  <2>7. ASSUME NEW d \in Dirs, There(d)' PROVE Has(d)'
    <3>1. \A f \in disk'[d] : f.fate # "open"
      BY <1>1 DEF OpenOK
    <3> QED BY <2>7, <3>1 DEF There, Has
  <2>8. ASSUME NEW fns, LoopsThere(ToSet(Product(fns)))', Product(fns) \in Seq(Loops) PROVE HasAll(fns)'
    <3>1. ASSUME NEW l \in ToSet(Product(fns))
          PROVE  Has(Dir(l.fn, 0, l.class))' /\ \A s \in ToSet(SizesOf[l.class]) : Has(Dir(l.fn, s, ""))'
      <4>1. l \in Loops
        <5>1. \A i \in DOMAIN Product(fns) : Product(fns)[i] \in Loops
          BY <2>8, LenProperties
        <5> QED BY <3>1, <5>1 DEF ToSet
      <4>2. l.fn \in Fns /\ l.class \in ToSet(Classes)
        BY <4>1 DEF Loops
      <4>3. Dir(l.fn, 0, l.class) \in Dirs /\ \A s \in ToSet(SizesOf[l.class]) : Dir(l.fn, s, "") \in Dirs
        BY <4>2, DirFacts
      <4>4. There(Dir(l.fn, 0, l.class))' /\ \A s \in ToSet(SizesOf[l.class]) : There(Dir(l.fn, s, ""))'
        BY <2>8, <3>1 DEF LoopsThere, AllThere, EachThere
      <4> QED BY <2>7, <4>3, <4>4
    <3> QED BY <3>1 DEF HasAll
  <2> QED BY <2>6, <2>7, <2>8, LoopTypes, DirFacts DEF TestThere
<1> QED BY <1>1, <1>2, <1>3, OverStep

(* The inductive invariant.                                                *)
LEMMA BenchInitial ==
  ASSUME BenchInit
  PROVE  BenchIInv
<1>1. BenchTypeOK
  <2>1. conf.starts \in Nat \ {0} /\ conf \in Confs
    BY ConfsAssumption DEF BenchInit
  <2>2. 1 \in 1 .. conf.starts
    <3>1. \A n \in Nat \ {0} : 1 \in 1 .. n
      OBVIOUS
    <3> QED BY <2>1, <3>1
  <2>3. /\ <<>> \in Seq(STRING) /\ <<>> \in Seq([fn : Fns, class : ToSet(Classes)]) /\ <<>> \in Seq(Nat \ {0})
    <3>1. \A S : <<>> \in Seq(S)
      OBVIOUS
    <3> QED BY <3>1
  <2>4. parent = [coll |-> FreshMem, main_ua |-> 0] /\ [coll |-> FreshMem, main_ua |-> 0] \in [coll : Statics, main_ua : Nat]
    BY NoThreadFacts DEF BenchInit
  <2>5. coll \in Statics /\ thread \in [Threads -> Thread]
    BY NoThreadFacts DEF BenchInit
  <2>6. disk \in [Dirs -> SUBSET Result] /\ \A d \in Dirs : IsFiniteSet(disk[d])
    BY FS_EmptySet DEF BenchInit
  <2>7. faults \in 0 .. MaxFaults /\ phase \in 1 .. 3
    <3>1. MaxFaults \in Nat
      BY BenchAssumption
    <3>2. 0 \in 0 .. MaxFaults /\ 1 \in 1 .. 3
      BY <3>1
    <3> QED BY <3>2 DEF BenchInit
  <2> QED BY <2>1, <2>2, <2>3, <2>4, <2>5, <2>6, <2>7 DEF BenchTypeOK, BenchInit
<1>2. TestOK /\ EntryOK /\ ScratchOK /\ MeasuredOK /\ BodyOK /\ ProgressOK /\ ResultsPresent
  BY DEF BenchInit, TestOK, EntryOK, ScratchOK, MeasuredOK, BodyOK, ProgressOK, ResultsPresent, InLoop, InSdhs, InWrite,
         Sizing, Summing
<1>3. PhaseOK /\ FreshOK
  BY DEF BenchInit, PhaseOK, FreshOK, ChildAt, Sizing, Summing, InWrite
<1>4. RunOK
  <2>1. /\ \A t \in Threads : thread[t].at = "idle" /\ thread[t].left = 0
        /\ coll \in Statics /\ thread \in [Threads -> Thread] /\ CurLeft = 0 /\ coll.cur = 0
        /\ proc = 0 /\ drained = TRUE /\ thread = NoThreads /\ pc = "conf"
    BY NoThreadFacts DEF CurLeft, BenchInit
  <2>2. Shape
    BY <2>1 DEF Shape
  <2>3. CurLimit = Cells /\ Cells \in Nat /\ 0 + 0 <= Cells /\ 0 + Total <= Cells
    <3>1. Cells \in Nat /\ Total \in Nat /\ Total <= Cells
      BY TotalFacts
    <3>2. 0 + 0 <= Cells /\ 0 + Total <= Cells
      BY <3>1
    <3> QED BY <2>1, <3>1, <3>2 DEF CurLimit
  <2>4. CellsLeft
    BY <2>1, <2>3 DEF CellsLeft, CurLoaded
  <2>5. ThreadsOK
    BY <2>1, <2>3 DEF ThreadsOK, Running, InWrite
  <2>6. SdhsOK
    BY <2>1 DEF SdhsOK
  <2> QED BY <2>1, <2>2, <2>4, <2>5, <2>6 DEF RunOK
<1>5. LogsOK /\ NumbersOK /\ OpenOK /\ DataOK
  BY DEF BenchInit, LogsOK, LogFresh, NumbersOK, OpenOK, DataOK
<1> QED BY <1>1, <1>2, <1>3, <1>4, <1>5 DEF RunOK, BenchIInv

LEMMA BenchStep ==
  ASSUME BenchIInv, [BenchNext]_benchVars
  PROVE  BenchIInv' /\ Kept
<1>1. /\ BenchTypeOK /\ TestOK /\ PhaseOK /\ EntryOK /\ ScratchOK /\ FreshOK /\ RunOK /\ MeasuredOK
      /\ FilesOK /\ ProgressOK /\ ResultsPresent /\ ThreadsOK /\ OpenOK
  BY DEF BenchIInv, RunOK, FilesOK, DiskOK, BenchTypeOK
<1>2. CASE BenchNext
  <2>1. TestOK' /\ PhaseOK' /\ EntryOK' /\ ScratchOK' /\ FreshOK'
    BY <1>1, <1>2, TestKept, PhaseKept, EntryKept, ScratchKept, FreshKept
  <2>2. RunOK'
    BY <1>1, <1>2, RunKept
  <2>3. MeasuredOK'
    BY <1>1, <1>2, MeasuredKept
  <2>4. FilesOK' /\ Kept /\ Lasting
    BY <1>1, <1>2, FilesKept
  <2>5. BenchTypeOK'
    BY <1>1, <1>2, <2>2, <2>4, TypeKept
  <2>6. ProgressOK'
    BY <1>1, <1>2, <2>4, ProgressKept
  <2>7. ResultsPresent'
    BY <1>1, <1>2, <2>4, ResultsKept DEF FilesOK
  <2> QED BY <2>1, <2>2, <2>3, <2>4, <2>5, <2>6, <2>7 DEF BenchIInv, RunOK, FilesOK
<1>3. CASE UNCHANGED benchVars
  <2>u. /\ coll' = coll /\ thread' = thread /\ start' = start /\ conf' = conf /\ result' = result /\ suite' = suite
        /\ loops' = loops /\ phase' = phase /\ left' = left /\ pc' = pc /\ proc' = proc /\ parent' = parent
        /\ main_ua' = main_ua /\ uas' = uas /\ prepared' = prepared /\ run_nr' = run_nr /\ arena' = arena
        /\ log_file' = log_file /\ entry' = entry /\ disk' = disk /\ faults' = faults /\ drained' = drained
    BY <1>3 DEF benchVars, control, process
  <2>1. BenchTypeOK'
    <3>1. PlaceType /\ ListType /\ CountType /\ coll \in Statics /\ thread \in [Threads -> Thread] /\ DiskOK
      BY <1>1 DEF PlaceType, ListType, CountType, DiskOK, BenchTypeOK, Loops
    <3>p. PlaceType'
      BY <2>u, <3>1 DEF PlaceType
    <3>l. ListType'
      BY <2>u, <3>1 DEF ListType
    <3>2. PlaceType' /\ ListType'
      BY <3>p, <3>l
    <3>3. CountType'
      BY <2>u, <3>1 DEF CountType
    <3>4. coll' \in Statics /\ thread' \in [Threads -> Thread] /\ DiskOK'
      BY <2>u, <3>1 DEF DiskOK
    <3> QED BY <3>2, <3>3, <3>4 DEF PlaceType, ListType, CountType, DiskOK, BenchTypeOK, Loops
  <2>2. TestOK'
    BY <1>1, <2>u DEF TestOK, InLoop, InSdhs, InWrite, TestFns
  <2>3. PhaseOK' /\ ScratchOK' /\ FreshOK'
    BY <1>1, <2>u DEF PhaseOK, ScratchOK, FreshOK, Sizing, Summing, InLoop, InWrite
  <2>4. EntryOK' /\ MeasuredOK'
    BY <1>1, <2>u DEF EntryOK, MeasuredOK, Sizing, Summing, InWrite, Loop
  <2>5. Shape' /\ CellsLeft' /\ ThreadsOK'
    BY <1>1, <2>u DEF RunOK, Shape, CellsLeft, CurLoaded, CurLimit, CurLeft, ThreadsOK, Running, InSdhs, InWrite
  <2>6. SdhsOK'
    <3>1. Running' = Running /\ IterLeft' = IterLeft
      BY <2>u DEF Running, InWrite, IterLeft
    <3>2. IterRight => IterRight'
      BY <2>u, <3>1 DEF IterRight
    <3>3. \A i \in 0 .. Cells - 1 : Timing(i) => Timing(i)'
      BY <2>u DEF Timing
    <3>4. CurRight => CurRight'
      BY <2>u, <3>3 DEF CurRight, CurLoaded
    <3> QED BY <1>1, <2>u, <3>1, <3>2, <3>4 DEF RunOK, SdhsOK
  <2>7. LogsOK' /\ NumbersOK' /\ OpenOK'
    BY <1>1, <2>u DEF FilesOK, LogsOK, LogFresh, NumbersOK, OpenOK
  <2>8. BodyOK' /\ DataOK'
    BY <1>1, <2>u DEF FilesOK, BodyOK, DataOK, Newest, get_next_run_nr
  <2>9. ResultsPresent'
    BY <1>1, <2>u DEF ResultsPresent, Roomy, HasAll, Has
  <2>10. ProgressOK'
    <3>1. SUFFICES ASSUME faults = 0, Roomy, pc \notin {"conf", "over"}
                   PROVE  PastTests' /\ PastLoops' /\ PastSizes' /\ PastParts' /\ Equipped'
      BY <2>u DEF ProgressOK, Roomy
    <3>2. PastTests /\ PastLoops /\ PastSizes /\ PastParts /\ Equipped
      BY <1>1, <3>1 DEF ProgressOK
    <3>3. PastTests'
      BY <2>u, <3>2 DEF PastTests, TestThere, LoopsThere, EachThere, AllThere, There
    <3>4. PastLoops' /\ PastSizes'
      BY <2>u, <3>2 DEF PastLoops, PastSizes, LoopsThere, EachThere, AllThere, There, InLoop, InWrite, Sizing, Loop, TestFns
    <3>5. PastParts' /\ Equipped'
      BY <2>u, <3>2 DEF PastParts, Equipped, EachThere, AllThere, There, InWrite, Loop, Measured, EachOver, AllOver, Summing
    <3> QED BY <3>3, <3>4, <3>5
  <2>11. Kept
    BY <2>u DEF Kept
  <2> QED BY <2>1, <2>2, <2>3, <2>4, <2>5, <2>6, <2>7, <2>8, <2>9, <2>10, <2>11 DEF BenchIInv
<1> QED BY <1>2, <1>3

(* The inductive invariant holds in every reachable state of the benchmark *)
(* program, for any tests, functions, classes, sizes, threads, faults and  *)
(* number of starts.                                                       *)
THEOREM BenchInductiveInvariant == BenchSpec => []BenchIInv
<1>1. BenchInit => BenchIInv
  BY BenchInitial
<1>2. BenchIInv /\ [BenchNext]_benchVars => BenchIInv'
  BY BenchStep
<1> QED BY <1>1, <1>2, PTL DEF BenchSpec

(* The variables hold what their names say, no process writes a timing     *)
(* outside its array, and tight_loop_test leaves main_ua where it was      *)
(* although the early returns of write_data_to_file release nothing.       *)
THEOREM BenchInvariant == BenchSpec => []BenchInv
<1>1. BenchIInv => BenchInv
  BY DEF BenchIInv, BenchInv, ScratchOK, ScratchRestored
<1> QED BY <1>1, BenchInductiveInvariant, PTL

(* The files of results are what their names say: every one was flushed by *)
(* the process that wrote it, holds the timings of its own measurement     *)
(* (init_alloc_tcoll, write_alloc_timing_data_to_file), and the racing     *)
(* threads of a data handler leave no hole in theirs (add_timing).         *)
THEOREM FilesInvariant == BenchSpec => []FilesRight
<1>1. BenchIInv => FilesRight
  <2> SUFFICES ASSUME BenchIInv PROVE FilesRight
    OBVIOUS
  <2>1. LogsOK /\ OpenOK /\ BodyOK /\ DataOK /\ Sdhs \in Dirs
    BY DirFacts DEF BenchIInv
  <2>2. FilesSettled
    BY <2>1 DEF OpenOK, FilesSettled
  <2>3. ASSUME NEW d \in Dirs, NEW f \in disk[d], f.name = "bin", f.fate = "whole" PROVE Complete(d, f)
    <3>1. ~(pc = "body" /\ d = entry /\ Newest(d, f))
      BY <2>1, <2>3 DEF BodyOK
    <3> QED BY <2>1, <2>3, <3>1 DEF DataOK
  <2>4. DataIsTests
    BY <2>3 DEF DataIsTests, Complete, Count
  <2>5. SdhsTimings
    <3>1. \A f \in disk[Sdhs] : f.name = "bin"
      BY <2>1 DEF LogsOK, Sdhs
    <3> QED BY <2>1, <2>3, <3>1 DEF SdhsTimings, Complete
  <2> QED BY <2>2, <2>4, <2>5 DEF FilesRight
<1> QED BY <1>1, BenchInductiveInvariant, PTL

(* A start that reports success without a failing call, with an arena for  *)
(* every size and for their sum, left every file its tests were asked for, *)
(* although run_tests does not look at how the children ended.             *)
THEOREM ResultsInvariant == BenchSpec => []ResultsPresent
<1>1. BenchIInv => ResultsPresent
  BY DEF BenchIInv
<1> QED BY <1>1, BenchInductiveInvariant, PTL

(* No start writes over a file of results of its own or of an earlier one: *)
(* get_next_run_nr and fopen with "wb" never meet on a number in use.      *)
THEOREM FilesStay == BenchSpec => NoOverwrite
<1>1. BenchIInv /\ [BenchNext]_benchVars => [Kept]_benchVars
  BY BenchStep
<1>2. BenchSpec => [][Kept]_benchVars
  BY <1>1, BenchInductiveInvariant, PTL DEF BenchSpec
<1> QED BY <1>2 DEF NoOverwrite, Kept
=============================================================================
