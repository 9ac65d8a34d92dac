----------------------------- MODULE KernelProofs -----------------------------
(***************************************************************************)
(* Proofs about the kernel modules, for any processes, any page size, any  *)
(* number of slots and any bounds: OldKArena first, then KArena.           *)
(***************************************************************************)
EXTENDS KArena, OldKArena, SequenceTheorems, FiniteSetTheorems, WellFoundedInduction, TLAPS

(* The structures are a sequence that a call appends to or changes in one  *)
(* place.                                                                  *)
LEMMA InfoFacts ==
  ASSUME OkaTypeOK
  PROVE  /\ infos \in Seq(Info) /\ Len(infos) \in Nat
         /\ \A i \in 1 .. Len(infos) :
              /\ infos[i] \in Info /\ infos[i].freed \in BOOLEAN
              /\ infos[i].cur \in Nat /\ infos[i].size \in Int
<1>1. infos \in Seq(Info)
  BY DEF OkaTypeOK
<1>2. \A i \in 1 .. Len(infos) : infos[i] \in Info
  BY <1>1
<1> QED
  BY <1>1, <1>2 DEF Info

LEMMA SetInfo ==
  ASSUME NEW s \in Seq(Info), NEW i \in 1 .. Len(s), NEW r \in Info,
         NEW u, u = [s EXCEPT ![i] = r]
  PROVE  /\ u \in Seq(Info) /\ Len(u) = Len(s)
         /\ \A j \in 1 .. Len(s) : u[j] = IF j = i THEN r ELSE s[j]
BY ExceptSeq

LEMMA ReplaceInfo ==
  ASSUME OkaTypeOK, NEW i \in 1 .. Len(infos), NEW r \in Info, infos' = [infos EXCEPT ![i] = r]
  PROVE  /\ infos' \in Seq(Info) /\ Len(infos') = Len(infos)
         /\ \A j \in 1 .. Len(infos) : infos'[j] = IF j = i THEN r ELSE infos[j]
BY SetInfo, InfoFacts

(* A position is moved.                                                    *)
LEMMA MoveFacts ==
  ASSUME OkaTypeOK, NEW i \in 1 .. Len(infos), NEW c \in Nat,
         infos' = [infos EXCEPT ![i].cur = c]
  PROVE  /\ infos' \in Seq(Info) /\ Len(infos') = Len(infos)
         /\ \A j \in 1 .. Len(infos) :
              /\ infos'[j].size = infos[j].size /\ infos'[j].for = infos[j].for
              /\ infos'[j].freed = infos[j].freed
              /\ infos'[j].cur = (IF j = i THEN c ELSE infos[j].cur)
<1>1. PICK r : r = [infos[i] EXCEPT !.cur = c]
  OBVIOUS
<1>2. /\ infos \in Seq(Info) /\ Len(infos) \in Nat
      /\ \A j \in 1 .. Len(infos) : infos[j] \in Info
  BY InfoFacts
<1>3. /\ r \in Info /\ r.size = infos[i].size /\ r.for = infos[i].for /\ r.cur = c
      /\ r.freed = infos[i].freed
  BY <1>1, <1>2 DEF Info
<1>4. infos' = [infos EXCEPT ![i] = r]
  BY <1>1
<1>5. /\ infos' \in Seq(Info) /\ Len(infos') = Len(infos)
      /\ \A j \in 1 .. Len(infos) : infos'[j] = IF j = i THEN r ELSE infos[j]
  BY <1>3, <1>4, ReplaceInfo, Zenon
<1>6. ASSUME NEW j \in 1 .. Len(infos)
      PROVE  /\ infos'[j].size = infos[j].size /\ infos'[j].for = infos[j].for
             /\ infos'[j].freed = infos[j].freed
             /\ infos'[j].cur = (IF j = i THEN c ELSE infos[j].cur)
  <2>1. CASE j = i
    BY <1>3, <1>5, <2>1
  <2>2. CASE j # i
    <3>1. infos'[j] = infos[j]
      BY <1>5, <2>2
    <3> QED
      BY <2>2, <3>1
  <2> QED
    BY <2>1, <2>2
<1> QED
  BY <1>5, <1>6

(* A structure is freed.                                                   *)
LEMMA FreeFacts ==
  ASSUME OkaTypeOK, NEW i \in 1 .. Len(infos), NEW r, r = [infos[i] EXCEPT !.freed = TRUE],
         infos' = [infos EXCEPT ![i] = r]
  PROVE  /\ infos' \in Seq(Info) /\ Len(infos') = Len(infos)
         /\ \A j \in 1 .. Len(infos) :
              /\ infos'[j].size = infos[j].size /\ infos'[j].for = infos[j].for
              /\ infos'[j].cur = infos[j].cur
              /\ j # i => infos'[j].freed = infos[j].freed
<1>1. /\ infos \in Seq(Info) /\ Len(infos) \in Nat
      /\ \A j \in 1 .. Len(infos) : infos[j] \in Info
  BY InfoFacts
<1>2. r \in Info /\ r.size = infos[i].size /\ r.for = infos[i].for /\ r.cur = infos[i].cur
  <2>1. PICK x : x = infos[i]
    OBVIOUS
  <2>2. x \in Info
    BY <1>1, <2>1
  <2>3. r = [x EXCEPT !.freed = TRUE]
    BY <2>1
  <2>4. r \in Info
    BY <2>2, <2>3, Zenon DEF Info
  <2>5. r.size = x.size /\ r.for = x.for /\ r.cur = x.cur
    BY <2>2, <2>3 DEF Info
  <2> QED
    BY <2>1, <2>4, <2>5
<1>3. /\ infos' \in Seq(Info) /\ Len(infos') = Len(infos)
      /\ \A j \in 1 .. Len(infos) : infos'[j] = IF j = i THEN r ELSE infos[j]
  BY <1>1, <1>2, SetInfo
<1>4. ASSUME NEW j \in 1 .. Len(infos)
      PROVE  /\ infos'[j].size = infos[j].size /\ infos'[j].for = infos[j].for
             /\ infos'[j].cur = infos[j].cur
             /\ j # i => infos'[j].freed = infos[j].freed
  <2>1. CASE j = i
    BY <1>2, <1>3, <2>1
  <2>2. CASE j # i
    <3>1. infos'[j] = infos[j]
      BY <1>3, <2>2
    <3> QED
      BY <3>1
  <2> QED
    BY <2>1, <2>2
<1> QED
  BY <1>3, <1>4

(* A structure is made.                                                    *)
LEMMA MakeFacts ==
  ASSUME OkaTypeOK, NEW p \in Procs, NEW z \in Int,
         infos' = Append(infos, [size |-> z, cur |-> 0, freed |-> FALSE, for |-> p])
  PROVE  /\ infos' \in Seq(Info) /\ Len(infos') = Len(infos) + 1 /\ Len(infos) \in Nat
         /\ \A j \in 1 .. Len(infos) : infos'[j] = infos[j]
         /\ infos'[Len(infos')].freed = FALSE /\ infos'[Len(infos')].for = p
<1>1. PICK r : r = [size |-> z, cur |-> 0, freed |-> FALSE, for |-> p]
  OBVIOUS
<1>2. r \in Info /\ r.freed = FALSE /\ r.for = p
  BY <1>1 DEF Info
<1>3. infos \in Seq(Info) /\ Len(infos) \in Nat
  BY InfoFacts
<1>4. /\ infos' \in Seq(Info) /\ Len(infos') = Len(infos) + 1
      /\ \A j \in 1 .. Len(infos) : infos'[j] = infos[j]
      /\ infos'[Len(infos) + 1] = r
  BY <1>1, <1>2, <1>3, AppendProperties
<1> QED
  BY <1>2, <1>3, <1>4

-----------------------------------------------------------------------------
Blocks(n) == [proc : Procs, info : 1 .. n, by : {"alloc", "reserve"}, lo : Nat, hi : Nat]
Vmas(n) == [proc : Procs, info : 1 .. n]

(* What the types say of mappings, blocks and processes.                   *)
LEMMA OldTypes ==
  ASSUME OkaTypeOK
  PROVE  /\ \A v \in vmas : v.proc \in Procs /\ v.info \in 1 .. Len(infos)
         /\ \A v \in vmas : v = [proc |-> v.proc, info |-> v.info]
         /\ \A b \in okaBlocks : /\ b.proc \in Procs /\ b.info \in 1 .. Len(infos)
                                 /\ b.lo \in Nat /\ b.hi \in Nat
         /\ okaBlocks \subseteq Blocks(Len(infos)) /\ vmas \subseteq Vmas(Len(infos))
         /\ okaProc \in [Procs -> OkaProcess] /\ mmapInfo \in 0 .. Len(infos)
         /\ shared \subseteq 1 .. Len(infos)
<1>1. okaBlocks \subseteq Blocks(Len(infos)) /\ vmas \subseteq Vmas(Len(infos))
  BY DEF OkaTypeOK, Blocks, Vmas
<1> QED
  BY <1>1 DEF OkaTypeOK, Blocks, Vmas

(* Before anything freed was used.                                         *)
LEMMA OldNow ==
  ASSUME OldBlocksBacked, ~okaCrashed
  PROVE  OkaTypeOK /\ Mapped /\ Backed /\ Apart
BY DEF OldBlocksBacked

(* A process about to map a structure of its own maps the one it made.     *)
LEMMA OwnIsLast ==
  ASSUME OkaTypeOK, Mapped, NEW p \in Procs, okaProc[p].at = "mmap", infos[mmapInfo].for = p
  PROVE  mmapInfo = okaProc[p].info /\ mmapInfo # 0 /\ mmapInfo \in 1 .. Len(infos)
<1>1. PICK i : i = okaProc[p].info
  OBVIOUS
<1>2. i \in 1 .. mmapInfo /\ \A j \in i + 1 .. Len(infos) : infos[j].for # p
  BY <1>1 DEF Mapped
<1>3. mmapInfo \in 0 .. Len(infos) /\ Len(infos) \in Nat
  BY OldTypes, InfoFacts
<1>4. mmapInfo \in i + 1 .. Len(infos) \/ mmapInfo = i
  BY <1>2, <1>3
<1> QED
  BY <1>1, <1>2, <1>3, <1>4

(* Structures stay those of their makers, and are freed by no step but     *)
(* one: what is mapped stays what it is.                                   *)
LEMMA MappedStays ==
  ASSUME OkaTypeOK, Mapped, UNCHANGED <<mmapInfo, okaProc, shared>>, vmas' \subseteq vmas,
         Len(infos') = Len(infos),
         \A j \in 1 .. Len(infos) : infos'[j].for = infos[j].for,
         NEW z, \A j \in 1 .. Len(infos) : j # z => infos'[j].freed = infos[j].freed,
         z \in shared \/ /\ \A v \in vmas' : v.info # z
                         /\ \A p \in Procs : okaProc[p].at = "mmap" => okaProc[p].info # z
  PROVE  Mapped'
<1>1. ASSUME NEW v \in vmas', v.info \notin shared
      PROVE  infos'[v.info].freed = FALSE /\ infos'[v.info].for = v.proc
  <2>1. v \in vmas /\ v.info \in 1 .. Len(infos) /\ v.info # z
    BY <1>1, OldTypes
  <2>2. infos[v.info].freed = FALSE /\ infos[v.info].for = v.proc
    BY <1>1, <2>1 DEF Mapped
  <2> QED
    BY <2>1, <2>2
<1>2. ASSUME NEW p \in Procs, okaProc[p].at = "mmap", NEW i, i = okaProc[p].info
      PROVE  /\ i \in 1 .. mmapInfo /\ infos'[i].for = p
             /\ i \notin shared => infos'[i].freed = FALSE
             /\ \A j \in i + 1 .. Len(infos) : infos'[j].for # p
  <2>1. /\ i \in 1 .. mmapInfo /\ infos[i].for = p
        /\ i \notin shared => infos[i].freed = FALSE
        /\ \A j \in i + 1 .. Len(infos) : infos[j].for # p
    BY <1>2 DEF Mapped
  <2>2. mmapInfo \in 0 .. Len(infos) /\ Len(infos) \in Nat
    BY OldTypes, InfoFacts
  <2>3. i \in 1 .. Len(infos) /\ \A j \in i + 1 .. Len(infos) : j \in 1 .. Len(infos)
    BY <2>1, <2>2
  <2>4. i \notin shared => i # z
    BY <1>2
  <2>5. infos'[i].for = p /\ (i \notin shared => infos'[i].freed = FALSE)
    BY <2>1, <2>3, <2>4
  <2>6. \A j \in i + 1 .. Len(infos) : infos'[j].for # p
    BY <2>1, <2>3
  <2> QED
    BY <2>1, <2>5, <2>6
<1>3. UNCHANGED <<mmapInfo, okaProc, shared>> /\ Len(infos') = Len(infos)
  OBVIOUS
<1>4. \A v \in vmas' : v.info \notin shared' =>
        infos'[v.info].freed = FALSE /\ infos'[v.info].for = v.proc
  BY <1>1, <1>3
<1>5. ASSUME NEW p \in Procs, okaProc'[p].at = "mmap"
      PROVE  LET i == okaProc'[p].info
             IN /\ i \in 1 .. mmapInfo' /\ infos'[i].for = p
                /\ i \notin shared' => infos'[i].freed = FALSE
                /\ \A j \in i + 1 .. Len(infos') : infos'[j].for # p
  <2>1. PICK i : i = okaProc[p].info
    OBVIOUS
  <2>2. okaProc[p].at = "mmap" /\ okaProc'[p] = okaProc[p]
    BY <1>3, <1>5
  <2>3. /\ i \in 1 .. mmapInfo /\ infos'[i].for = p
        /\ i \notin shared => infos'[i].freed = FALSE
        /\ \A j \in i + 1 .. Len(infos) : infos'[j].for # p
    BY <1>2, <2>1, <2>2, Zenon
  <2> QED
    BY <1>3, <2>1, <2>2, <2>3
<1> QED
  BY <1>4, <1>5 DEF Mapped

(* A call moves the position of a mapping the process has.                 *)
LEMMA CallKept ==
  ASSUME OldBlocksBacked, NEW p \in Procs, NEW v, OkaMay(p, v), OkaUses(v), NEW c \in Nat,
         infos' = [infos EXCEPT ![v.info].cur = c],
         UNCHANGED <<mmapInfo, vmas, okaProc, shared>>,
         okaBlocks' \subseteq Blocks(Len(infos)), ~okaCrashed' => Backed' /\ Apart'
  PROVE  OldBlocksBacked'
<1>1. OkaTypeOK /\ Mapped /\ Backed /\ Apart
  BY OldNow DEF OkaMay, OkaAt
<1>2. v \in vmas /\ v.info \in 1 .. Len(infos)
  BY <1>1, OldTypes DEF OkaMay
<1>3. /\ infos' \in Seq(Info) /\ Len(infos') = Len(infos)
      /\ \A j \in 1 .. Len(infos) :
           /\ infos'[j].size = infos[j].size /\ infos'[j].for = infos[j].for
           /\ infos'[j].freed = infos[j].freed
           /\ infos'[j].cur = (IF j = v.info THEN c ELSE infos[j].cur)
  BY <1>1, <1>2, MoveFacts
<1>4. OkaTypeOK'
  <2>1. okaCrashed' \in BOOLEAN
    BY <1>1, <1>2, InfoFacts DEF OkaUses
  <2> QED
    BY <1>1, <1>3, <2>1 DEF OkaTypeOK, Blocks
<1>5. okaCrashed' => shared # {}
  BY <1>1, <1>2 DEF OkaUses, Mapped
<1>6. Mapped'
  <2>1. PICK z : z \notin 1 .. Len(infos)
    BY <1>1, InfoFacts
  <2>2. \A q \in Procs : okaProc[q].at = "mmap" => okaProc[q].info # z
    <3>1. mmapInfo \in 0 .. Len(infos) /\ Len(infos) \in Nat
      BY <1>1, OldTypes, InfoFacts
    <3>2. \A n \in 1 .. mmapInfo : n \in 1 .. Len(infos)
      BY <3>1
    <3> QED
      BY <1>1, <2>1, <3>2 DEF Mapped
  <2>3. \A w \in vmas' : w.info # z
    BY <1>1, <2>1, OldTypes
  <2> QED
    BY <1>1, <1>3, <2>2, <2>3, MappedStays
<1> QED
  BY <1>4, <1>5, <1>6 DEF OldBlocksBacked

(* A block is taken at the position, above every other block.              *)
LEMMA TakeKept ==
  ASSUME OldBlocksBacked, NEW p \in Procs, NEW v, OkaMay(p, v), OkaUses(v), NEW size \in Nat,
         NEW by \in {"alloc", "reserve"}, by = "reserve" => OkaFits(v.info, size),
         OkaTake(v, by, size), UNCHANGED <<mmapInfo, vmas, okaProc, shared>>
  PROVE  OldBlocksBacked'
<1>1. OkaTypeOK /\ Mapped /\ Backed /\ Apart
  BY OldNow DEF OkaMay, OkaAt
<1>2. v \in vmas /\ v.info \in 1 .. Len(infos) /\ v.proc \in Procs /\ v = [proc |-> v.proc, info |-> v.info]
  BY <1>1, OldTypes DEF OkaMay
<1>3. PICK i : i = v.info /\ i \in 1 .. Len(infos)
  BY <1>2
<1>4. PICK c \in Nat : c = infos[i].cur + size
  BY <1>1, <1>3, InfoFacts
<1>5. PICK b : b = OkaBlock(v, by, size)
  OBVIOUS
<1>6. okaBlocks' = okaBlocks \cup {b} /\ infos' = [infos EXCEPT ![i].cur = c]
  BY <1>3, <1>4, <1>5 DEF OkaTake
<1>7. /\ infos' \in Seq(Info) /\ Len(infos') = Len(infos)
      /\ \A j \in 1 .. Len(infos) :
           /\ infos'[j].size = infos[j].size /\ infos'[j].for = infos[j].for
           /\ infos'[j].freed = infos[j].freed
           /\ infos'[j].cur = (IF j = i THEN c ELSE infos[j].cur)
  BY <1>1, <1>3, <1>6, MoveFacts
<1>8. /\ infos[i].cur \in Nat /\ b \in Blocks(Len(infos))
      /\ b.proc = v.proc /\ b.info = i /\ b.lo = infos[i].cur /\ b.hi = c /\ b.by = by
  BY <1>1, <1>2, <1>3, <1>4, <1>5, InfoFacts DEF OkaBlock, Blocks
<1>9. okaBlocks' \subseteq Blocks(Len(infos))
  BY <1>1, <1>6, <1>8, OldTypes
<1>10. ASSUME ~okaCrashed' PROVE Backed' /\ Apart'
  <2>1. infos[i].freed = FALSE
    BY <1>1, <1>3, <1>10, InfoFacts DEF OkaUses
  <2>2. ASSUME NEW x \in okaBlocks, x.info \notin shared
        PROVE  /\ [proc |-> x.proc, info |-> x.info] \in vmas /\ infos'[x.info].freed = FALSE
               /\ x.hi <= infos'[x.info].cur /\ (x.info = i => x.hi <= b.lo)
    <3>1. /\ [proc |-> x.proc, info |-> x.info] \in vmas
          /\ infos[x.info].freed = FALSE /\ x.hi <= infos[x.info].cur
      BY <1>1, <2>2 DEF Backed
    <3>2. x.info \in 1 .. Len(infos) /\ x.hi \in Nat /\ infos[x.info].cur \in Nat
      BY <1>1, OldTypes, InfoFacts
    <3>3. infos'[x.info].freed = FALSE
      BY <1>7, <3>1, <3>2
    <3>4. CASE x.info = i
      <4>1. infos'[x.info].cur = c /\ x.hi <= infos[i].cur
        BY <1>7, <3>1, <3>2, <3>4
      <4> QED
        BY <1>4, <1>8, <3>1, <3>2, <3>3, <4>1
    <3>5. CASE x.info # i
      BY <1>7, <3>1, <3>2, <3>3, <3>5
    <3> QED
      BY <3>4, <3>5
  <2>3. Backed'
    <3>1. ASSUME NEW x \in okaBlocks, x.by = "reserve" PROVE x.hi <= infos'[x.info].size
      <4>1. x.info \in 1 .. Len(infos) /\ x.hi <= infos[x.info].size
        BY <1>1, <3>1, OldTypes DEF Backed
      <4> QED
        BY <1>7, <4>1
    <3>2. b.by = "reserve" => b.hi <= infos'[b.info].size
      BY <1>3, <1>4, <1>7, <1>8 DEF OkaFits
    <3>3. [proc |-> b.proc, info |-> b.info] \in vmas
      BY <1>2, <1>3, <1>8
    <3>4. infos'[b.info].freed = FALSE /\ b.hi <= infos'[b.info].cur
      BY <1>3, <1>4, <1>7, <1>8, <2>1
    <3> QED
      BY <1>6, <2>2, <3>1, <3>2, <3>3, <3>4 DEF Backed
  <2>4. Apart'
    <3>1. \A x, y \in okaBlocks : x # y /\ x.info = y.info /\ x.info \notin shared =>
             x.hi <= y.lo \/ y.hi <= x.lo
      BY <1>1 DEF Apart
    <3>2. \A x \in okaBlocks' : x \in okaBlocks \/ x = b
      BY <1>6
    <3> SUFFICES ASSUME NEW x \in okaBlocks', NEW y \in okaBlocks', x # y, x.info = y.info,
                        x.info \notin shared
                 PROVE  x.hi <= y.lo \/ y.hi <= x.lo
      BY DEF Apart
    <3>3. CASE x = b
      BY <1>8, <2>2, <3>2, <3>3
    <3>4. CASE y = b
      BY <1>8, <2>2, <3>2, <3>4
    <3>5. CASE x # b /\ y # b
      BY <3>1, <3>2, <3>5
    <3> QED
      BY <3>3, <3>4, <3>5
  <2> QED
    BY <2>3, <2>4
<1> QED
  BY <1>3, <1>6, <1>9, <1>10, CallKept

(* The position moves down and the blocks above it are given up: all of the*)
(* structure's, when it is not shared.                                     *)
LEMMA MoveKept ==
  ASSUME OldBlocksBacked, NEW p \in Procs, NEW v, OkaMay(p, v), NEW pos \in Nat,
         OkaMoveTo(v, pos), UNCHANGED <<mmapInfo, vmas, okaProc, shared>>
  PROVE  OldBlocksBacked'
<1>1. OkaTypeOK /\ Mapped /\ Backed /\ Apart
  BY OldNow DEF OkaMay, OkaAt
<1>2. v \in vmas /\ v.info \in 1 .. Len(infos)
  BY <1>1, OldTypes DEF OkaMay
<1>3. infos' = [infos EXCEPT ![v.info].cur = pos] /\ OkaUses(v)
  BY DEF OkaMoveTo
<1>4. /\ infos' \in Seq(Info) /\ Len(infos') = Len(infos)
      /\ \A j \in 1 .. Len(infos) :
           /\ infos'[j].size = infos[j].size /\ infos'[j].for = infos[j].for
           /\ infos'[j].freed = infos[j].freed
           /\ infos'[j].cur = (IF j = v.info THEN pos ELSE infos[j].cur)
  BY <1>1, <1>2, <1>3, MoveFacts
<1>5. /\ okaBlocks' \subseteq okaBlocks
      /\ \A b \in okaBlocks' : b.proc = v.proc /\ b.info = v.info => b.hi <= pos
  BY DEF OkaMoveTo
<1>6. ASSUME NEW b \in okaBlocks'
      PROVE  /\ b.by = "reserve" => b.hi <= infos'[b.info].size
             /\ b.info \notin shared => /\ [proc |-> b.proc, info |-> b.info] \in vmas
                                        /\ infos'[b.info].freed = FALSE
                                        /\ b.hi <= infos'[b.info].cur
  <2>1. b \in okaBlocks /\ b.info \in 1 .. Len(infos)
    BY <1>1, <1>5, OldTypes
  <2>2. b.by = "reserve" => b.hi <= infos'[b.info].size
    BY <1>1, <1>4, <2>1 DEF Backed
  <2>3. ASSUME b.info \notin shared
        PROVE  /\ [proc |-> b.proc, info |-> b.info] \in vmas
               /\ infos'[b.info].freed = FALSE /\ b.hi <= infos'[b.info].cur
    <3>1. /\ [proc |-> b.proc, info |-> b.info] \in vmas
          /\ infos[b.info].freed = FALSE /\ b.hi <= infos[b.info].cur
      BY <1>1, <2>1, <2>3 DEF Backed
    <3>2. infos'[b.info].freed = FALSE
      BY <1>4, <2>1, <3>1
    <3>3. CASE b.info = v.info
      <4>1. PICK w \in vmas : w = [proc |-> b.proc, info |-> b.info]
        BY <3>1
      <4>2. w.proc = b.proc /\ w.info = b.info
        BY <4>1
      <4>3. infos[w.info].for = w.proc /\ infos[v.info].for = v.proc
        BY <1>1, <1>2, <2>3, <3>3, <4>2 DEF Mapped
      <4>4. b.proc = v.proc
        BY <3>3, <4>2, <4>3
      <4> QED
        BY <1>4, <1>5, <2>1, <3>1, <3>2, <3>3, <4>4
    <3>4. CASE b.info # v.info
      BY <1>4, <2>1, <3>1, <3>2, <3>4
    <3> QED
      BY <3>3, <3>4
  <2> QED
    BY <2>2, <2>3
<1>7. Backed'
  BY <1>6 DEF Backed
<1>8. Apart'
  BY <1>1, <1>5 DEF Apart
<1>9. okaBlocks' \subseteq Blocks(Len(infos))
  BY <1>1, <1>5, OldTypes
<1> QED
  BY <1>3, <1>7, <1>8, <1>9, CallKept

(* Sizes are rounded to whole numbers of bytes.                            *)
LEMMA AlignFacts ==
  ASSUME NEW n \in Nat
  PROVE  PAGE_ALIGN(n) \in Int
<1>1. Page \in Nat \ {0}
  BY KernelAssumption
<1>2. (n + Page - 1) \div Page \in Int
  BY <1>1
<1> QED
  BY <1>1, <1>2 DEF PAGE_ALIGN

(* A process that is not about to map changes its own state only; what it  *)
(* leaves, it leaves with all its blocks.                                  *)
LEMMA ProcKept ==
  ASSUME OldBlocksBacked, ~okaCrashed, NEW p \in Procs, NEW r \in OkaProcess, r.at # "mmap",
         r.at # "idle" => r.file = "open", okaProc' = [okaProc EXCEPT ![p] = r],
         \/ UNCHANGED <<vmas, okaBlocks>>
         \/ /\ vmas' = {v \in vmas : v.proc # p}
            /\ okaBlocks' = {b \in okaBlocks : b.proc # p},
         UNCHANGED <<infos, mmapInfo, okaCrashed, shared>>
  PROVE  OldBlocksBacked'
<1>1. OkaTypeOK /\ Mapped /\ Backed /\ Apart
  BY OldNow
<1>2. okaProc \in [Procs -> OkaProcess]
  BY <1>1, OldTypes
<1>3. /\ okaProc' \in [Procs -> OkaProcess] /\ okaProc'[p] = r
      /\ \A q \in Procs : q # p => okaProc'[q] = okaProc[q]
  BY <1>2
<1>4. vmas' \subseteq vmas /\ okaBlocks' \subseteq okaBlocks
  OBVIOUS
<1>5. OkaTypeOK'
  <2>1. okaCrashed' \in BOOLEAN /\ \A q \in Procs : okaProc'[q].at # "idle" => okaProc'[q].file = "open"
    BY <1>1, <1>3 DEF OkaTypeOK
  <2> QED
    BY <1>1, <1>3, <1>4, <2>1 DEF OkaTypeOK
<1>6. Mapped'
  <2>1. \A q \in Procs : okaProc'[q].at = "mmap" => okaProc'[q] = okaProc[q]
    BY <1>3
  <2> QED
    BY <1>1, <1>4, <2>1 DEF Mapped
<1>7. Backed'
  <2>1. ASSUME NEW b \in okaBlocks', [proc |-> b.proc, info |-> b.info] \in vmas
        PROVE  [proc |-> b.proc, info |-> b.info] \in vmas'
    BY <2>1
  <2> QED
    BY <1>1, <1>4, <2>1 DEF Backed
<1>8. Apart'
  BY <1>1, <1>4 DEF Apart
<1> QED
  BY <1>5, <1>6, <1>7, <1>8 DEF OldBlocksBacked

LEMMA CreateKept ==
  ASSUME OldBlocksBacked, NEW p \in Procs, NEW size \in Sizes, oka_create(p, size)
  PROVE  OldBlocksBacked'
<1>1. PICK r : r = [at |-> "ioctl", file |-> "open", info |-> 0, size |-> PAGE_ALIGN(size)]
  OBVIOUS
<1>2. PAGE_ALIGN(size) \in Int
  BY KernelAssumption, AlignFacts DEF Sizes
<1>3. r \in OkaProcess /\ r.at # "mmap" /\ r.file = "open"
  BY <1>1, <1>2 DEF OkaProcess
<1>4. okaProc' = [okaProc EXCEPT ![p] = r]
  BY <1>1 DEF oka_create
<1>5. ~okaCrashed /\ UNCHANGED <<infos, mmapInfo, vmas, okaBlocks, okaCrashed, shared>>
  BY DEF oka_create, OkaAt
<1> QED
  BY <1>3, <1>4, <1>5, ProcKept

(* The process whose create or life has ended.                             *)
LEMMA ClosedFacts ==
  /\ [OkaIdle EXCEPT !.file = "closed"] \in OkaProcess
  /\ [OkaIdle EXCEPT !.file = "closed"].at = "idle"
  /\ [OkaIdle EXCEPT !.file = "open"] \in OkaProcess
  /\ [OkaIdle EXCEPT !.file = "open"].at = "idle"
BY DEF OkaIdle, OkaProcess

(* The ioctl makes a structure for the caller, or fails.                   *)
LEMMA IoctlKept ==
  ASSUME OldBlocksBacked, NEW p \in Procs, OkaIoctlCreate(p)
  PROVE  OldBlocksBacked'
<1>1. /\ ~okaCrashed /\ UNCHANGED <<vmas, okaBlocks, okaCrashed, shared>>
      /\ okaProc[p].at = "ioctl"
  BY DEF OkaIoctlCreate, OkaAt
<1>2. OkaTypeOK /\ Mapped /\ Backed /\ Apart
  BY <1>1, OldNow
<1>3. CASE /\ okaProc' = [okaProc EXCEPT ![p] = [OkaIdle EXCEPT !.file = "closed"]]
           /\ UNCHANGED <<infos, mmapInfo>>
  <2>1. PICK r : r = [OkaIdle EXCEPT !.file = "closed"]
    OBVIOUS
  <2>2. r \in OkaProcess /\ r.at = "idle"
    BY <2>1, ClosedFacts
  <2>3. okaProc' = [okaProc EXCEPT ![p] = r]
    BY <1>3, <2>1
  <2> QED
    BY <1>1, <1>3, <2>2, <2>3, ProcKept
<1>4. CASE /\ infos' = Append(infos, [size |-> okaProc[p].size, cur |-> 0,
                                      freed |-> FALSE, for |-> p])
           /\ mmapInfo' = Len(infos')
           /\ okaProc' = [okaProc EXCEPT ![p].at = "mmap", ![p].info = Len(infos')]
  <2>1. okaProc \in [Procs -> OkaProcess] /\ okaProc[p].file = "open"
    BY <1>1, <1>2 DEF OkaTypeOK
  <2>2. okaProc[p].size \in Int
    BY <2>1 DEF OkaProcess
  <2>3. /\ infos' \in Seq(Info) /\ Len(infos') = Len(infos) + 1 /\ Len(infos) \in Nat
        /\ \A j \in 1 .. Len(infos) : infos'[j] = infos[j]
        /\ infos'[Len(infos')].freed = FALSE /\ infos'[Len(infos')].for = p
    BY <1>2, <1>4, <2>2, MakeFacts
  <2>4. PICK m, n \in Nat : m = Len(infos) /\ n = Len(infos') /\ n = m + 1
    BY <2>3
  <2>5. /\ okaProc' \in [Procs -> OkaProcess]
        /\ \A q \in Procs : q # p => okaProc'[q] = okaProc[q]
        /\ okaProc'[p].info = n /\ okaProc'[p].file = "open"
    <3>1. okaProc' = [okaProc EXCEPT ![p].at = "mmap", ![p].info = n]
      BY <1>4, <2>4
    <3>2. PICK x : x = okaProc[p]
      OBVIOUS
    <3>3. PICK y : y = [x EXCEPT !.at = "mmap", !.info = n]
      OBVIOUS
    <3>4. x \in OkaProcess
      BY <2>1, <3>2
    <3>5. y \in OkaProcess /\ y.info = n /\ y.file = x.file
      BY <3>3, <3>4 DEF OkaProcess
    <3>6. okaProc' = [okaProc EXCEPT ![p] = y]
      BY <3>1, <3>2, <3>3
    <3> HIDE <1>4
    <3> QED
      BY <2>1, <3>2, <3>5, <3>6
  <2>6. OkaTypeOK'
    <3>1. okaBlocks \subseteq Blocks(m) /\ vmas \subseteq Vmas(m) /\ shared \subseteq 1 .. m
      BY <1>2, <2>4, OldTypes
    <3>2. 1 .. m \subseteq 1 .. n
      BY <2>4
    <3>3. okaBlocks' \subseteq Blocks(n) /\ vmas' \subseteq Vmas(n) /\ shared' \subseteq 1 .. n
      BY <1>1, <3>1, <3>2 DEF Blocks, Vmas
    <3>4. okaCrashed' \in BOOLEAN
      BY <1>1, <1>2 DEF OkaTypeOK
    <3>5. mmapInfo' \in 0 .. n
      BY <1>4, <2>4
    <3>6. \A q \in Procs : okaProc'[q].at # "idle" => okaProc'[q].file = "open"
      BY <1>2, <2>5 DEF OkaTypeOK
    <3> QED
      BY <2>3, <2>4, <2>5, <3>3, <3>4, <3>5, <3>6 DEF OkaTypeOK, Blocks, Vmas
  <2>7. Mapped'
    <3>1. ASSUME NEW v \in vmas', v.info \notin shared
          PROVE  infos'[v.info].freed = FALSE /\ infos'[v.info].for = v.proc
      <4>1. v \in vmas /\ v.info \in 1 .. Len(infos)
        BY <1>1, <1>2, <3>1, OldTypes
      <4> QED
        BY <1>2, <2>3, <3>1, <4>1 DEF Mapped
    <3>2. ASSUME NEW q \in Procs, okaProc'[q].at = "mmap", NEW i, i = okaProc'[q].info
          PROVE  /\ i \in 1 .. n /\ infos'[i].for = q
                 /\ i \notin shared => infos'[i].freed = FALSE
                 /\ \A j \in i + 1 .. n : infos'[j].for # q
      <4>1. CASE q = p
        <5>1. i = n
          BY <2>5, <3>2, <4>1
        <5>2. infos'[n].freed = FALSE /\ infos'[n].for = p
          BY <2>3, <2>4
        <5>3. i \in 1 .. n /\ \A j \in i + 1 .. n : FALSE
          BY <2>4, <5>1
        <5> QED
          BY <4>1, <5>1, <5>2, <5>3
      <4>2. CASE q # p
        <5>1. okaProc[q].at = "mmap" /\ i = okaProc[q].info
          BY <2>5, <3>2, <4>2
        <5>2. /\ i \in 1 .. mmapInfo /\ infos[i].for = q
              /\ i \notin shared => infos[i].freed = FALSE
              /\ \A j \in i + 1 .. Len(infos) : infos[j].for # q
          BY <1>2, <5>1 DEF Mapped
        <5>3. mmapInfo \in 0 .. m
          BY <1>2, <2>4, OldTypes
        <5>4. i \in 1 .. m /\ i \in 1 .. n
          BY <2>4, <5>2, <5>3
        <5>5. infos'[i] = infos[i]
          BY <2>3, <2>4, <5>4
        <5>6. ASSUME NEW j \in i + 1 .. n PROVE infos'[j].for # q
          <6>1. j = n \/ (j \in i + 1 .. m /\ j \in 1 .. m)
            BY <2>4, <5>4
          <6>2. infos'[n].for = p
            BY <2>3, <2>4
          <6>3. CASE j = n
            BY <4>2, <6>2, <6>3
          <6>4. CASE j \in i + 1 .. m /\ j \in 1 .. m
            BY <2>3, <2>4, <5>2, <6>4
          <6> QED
            BY <6>1, <6>3, <6>4
        <5> QED
          BY <5>2, <5>4, <5>5, <5>6
      <4> QED
        BY <4>1, <4>2
    <3>3. mmapInfo' = n /\ Len(infos') = n /\ shared' = shared
      BY <1>1, <1>4, <2>4
    <3>4. \A v \in vmas' : v.info \notin shared' =>
            infos'[v.info].freed = FALSE /\ infos'[v.info].for = v.proc
      BY <3>1, <3>3
    <3>5. ASSUME NEW q \in Procs, okaProc'[q].at = "mmap"
          PROVE  LET i == okaProc'[q].info
                 IN /\ i \in 1 .. mmapInfo' /\ infos'[i].for = q
                    /\ i \notin shared' => infos'[i].freed = FALSE
                    /\ \A j \in i + 1 .. Len(infos') : infos'[j].for # q
      <4>1. PICK i : i = okaProc'[q].info
        OBVIOUS
      <4> QED
        BY <3>2, <3>3, <3>5, <4>1
    <3> HIDE <1>4
    <3> QED
      BY <3>4, <3>5 DEF Mapped
  <2>8. Backed'
    <3>1. \A b \in okaBlocks : infos'[b.info] = infos[b.info]
      BY <1>2, <2>3, OldTypes
    <3> QED
      BY <1>1, <1>2, <3>1 DEF Backed
  <2>9. Apart'
    BY <1>1, <1>2 DEF Apart
  <2> QED
    BY <1>1, <2>6, <2>7, <2>8, <2>9 DEF OldBlocksBacked
<1> QED
  BY <1>3, <1>4 DEF OkaIoctlCreate

(* The mmap takes the structure made last: the one this process has made,  *)
(* or one that is shared from now on.                                      *)
LEMMA MmapKept ==
  ASSUME OldBlocksBacked, NEW p \in Procs, OkaMmap(p)
  PROVE  OldBlocksBacked'
<1>1. /\ ~okaCrashed /\ UNCHANGED <<infos, mmapInfo, okaBlocks>> /\ okaProc[p].at = "mmap"
      /\ okaCrashed' = (mmapInfo # 0 /\ infos[mmapInfo].freed)
  BY DEF OkaMmap, OkaAt
<1>2. OkaTypeOK /\ Mapped /\ Backed /\ Apart
  BY <1>1, OldNow
<1>3. CASE /\ okaProc' = [okaProc EXCEPT ![p] = [OkaIdle EXCEPT !.file = "closed"]]
           /\ UNCHANGED <<vmas, shared>> /\ okaCrashed' = FALSE
  <2>1. PICK r : r = [OkaIdle EXCEPT !.file = "closed"]
    OBVIOUS
  <2>2. r \in OkaProcess /\ r.at = "idle"
    BY <2>1, ClosedFacts
  <2>3. okaProc' = [okaProc EXCEPT ![p] = r]
    BY <1>3, <2>1
  <2>4. okaCrashed' = okaCrashed
    BY <1>1, <1>2, <1>3 DEF OkaTypeOK
  <2> QED
    BY <1>1, <1>3, <2>2, <2>3, <2>4, ProcKept
<1>4. ASSUME okaProc' = [okaProc EXCEPT ![p] = [OkaIdle EXCEPT !.file = "open"]],
             vmas' = vmas \cup {[proc |-> p, info |-> mmapInfo]}, mmapInfo # 0,
             shared' = IF infos[mmapInfo].for = p THEN shared ELSE shared \cup {mmapInfo}
      PROVE  OldBlocksBacked'
  <2>0. PICK v : v = [proc |-> p, info |-> mmapInfo]
    OBVIOUS
  <2>1. v = [proc |-> p, info |-> mmapInfo] /\ v.proc = p /\ v.info = mmapInfo
    BY <2>0
  <2>2. PICK r \in OkaProcess : okaProc' = [okaProc EXCEPT ![p] = r] /\ r.at = "idle"
    BY <1>4, ClosedFacts
  <2>3. okaProc \in [Procs -> OkaProcess] /\ mmapInfo \in 0 .. Len(infos) /\ Len(infos) \in Nat
    BY <1>2, OldTypes, InfoFacts
  <2>4. /\ okaProc' \in [Procs -> OkaProcess] /\ okaProc'[p].at = "idle"
        /\ \A q \in Procs : q # p => okaProc'[q] = okaProc[q]
    BY <2>2, <2>3
  <2>5. mmapInfo \in 1 .. Len(infos) /\ infos[mmapInfo].freed \in BOOLEAN
    BY <1>2, <1>4, <2>3, InfoFacts
  <2>6. OkaTypeOK'
    <3>1. vmas \subseteq Vmas(Len(infos)) /\ shared \subseteq 1 .. Len(infos)
      BY <1>2, OldTypes
    <3>2. v \in Vmas(Len(infos))
      BY <2>1, <2>5 DEF Vmas
    <3>3. vmas' \subseteq Vmas(Len(infos)) /\ shared' \subseteq 1 .. Len(infos)
      BY <1>4, <2>1, <2>5, <3>1, <3>2
    <3>4. \A q \in Procs : okaProc'[q].at # "idle" => okaProc'[q].file = "open"
      BY <1>2, <2>4 DEF OkaTypeOK
    <3>5. okaCrashed' \in BOOLEAN
      BY <1>1
    <3> QED
      BY <1>1, <1>2, <2>4, <3>3, <3>4, <3>5 DEF OkaTypeOK, Vmas
  <2>7. okaCrashed' => shared' # {}
    <3> SUFFICES ASSUME infos[mmapInfo].freed, infos[mmapInfo].for = p PROVE shared' # {}
      BY <1>1, <1>4
    <3>1. mmapInfo = okaProc[p].info
      BY <1>1, <1>2, OwnIsLast
    <3>2. okaProc[p].info \notin shared => infos[okaProc[p].info].freed = FALSE
      BY <1>1, <1>2 DEF Mapped
    <3> QED
      BY <1>4, <3>1, <3>2
  <2>8. ASSUME ~okaCrashed' PROVE Mapped'
    <3>1. infos[mmapInfo].freed = FALSE
      BY <1>1, <1>4, <2>5, <2>8
    <3>2. \A w \in vmas' : w \in vmas \/ w = v
      BY <1>4, <2>1
    <3>3. \A w \in vmas' : w.info \notin shared' =>
              infos'[w.info].freed = FALSE /\ infos'[w.info].for = w.proc
      BY <1>1, <1>2, <1>4, <2>1, <3>1, <3>2 DEF Mapped
    <3>4. \A q \in Procs : okaProc'[q].at = "mmap" => okaProc'[q] = okaProc[q]
      BY <2>4
    <3>5. shared \subseteq shared'
      BY <1>4
    <3> QED
      BY <1>1, <1>2, <3>3, <3>4, <3>5 DEF Mapped
  <2>9. Backed' /\ Apart'
    BY <1>1, <1>2, <1>4 DEF Backed, Apart
  <2> QED
    BY <2>6, <2>7, <2>8, <2>9 DEF OldBlocksBacked
<1> QED
  BY <1>1, <1>3, <1>4 DEF OkaMmap

(* What is freed is mapped nowhere else and about to be mapped by nobody,  *)
(* or it is shared.                                                        *)
LEMMA OldDestroyKept ==
  ASSUME OldBlocksBacked, NEW p \in Procs, NEW v \in vmas, oka_destroy(p, v)
  PROVE  OldBlocksBacked'
<1>1. /\ ~okaCrashed /\ v.proc = p /\ okaProc[p].at = "idle"
      /\ UNCHANGED <<mmapInfo, okaProc, shared>> /\ okaCrashed' = infos[v.info].freed
      /\ okaBlocks' = {b \in okaBlocks : ~(b.proc = p /\ b.info = v.info)} /\ vmas' = vmas \ {v}
  BY DEF oka_destroy, OkaMay, OkaAt, OkaUses
<1>2. OkaTypeOK /\ Mapped /\ Backed /\ Apart
  BY <1>1, OldNow
<1>3. v.info \in 1 .. Len(infos) /\ vmas \subseteq Vmas(Len(infos)) /\ okaBlocks \subseteq Blocks(Len(infos))
  BY <1>2, OldTypes
<1>4. PICK r : r = [infos[v.info] EXCEPT !.freed = TRUE]
  OBVIOUS
<1>5. infos' = [infos EXCEPT ![v.info] = r]
  BY <1>4 DEF oka_destroy
<1>6. /\ infos' \in Seq(Info) /\ Len(infos') = Len(infos)
      /\ \A j \in 1 .. Len(infos) :
           /\ infos'[j].size = infos[j].size /\ infos'[j].for = infos[j].for
           /\ infos'[j].cur = infos[j].cur
           /\ j # v.info => infos'[j].freed = infos[j].freed
  BY <1>2, <1>3, <1>4, <1>5, FreeFacts
<1>7. okaCrashed' \in BOOLEAN /\ (okaCrashed' => shared' # {})
  BY <1>1, <1>2, <1>3, InfoFacts DEF Mapped
<1>8. OkaTypeOK'
  <2>1. vmas' \subseteq Vmas(Len(infos')) /\ okaBlocks' \subseteq Blocks(Len(infos'))
    BY <1>1, <1>3, <1>6
  <2> QED
    BY <1>1, <1>2, <1>6, <1>7, <2>1 DEF OkaTypeOK, Vmas, Blocks
<1>9. ASSUME v.info \notin shared, NEW w \in vmas', w.info \notin shared PROVE w.info # v.info
  <2>1. w \in vmas /\ w # v
    BY <1>1, <1>9
  <2>2. infos[w.info].for = w.proc /\ infos[v.info].for = v.proc
    BY <1>2, <1>9, <2>1 DEF Mapped
  <2>3. w = [proc |-> w.proc, info |-> w.info] /\ v = [proc |-> v.proc, info |-> v.info]
    BY <1>2, <2>1, OldTypes
  <2> QED
    BY <2>1, <2>2, <2>3
<1>10. Mapped'
  <2>1. ASSUME v.info \notin shared
        PROVE  /\ \A w \in vmas' : w.info # v.info
               /\ \A q \in Procs : okaProc[q].at = "mmap" => okaProc[q].info # v.info
    <3>1. \A w \in vmas' : w.info # v.info
      BY <1>9, <2>1
    <3>2. ASSUME NEW q \in Procs, okaProc[q].at = "mmap", okaProc[q].info = v.info PROVE FALSE
      <4>1. infos[v.info].for = q /\ infos[v.info].for = p
        BY <1>1, <1>2, <2>1, <3>2 DEF Mapped
      <4> QED
        BY <1>1, <3>2, <4>1
    <3> QED
      BY <3>1, <3>2
  <2>2. vmas' \subseteq vmas
    BY <1>1
  <2> QED
    BY <1>1, <1>2, <1>6, <2>1, <2>2, MappedStays
<1>11. ASSUME NEW b \in okaBlocks'
       PROVE  /\ b.by = "reserve" => b.hi <= infos'[b.info].size
              /\ b.info \notin shared => /\ [proc |-> b.proc, info |-> b.info] \in vmas'
                                         /\ infos'[b.info].freed = FALSE
                                         /\ b.hi <= infos'[b.info].cur
  <2>1. b \in okaBlocks /\ b.info \in 1 .. Len(infos) /\ ~(b.proc = p /\ b.info = v.info)
    BY <1>1, <1>2, OldTypes
  <2>2. b.by = "reserve" => b.hi <= infos'[b.info].size
    BY <1>2, <1>6, <2>1 DEF Backed
  <2>3. ASSUME b.info \notin shared
        PROVE  /\ [proc |-> b.proc, info |-> b.info] \in vmas'
               /\ infos'[b.info].freed = FALSE /\ b.hi <= infos'[b.info].cur
    <3>1. /\ [proc |-> b.proc, info |-> b.info] \in vmas
          /\ infos[b.info].freed = FALSE /\ b.hi <= infos[b.info].cur
      BY <1>2, <2>1, <2>3 DEF Backed
    <3>0. PICK w : w = [proc |-> b.proc, info |-> b.info]
      OBVIOUS
    <3>2. w = [proc |-> b.proc, info |-> b.info] /\ w.proc = b.proc /\ w.info = b.info
      BY <3>0
    <3>3. w # v
      BY <1>1, <2>1, <3>2
    <3>4. w \in vmas'
      BY <1>1, <3>1, <3>2, <3>3
    <3>5. b.info # v.info
      <4>1. v.info \notin shared => b.info # v.info
        BY <1>9, <2>3, <3>2, <3>4
      <4> QED
        BY <2>3, <4>1
    <3> QED
      BY <1>6, <2>1, <3>1, <3>2, <3>4, <3>5
  <2> QED
    BY <2>2, <2>3
<1>12. Backed'
  BY <1>1, <1>11 DEF Backed
<1>13. Apart'
  BY <1>1, <1>2 DEF Apart
<1> QED
  BY <1>7, <1>8, <1>10, <1>12, <1>13 DEF OldBlocksBacked

(* A process ends.                                                         *)
LEMMA OldExitKept ==
  ASSUME OldBlocksBacked, NEW p \in Procs, OkaProcessExits(p)
  PROVE  OldBlocksBacked'
<1>1. PICK r : r = [OkaIdle EXCEPT !.file = "closed"]
  OBVIOUS
<1>2. r \in OkaProcess /\ r.at = "idle"
  BY <1>1, ClosedFacts
<1>3. okaProc' = [okaProc EXCEPT ![p] = r]
  BY <1>1 DEF OkaProcessExits
<1>4. /\ vmas' = {v \in vmas : v.proc # p} /\ okaBlocks' = {b \in okaBlocks : b.proc # p}
      /\ ~okaCrashed /\ UNCHANGED <<infos, mmapInfo, okaCrashed, shared>>
  BY DEF OkaProcessExits
<1> QED
  BY <1>2, <1>3, <1>4, ProcKept

(* A step that changes no more than the shared pointer, with nobody about  *)
(* to use it.                                                              *)
LEMMA OldSame ==
  ASSUME OldBlocksBacked, mmapInfo' \in 0 .. Len(infos),
         UNCHANGED mmapInfo \/ \A p \in Procs : okaProc[p].at # "mmap",
         UNCHANGED <<infos, vmas, okaProc, okaBlocks, okaCrashed, shared>>
  PROVE  OldBlocksBacked'
<1>1. OkaTypeOK'
  BY DEF OldBlocksBacked, OkaTypeOK
<1>2. ASSUME ~okaCrashed
      PROVE  Mapped' /\ Backed' /\ Apart'
  <2>1. Mapped /\ Backed /\ Apart
    BY <1>2, OldNow
  <2>2. Mapped'
    BY <2>1 DEF Mapped
  <2> QED
    BY <2>1, <2>2 DEF Backed, Apart
<1> QED
  BY <1>1, <1>2 DEF OldBlocksBacked

LEMMA OldNext ==
  OldBlocksBacked /\ [OkaNext]_<<registered, okaVars>> => OldBlocksBacked'
<1> SUFFICES ASSUME OldBlocksBacked, [OkaNext]_<<registered, okaVars>>
             PROVE  OldBlocksBacked'
  OBVIOUS
<1>1. OkaTypeOK /\ mmapInfo \in 0 .. Len(infos) /\ 0 \in 0 .. Len(infos)
  <2>1. OkaTypeOK
    BY DEF OldBlocksBacked
  <2>2. Len(infos) \in Nat
    BY <2>1, InfoFacts
  <2> QED
    BY <2>1, <2>2, OldTypes
<1>2. CASE OkaModuleLoads \/ UNCHANGED <<registered, okaVars>>
  <2>1. UNCHANGED okaVars
    BY <1>2 DEF OkaModuleLoads
  <2>2. UNCHANGED <<infos, mmapInfo, vmas, okaProc, okaBlocks, okaCrashed, shared>>
    BY <2>1 DEF okaVars
  <2> QED
    BY <1>1, <2>2, OldSame
<1>3. CASE OkaModuleUnloads
  <2>1. /\ mmapInfo' = 0 /\ \A p \in Procs : okaProc[p].file # "open"
        /\ UNCHANGED <<infos, vmas, okaProc, okaBlocks, okaCrashed, shared>>
    BY <1>3 DEF OkaModuleUnloads
  <2>2. \A p \in Procs : okaProc[p].at # "mmap"
    BY <1>1, <2>1 DEF OkaTypeOK
  <2> QED
    BY <1>1, <2>1, <2>2, OldSame
<1>4. ASSUME NEW p \in Procs, NEW v \in vmas, NEW size \in Sizes,
             \/ oka_alloc(p, v, size) \/ oka_reserve(p, v, size)
             \/ oka_seek(p, v, size) \/ oka_pop(p, v, size)
      PROVE  OldBlocksBacked'
  <2>1. PICK i \in 1 .. Len(infos) : i = v.info
    BY <1>1, OldTypes
  <2>2. size \in Nat /\ infos[i].cur \in Nat /\ infos[i].size \in Int
    BY <1>1, KernelAssumption, InfoFacts DEF Sizes
  <2>3. OkaMay(p, v) /\ UNCHANGED <<mmapInfo, vmas, okaProc, shared>>
    BY <1>4 DEF oka_alloc, oka_reserve, oka_seek, oka_pop
  <2>4. CASE oka_alloc(p, v, size)
    <3>1. OkaUses(v) /\ OkaTake(v, "alloc", size)
      BY <2>4 DEF oka_alloc
    <3> QED
      BY <2>2, <2>3, <3>1, TakeKept
  <2>5. CASE oka_reserve(p, v, size)
    <3>1. /\ OkaUses(v)
          /\ \/ OkaFits(v.info, size) /\ OkaTake(v, "reserve", size)
             \/ UNCHANGED <<infos, okaBlocks>>
      BY <2>5 DEF oka_reserve
    <3>2. CASE OkaFits(v.info, size) /\ OkaTake(v, "reserve", size)
      BY <2>2, <2>3, <3>1, <3>2, TakeKept
    <3>3. CASE UNCHANGED <<infos, okaBlocks>>
      <4>1. /\ Mapped /\ Backed /\ Apart /\ okaCrashed' = infos[v.info].freed
        BY <2>3, <3>1, OldNow DEF OkaMay, OkaAt, OkaUses
      <4>2. okaCrashed' \in BOOLEAN /\ (okaCrashed' => shared' # {})
        BY <1>1, <2>1, <2>3, <4>1, InfoFacts DEF Mapped
      <4>3. OkaTypeOK'
        BY <1>1, <2>3, <3>3, <4>2 DEF OkaTypeOK
      <4>4. Mapped' /\ Backed' /\ Apart'
        BY <2>3, <3>3, <4>1 DEF Mapped, Backed, Apart
      <4> QED
        BY <4>2, <4>3, <4>4 DEF OldBlocksBacked
    <3> QED
      BY <3>1, <3>2, <3>3
  <2>6. CASE oka_seek(p, v, size)
    <3>1. OkaMoveTo(v, size)
      BY <2>6 DEF oka_seek
    <3> QED
      BY <2>2, <2>3, <3>1, MoveKept
  <2>7. CASE oka_pop(p, v, size)
    <3>1. PICK pos : pos = infos[i].cur - size
      OBVIOUS
    <3>2. infos[i].cur >= size /\ OkaMoveTo(v, pos)
      BY <2>1, <2>7, <3>1 DEF oka_pop
    <3>3. pos \in Nat
      BY <2>2, <3>1, <3>2
    <3> QED
      BY <2>3, <3>2, <3>3, MoveKept
  <2> QED
    BY <1>4, <2>4, <2>5, <2>6, <2>7
<1>5. ASSUME NEW p \in Procs,
             \/ OkaIoctlCreate(p) \/ OkaMmap(p) \/ OkaProcessExits(p)
             \/ \E size \in Sizes : oka_create(p, size)
             \/ \E v \in vmas : oka_destroy(p, v)
      PROVE  OldBlocksBacked'
  BY <1>5, IoctlKept, MmapKept, OldExitKept, CreateKept, OldDestroyKept
<1> QED
  BY <1>2, <1>3, <1>4, <1>5 DEF OkaNext

(* Of okarena.c, for any number of processes, arenas and bytes: what       *)
(* oka_reserve gives is inside the memory of its arena; the blocks of a    *)
(* structure that only its maker has mapped are apart, in memory that is   *)
(* not freed, and below its position, whatever happens to the structures   *)
(* that another process has come to map; and only with one of those is a   *)
(* freed structure used.                                                   *)
THEOREM OldModuleBacks == OkaSpec => []OldBlocksBacked
<1>1. OkaInit => OldBlocksBacked
  <2> SUFFICES ASSUME OkaInit PROVE OldBlocksBacked
    OBVIOUS
  <2>1. /\ infos = <<>> /\ mmapInfo = 0 /\ vmas = {} /\ okaBlocks = {} /\ shared = {}
        /\ okaProc = [p \in Procs |-> OkaIdle]
    BY DEF OkaInit
  <2>2. OkaIdle \in OkaProcess /\ OkaIdle.at = "idle"
    BY DEF OkaIdle, OkaProcess
  <2>3. okaProc \in [Procs -> OkaProcess] /\ \A p \in Procs : okaProc[p].at = "idle"
    BY <2>1, <2>2
  <2>4. ~okaCrashed /\ okaCrashed \in BOOLEAN
    BY DEF OkaInit
  <2>5. infos \in Seq(Info) /\ mmapInfo \in 0 .. Len(infos)
    BY <2>1
  <2>6. OkaTypeOK
    BY <2>1, <2>3, <2>4, <2>5 DEF OkaTypeOK
  <2>7. Mapped /\ Backed /\ Apart
    BY <2>1, <2>3 DEF Mapped, Backed, Apart
  <2> QED
    BY <2>4, <2>6, <2>7 DEF OldBlocksBacked
<1>2. OldBlocksBacked /\ [OkaNext]_<<registered, okaVars>> => OldBlocksBacked'
  BY OldNext
<1> QED
  BY <1>1, <1>2, PTL DEF OkaSpec

-----------------------------------------------------------------------------
(* KArena.                                                                 *)

(* A finite set of numbers that is not empty has a largest and a smallest  *)
(* element: otherwise the elements beyond one of a least upper part are a  *)
(* smaller one.                                                            *)
LEMMA MaxFacts ==
  ASSUME NEW S, IsFiniteSet(S), S \subseteq Int, S # {}
  PROVE  Max(S) \in S /\ \A y \in S : Max(S) >= y
<1> DEFINE From(x) == {y \in S : y >= x}
           Parts == {From(x) : x \in S}
<1>1. PICK P \in Parts : \A Q \in Parts : ~ (<<Q, P>> \in StrictSubsetOrdering(S))
  <2>1. IsWellFoundedOn(StrictSubsetOrdering(S), FiniteSubsetsOf(S))
    BY FS_StrictSubsetOrderingWellFounded
  <2>2. Parts \subseteq FiniteSubsetsOf(S)
    BY FS_FiniteSubsetsOfFinite
  <2>3. Parts # {}
    OBVIOUS
  <2> HIDE DEF Parts
  <2> QED
    BY <2>1, <2>2, <2>3, WFMin
<1>2. PICK x \in S : P = From(x)
  BY <1>1
<1>3. ASSUME NEW y \in S
      PROVE  x >= y
  <2>0. x \in Int /\ y \in Int
    BY <1>2, <1>3
  <2>1. ASSUME y > x
        PROVE  FALSE
    <3>0. x >= x /\ ~(x >= y) /\ \A z \in Int : z >= y => z >= x
      <4> HIDE DEF Parts
      <4> QED
        BY <2>1, <2>0
    <3>1. From(y) \subseteq P /\ x \in P /\ x \notin From(y) /\ P \subseteq S
      BY <1>2, <3>0, Zenon
    <3>2. <<From(y), P>> \in StrictSubsetOrdering(S)
      BY <3>1 DEF StrictSubsetOrdering
    <3>3. From(y) \in Parts
      OBVIOUS
    <3> HIDE DEF From, Parts
    <3> QED
      BY <1>1, <3>2, <3>3
  <2> HIDE DEF From, Parts
  <2> QED
    BY <2>0, <2>1
<1>4. \E z \in S : \A y \in S : z >= y
  BY <1>3
<1> QED
  BY <1>4 DEF Max

(* The same for the smallest element.                                      *)
LEMMA MinFacts ==
  ASSUME NEW S, IsFiniteSet(S), S \subseteq Int, S # {}
  PROVE  Min(S) \in S /\ \A y \in S : Min(S) <= y
<1> DEFINE To(x) == {y \in S : y <= x}
           Parts == {To(x) : x \in S}
<1>1. PICK P \in Parts : \A Q \in Parts : ~ (<<Q, P>> \in StrictSubsetOrdering(S))
  <2>1. IsWellFoundedOn(StrictSubsetOrdering(S), FiniteSubsetsOf(S))
    BY FS_StrictSubsetOrderingWellFounded
  <2>2. Parts \subseteq FiniteSubsetsOf(S)
    BY FS_FiniteSubsetsOfFinite
  <2>3. Parts # {}
    OBVIOUS
  <2> HIDE DEF Parts
  <2> QED
    BY <2>1, <2>2, <2>3, WFMin
<1>2. PICK x \in S : P = To(x)
  BY <1>1
<1>3. ASSUME NEW y \in S
      PROVE  x <= y
  <2>0. x \in Int /\ y \in Int
    BY <1>2, <1>3
  <2>1. ASSUME y < x
        PROVE  FALSE
    <3>0. x <= x /\ ~(x <= y) /\ \A z \in Int : z <= y => z <= x
      <4> HIDE DEF Parts
      <4> QED
        BY <2>1, <2>0
    <3>1. To(y) \subseteq P /\ x \in P /\ x \notin To(y) /\ P \subseteq S
      BY <1>2, <3>0, Zenon
    <3>2. <<To(y), P>> \in StrictSubsetOrdering(S)
      BY <3>1 DEF StrictSubsetOrdering
    <3>3. To(y) \in Parts
      OBVIOUS
    <3> HIDE DEF To, Parts
    <3> QED
      BY <1>1, <3>2, <3>3
  <2> HIDE DEF To, Parts
  <2> QED
    BY <2>0, <2>1
<1>4. \E z \in S : \A y \in S : z <= y
  BY <1>3
<1> QED
  BY <1>4 DEF Min

(* What PAGE_ALIGN adds.                                                   *)
LEMMA PageFacts ==
  /\ \A n \in Nat : PAGE_ALIGN(n) \in Nat /\ n <= PAGE_ALIGN(n)
  /\ \A n, m \in Nat : n <= m => PAGE_ALIGN(n) <= PAGE_ALIGN(m)
  /\ Span \in Nat /\ Span >= 2 /\ MaxRequest <= Span - 2
  /\ \A n \in Sizes : PAGE_ALIGN(n) \in 0 .. Span - 2
<1>1. ASSUME NEW a \in Nat, NEW P \in Nat \ {0}
      PROVE  a \div P \in Nat /\ (a \div P) * P <= a /\ a < (a \div P) * P + P
  OBVIOUS
<1>2. ASSUME NEW a \in Nat, NEW b \in Nat, NEW P \in Nat \ {0}, a <= b
      PROVE  a * P <= b * P /\ a * P \in Nat
  <2>1. PICK c \in Nat : b = a + c
    <3>1. b - a \in Nat /\ b = a + (b - a)
      BY <1>2
    <3> QED
      BY <3>1
  <2>2. b * P = a * P + c * P
    BY <2>1
  <2>3. a * P \in Nat /\ c * P \in Nat
    OBVIOUS
  <2> QED
    BY <2>2, <2>3
<1>3. ASSUME NEW a \in Nat, NEW b \in Nat, NEW P \in Nat \ {0}, a <= b
      PROVE  a \div P <= b \div P
  <2>1. SUFFICES ASSUME b \div P + 1 <= a \div P PROVE FALSE
    BY <1>1
  <2>2. (b \div P + 1) * P <= (a \div P) * P
    BY <2>1, <1>1, <1>2
  <2>3. (b \div P + 1) * P = (b \div P) * P + P
    BY <1>1
  <2> QED
    BY <2>2, <2>3, <1>1, <1>3
<1>4. \A n \in Nat : PAGE_ALIGN(n) \in Nat /\ n <= PAGE_ALIGN(n)
  <2> TAKE n \in Nat
  <2>1. PICK a : a = n + Page - 1
    OBVIOUS
  <2>2. a \in Nat /\ Page \in Nat \ {0} /\ PAGE_ALIGN(n) = (a \div Page) * Page
    BY <2>1, KernelAssumption DEF PAGE_ALIGN
  <2>3. a \div Page \in Nat /\ a < (a \div Page) * Page + Page
    BY <2>2, <1>1
  <2>4. (a \div Page) * Page \in Nat
    BY <2>2, <2>3
  <2> QED
    BY <2>1, <2>2, <2>3, <2>4
<1>5. \A n, m \in Nat : n <= m => PAGE_ALIGN(n) <= PAGE_ALIGN(m)
  <2> SUFFICES ASSUME NEW n \in Nat, NEW m \in Nat, n <= m PROVE PAGE_ALIGN(n) <= PAGE_ALIGN(m)
    OBVIOUS
  <2>1. PICK a : a = n + Page - 1
    OBVIOUS
  <2>2. PICK b : b = m + Page - 1
    OBVIOUS
  <2>3. a \in Nat /\ b \in Nat /\ a <= b /\ Page \in Nat \ {0}
    BY <2>1, <2>2, KernelAssumption
  <2>4. PAGE_ALIGN(n) = (a \div Page) * Page /\ PAGE_ALIGN(m) = (b \div Page) * Page
    BY <2>1, <2>2 DEF PAGE_ALIGN
  <2>5. a \div Page <= b \div Page /\ a \div Page \in Nat /\ b \div Page \in Nat
    BY <2>3, <1>3, <1>1
  <2> QED
    BY <2>3, <2>4, <2>5, <1>2
<1>6. Span \in Nat /\ Span >= 2 /\ MaxRequest <= Span - 2 /\ Span - 2 = PAGE_ALIGN(MaxRequest)
  BY <1>4, KernelAssumption DEF Span
<1>7. ASSUME NEW n \in Sizes PROVE PAGE_ALIGN(n) \in 0 .. Span - 2
  <2>1. n \in Nat /\ n <= MaxRequest /\ MaxRequest \in Nat
    BY KernelAssumption DEF Sizes
  <2> QED
    BY <2>1, <1>4, <1>5, <1>6
<1> QED
  BY <1>4, <1>5, <1>6, <1>7

(* The start of a mapping is found from any address in it.                 *)
LEMMA SpanFacts ==
  ASSUME NEW n \in Nat, NEW lo \in Nat, n * Span <= lo, lo < n * Span + Span
  PROVE  lo \div Span = n
<1>1. Span \in Nat \ {0}
  BY PageFacts
<1> HIDE DEF Span
<1>2. PICK P : P = Span
  OBVIOUS
<1>3. P \in Nat \ {0} /\ n * P <= lo /\ lo < n * P + P
  BY <1>1, <1>2
<1>4. PICK d : d = lo \div P
  OBVIOUS
<1>5. d \in Nat /\ d * P <= lo /\ lo < d * P + P
  BY <1>3, <1>4
<1>6. ASSUME NEW a \in Nat, NEW b \in Nat, a + 1 <= b PROVE a * P + P <= b * P
  <2>1. (a + 1) * P <= b * P
    BY <1>3, <1>6
  <2> QED
    BY <2>1, <1>3
<1>7. ~(d + 1 <= n) /\ ~(n + 1 <= d)
  <2>1. n * P \in Nat /\ d * P \in Nat
    BY <1>3, <1>5
  <2> QED
    BY <2>1, <1>3, <1>5, <1>6
<1> QED
  BY <1>2, <1>4, <1>5, <1>7

-----------------------------------------------------------------------------
(* The table changes in one slot, and the slot becomes k.                  *)
OneSlot(i, k) ==
  /\ karenas' \in [Slots -> Slot] /\ i \in Slots /\ karenas'[i] = k
  /\ \A j \in Slots : j # i => karenas'[j] = karenas[j]
OneProc(p) ==
  /\ proc' \in [Procs -> Process]
  /\ \A q \in Procs : q # p => proc'[q] = proc[q]

(* An assignment to a slot changes that slot and no other.                 *)
LEMMA SetSlot ==
  ASSUME KaTypeOK, NEW i \in Slots, NEW r \in Slot, karenas' = [karenas EXCEPT ![i] = r]
  PROVE  OneSlot(i, r)
<1>1. karenas \in [Slots -> Slot]
  BY DEF KaTypeOK, TableTypeOK
<1> QED
  BY <1>1, Zenon DEF OneSlot

(* What an assignment to fields does to a slot.                            *)
Has(r, u, c, s, a, o) ==
  /\ r \in Slot /\ r.uaddr = u /\ r.cur = c /\ r.size = s /\ r.kaddr = a /\ r.owner = o

(* The fields of a slot have their types.                                  *)
LEMMA SlotFields ==
  ASSUME NEW k \in Slot
  PROVE  /\ k.uaddr \in Nat /\ k.cur \in Nat /\ k.size \in 0 .. Span - 2 /\ k.kaddr \in Nat
         /\ k.owner \in Procs \cup {NoProc} /\ k.bootstrapped \in BOOLEAN
BY Zenon DEF Slot

(* The user address of a slot is set.                                      *)
LEMMA ReAddress ==
  ASSUME NEW k \in Slot, NEW u \in Nat, NEW r, r = [k EXCEPT !.uaddr = u]
  PROVE  Has(r, u, k.cur, k.size, k.kaddr, k.owner) /\ r.bootstrapped = k.bootstrapped
BY Zenon DEF Slot, Has

(* The position of a slot is set.                                          *)
LEMMA RePosition ==
  ASSUME NEW k \in Slot, NEW c \in Nat, NEW r, r = [k EXCEPT !.cur = c]
  PROVE  Has(r, k.uaddr, c, k.size, k.kaddr, k.owner) /\ r.bootstrapped = k.bootstrapped
BY Zenon DEF Slot, Has

(* The memory of a slot is set.                                            *)
LEMMA ReMemory ==
  ASSUME NEW k \in Slot, NEW a \in Nat, NEW r, r = [k EXCEPT !.kaddr = a]
  PROVE  Has(r, k.uaddr, k.cur, k.size, a, k.owner) /\ r.bootstrapped = k.bootstrapped
BY Zenon DEF Slot, Has

(* A slot is marked as not bootstrapped.                                   *)
LEMMA ReCreated ==
  ASSUME NEW k \in Slot, NEW r, r = [k EXCEPT !.bootstrapped = FALSE]
  PROVE  Has(r, k.uaddr, k.cur, k.size, k.kaddr, k.owner) /\ r.bootstrapped = FALSE
BY Zenon DEF Slot, Has

(* A slot is cleared: its memory and its mark stay.                        *)
LEMMA ReCleared ==
  ASSUME NEW k \in Slot, NEW r, r = Cleared(k)
  PROVE  Has(r, 0, 0, 0, k.kaddr, NoProc) /\ r.bootstrapped = k.bootstrapped
<1>1. Span - 2 \in Nat
  BY PageFacts
<1>2. 0 \in 0 .. Span - 2
  BY <1>1
<1> QED
  BY <1>2, Zenon DEF Slot, Has, Cleared

(* ka_create fills a slot in.                                              *)
LEMMA ReFilled ==
  ASSUME NEW k \in Slot, NEW p \in Procs, NEW s \in 0 .. Span - 2,
         NEW r, r = [k EXCEPT !.uaddr = 0, !.bootstrapped = FALSE, !.owner = p, !.cur = 0, !.size = s]
  PROVE  Has(r, 0, 0, s, k.kaddr, p) /\ r.bootstrapped = FALSE
BY Zenon DEF Slot, Has

(* The table changes in slot i, to these values.                           *)
SlotNow(i, u, c, s, a, o) ==
  /\ i \in Slots /\ karenas' \in [Slots -> Slot]
  /\ Has(karenas'[i], u, c, s, a, o)
  /\ \A j \in Slots : j # i => karenas'[j] = karenas[j]

(* A step on one slot keeps the type of the table.                         *)
LEMMA TableStep ==
  ASSUME KaTypeOK, NEW i, NEW u, NEW c, NEW s, NEW a, NEW o, SlotNow(i, u, c, s, a, o),
         c <= s, a <= Len(made'), Len(made) <= Len(made'), Len(made') \in Nat, Len(made) \in Nat
  PROVE  TableTypeOK'
<1>1. \A j \in Slots : karenas[j] \in Slot /\ karenas[j].cur <= karenas[j].size /\ karenas[j].kaddr <= Len(made)
  BY DEF KaTypeOK, TableTypeOK
<1>2. \A j \in Slots : karenas[j].kaddr \in Nat
  BY <1>1, SlotFields
<1> QED
  BY <1>1, <1>2 DEF SlotNow, Has, TableTypeOK

(* A step of one process, without a mapping for another, keeps the type of *)
(* the processes.                                                          *)
LEMMA ProcStep ==
  ASSUME KaTypeOK, NEW p \in Procs, OneProc(p), Stage(p)',
         \A v \in maps' : v \in maps \/ v.proc = p
  PROVE  ProcTypeOK'
<1>1. ASSUME NEW q \in Procs, q # p
      PROVE  Stage(q)'
  <2>1. Stage(q) /\ proc'[q] = proc[q]
    BY <1>1 DEF OneProc, KaTypeOK, ProcTypeOK
  <2>2. \A v \in maps' : v.proc = q => v \in maps
    BY <1>1
  <2> QED
    BY <2>1, <2>2 DEF Stage
<1> QED
  BY <1>1 DEF ProcTypeOK, OneProc

Labels == {"idle", "create", "vmalloc", "mmap", "close", "bootstrap", "destroy", "release"}

(* The fields of a process have their types.                               *)
LEMMA ProcFields ==
  ASSUME NEW x \in Process
  PROVE  /\ x.at \in Labels /\ x.file \in {"none", "open", "closed"} /\ x.slot \in Slots \cup {NoSlot}
         /\ x.size \in 0 .. Span - 2 /\ x.from \in NoSlot .. SlotCount /\ x.addr \in Nat
BY Zenon DEF Process, Labels

(* What an assignment to fields does to where a process is.                *)
Holds(r, a, f, i, z, m, d) ==
  /\ r \in Process /\ r.at = a /\ r.file = f /\ r.slot = i /\ r.size = z /\ r.from = m /\ r.addr = d

(* A process goes on.                                                      *)
LEMMA ReAt ==
  ASSUME NEW x \in Process, NEW a \in Labels, NEW r, r = [x EXCEPT !.at = a]
  PROVE  Holds(r, a, x.file, x.slot, x.size, x.from, x.addr)
BY Zenon DEF Process, Labels, Holds

(* A process goes on with a slot.                                          *)
LEMMA ReAtSlot ==
  ASSUME NEW x \in Process, NEW a \in Labels, NEW i \in Slots \cup {NoSlot},
         NEW r, r = [x EXCEPT !.at = a, !.slot = i]
  PROVE  Holds(r, a, x.file, i, x.size, x.from, x.addr)
BY Zenon DEF Process, Labels, Holds

(* A process goes on with a size.                                          *)
LEMMA ReAtSize ==
  ASSUME NEW x \in Process, NEW a \in Labels, NEW z \in 0 .. Span - 2,
         NEW r, r = [x EXCEPT !.at = a, !.size = z]
  PROVE  Holds(r, a, x.file, x.slot, z, x.from, x.addr)
BY Zenon DEF Process, Labels, Holds

(* A process goes on with a slot and a size.                               *)
LEMMA ReAtSlotSize ==
  ASSUME NEW x \in Process, NEW a \in Labels, NEW i \in Slots \cup {NoSlot},
         NEW z \in 0 .. Span - 2, NEW r, r = [x EXCEPT !.at = a, !.slot = i, !.size = z]
  PROVE  Holds(r, a, x.file, i, z, x.from, x.addr)
BY Zenon DEF Process, Labels, Holds

(* dev_release goes on.                                                    *)
LEMMA ReAtSlotFrom ==
  ASSUME NEW x \in Process, NEW a \in Labels, NEW i \in Slots \cup {NoSlot},
         NEW m \in NoSlot .. SlotCount, NEW r, r = [x EXCEPT !.at = a, !.slot = i, !.from = m]
  PROVE  Holds(r, a, x.file, i, x.size, m, x.addr)
BY Zenon DEF Process, Labels, Holds

(* dev_release goes on to the next slot.                                   *)
LEMMA ReSlotFrom ==
  ASSUME NEW x \in Process, NEW i \in Slots \cup {NoSlot},
         NEW m \in NoSlot .. SlotCount, NEW r, r = [x EXCEPT !.slot = i, !.from = m]
  PROVE  Holds(r, x.at, x.file, i, x.size, m, x.addr)
BY Zenon DEF Process, Labels, Holds

(* A process goes on with what ka_bootstrap has found.                     *)
LEMMA ReBootstrap ==
  ASSUME NEW x \in Process, NEW a \in Labels, NEW i \in Slots \cup {NoSlot},
         NEW z \in 0 .. Span - 2, NEW m \in NoSlot .. SlotCount, NEW d \in Nat,
         NEW r, r = [x EXCEPT !.at = a, !.slot = i, !.size = z, !.from = m, !.addr = d]
  PROVE  Holds(r, a, x.file, i, z, m, d)
BY Zenon DEF Process, Labels, Holds

(* A process opens the device.                                             *)
LEMMA ReFile ==
  ASSUME NEW x \in Process, NEW r, r = [x EXCEPT !.file = "open"]
  PROVE  Holds(r, x.at, "open", x.slot, x.size, x.from, x.addr)
BY Zenon DEF Process, Labels, Holds

(* A process returns, or its file is released.                             *)
LEMMA ReIdle ==
  /\ Idle \in Process
  /\ \A f \in {"none", "open", "closed"} :
       Holds([Idle EXCEPT !.file = f], "idle", f, NoSlot, 0, NoSlot, 0)
  /\ Holds([Idle EXCEPT !.file = "closed", !.at = "release", !.from = 0],
           "release", "closed", NoSlot, 0, 0, 0)
<1>1. 0 \in 0 .. Span - 2 /\ NoSlot \in NoSlot .. SlotCount /\ 0 \in NoSlot .. SlotCount /\ 0 \in Nat
  BY PageFacts, KaAssumption DEF NoSlot
<1>2. Idle \in Process
  BY <1>1 DEF Idle, Process
<1>3. \A f \in {"none", "open", "closed"} :
       Holds([Idle EXCEPT !.file = f], "idle", f, NoSlot, 0, NoSlot, 0)
  BY <1>1, <1>2, Zenon DEF Idle, Process, Holds
<1>4. Holds([Idle EXCEPT !.file = "closed", !.at = "release", !.from = 0],
           "release", "closed", NoSlot, 0, 0, 0)
  BY <1>1, <1>2 DEF Idle, Process, Holds
<1> QED
  BY <1>2, <1>3, <1>4

(* find_open_slot returns an open slot if there is one.                    *)
LEMMA FindFacts ==
  ASSUME NEW i, i = find_open_slot
  PROVE  i = NoSlot \/ (i \in Slots /\ karenas[i].uaddr = 0)
<1> DEFINE open == {j \in Slots : karenas[j].uaddr = 0}
<1>1. CASE open = {}
  BY <1>1 DEF find_open_slot
<1>2. CASE open # {}
  <2>1. Slots \subseteq Int /\ IsFiniteSet(Slots)
    BY KaAssumption, FS_Interval DEF Slots
  <2>2. open \subseteq Slots
    OBVIOUS
  <2>3. IsFiniteSet(open)
    BY <2>1, <2>2, FS_Subset
  <2>4. Min(open) \in open
    <3> HIDE DEF open
    <3> QED
      BY <1>2, <2>1, <2>2, <2>3, MinFacts
  <2>5. i = Min(open)
    BY <1>2 DEF find_open_slot
  <2> QED
    BY <2>4, <2>5
<1> QED
  BY <1>1, <1>2

(* An assignment to a slot, as the fields the slot has afterwards.         *)
LEMMA SlotEffect ==
  ASSUME KaTypeOK, NEW i \in Slots, NEW k, NEW u, NEW c, NEW s, NEW a, NEW o,
         Has(k, u, c, s, a, o), karenas' = [karenas EXCEPT ![i] = k]
  PROVE  SlotNow(i, u, c, s, a, o) /\ karenas'[i].bootstrapped = k.bootstrapped
<1>1. k \in Slot
  BY DEF Has
<1>2. OneSlot(i, k)
  BY <1>1, SetSlot
<1> QED
  BY <1>2 DEF OneSlot, SlotNow

(* Process p has moved, to these values.                                   *)
ProcNow(p, a, f, i, z, m, d) == OneProc(p) /\ Holds(proc'[p], a, f, i, z, m, d)

(* An assignment to a process, as the fields it has afterwards.            *)
LEMMA ProcEffect ==
  ASSUME KaTypeOK, NEW p \in Procs, NEW r, NEW a, NEW f, NEW i, NEW z, NEW m, NEW d,
         Holds(r, a, f, i, z, m, d), proc' = [proc EXCEPT ![p] = r]
  PROVE  ProcNow(p, a, f, i, z, m, d)
<1>1. proc \in [Procs -> Process] /\ r \in Process
  BY DEF KaTypeOK, ProcTypeOK, Holds
<1>2. OneProc(p) /\ proc'[p] = r
  BY <1>1, Zenon DEF OneProc
<1> QED
  BY <1>2 DEF ProcNow

(* The types of a process that has moved.                                  *)
LEMMA StageEffect ==
  ASSUME KaTypeOK, NEW p \in Procs, NEW a, NEW f, NEW i, NEW z, NEW m, NEW d,
         ProcNow(p, a, f, i, z, m, d), \A v \in maps' : v \in maps \/ v.proc = p,
         a = "idle" => i = NoSlot,
         a \in {"create", "vmalloc", "mmap", "bootstrap", "destroy"} => i \in Slots,
         a = "create" => z \in Sizes,
         a = "bootstrap" => m \in Slots,
         a = "release" => m \in 0 .. SlotCount /\ i \in {NoSlot, m} /\ \A v \in maps' : v.proc # p
  PROVE  ProcTypeOK'
<1>1. Stage(p)'
  BY DEF Stage, ProcNow, Holds
<1> QED
  BY <1>1, ProcStep DEF ProcNow

(* The locals of the handler a process is in.                              *)
LEMMA StageFacts ==
  ASSUME KaTypeOK, NEW p \in Procs
  PROVE  /\ proc[p] \in Process /\ Stage(p)
         /\ proc[p].at \in Labels /\ proc[p].file \in {"none", "open", "closed"}
         /\ proc[p].slot \in Slots \cup {NoSlot} /\ proc[p].size \in 0 .. Span - 2
         /\ proc[p].from \in NoSlot .. SlotCount /\ proc[p].addr \in Nat
<1>1. proc[p] \in Process /\ Stage(p)
  BY DEF KaTypeOK, ProcTypeOK
<1> QED
  BY <1>1, ProcFields

(* What the types say of a slot.                                           *)
LEMMA TableFacts ==
  ASSUME KaTypeOK, NEW i \in Slots
  PROVE  /\ karenas[i] \in Slot
         /\ karenas[i].uaddr \in Nat /\ karenas[i].cur \in Nat /\ karenas[i].size \in 0 .. Span - 2
         /\ karenas[i].kaddr \in Nat /\ karenas[i].owner \in Procs \cup {NoProc}
         /\ karenas[i].cur <= karenas[i].size /\ karenas[i].kaddr <= Len(made)
         /\ Len(made) \in Nat /\ karenas[i].size \in Nat
<1>1. karenas[i] \in Slot /\ karenas[i].cur <= karenas[i].size /\ karenas[i].kaddr <= Len(made)
  BY DEF KaTypeOK, TableTypeOK
<1>2. Len(made) \in Nat
  BY DEF KaTypeOK, OtherTypeOK
<1>3. /\ karenas[i].uaddr \in Nat /\ karenas[i].cur \in Nat /\ karenas[i].size \in 0 .. Span - 2
      /\ karenas[i].kaddr \in Nat /\ karenas[i].owner \in Procs \cup {NoProc}
  BY <1>1, SlotFields, Zenon
<1>4. Span \in Nat
  BY PageFacts
<1>5. karenas[i].size \in Nat
  BY <1>3, <1>4
<1> QED
  BY <1>1, <1>2, <1>3, <1>5, Zenon

(* -1 is not a slot.                                                       *)
LEMMA NoSlotNot == NoSlot \notin Slots /\ NoSlot = -1 /\ Slots = 0 .. SlotCount - 1 /\ SlotCount \in Nat \ {0}
BY KaAssumption DEF NoSlot, Slots

(* What every action does, one at a time: the types are kept, and these    *)
(* are the fields of the slot and of the process afterwards. ka_create     *)
(* looks for a slot.                                                       *)
LEMMA CreateFindsEffect ==
  ASSUME KaTypeOK, NEW p \in Procs, NEW size \in Sizes, CreateFindsSlot(p, size)
  PROVE  /\ KaTypeOK'
         /\ \/ /\ UNCHANGED karenas
               /\ ProcNow(p, "close", proc[p].file, NoSlot, size, proc[p].from, proc[p].addr)
            \/ \E i \in Slots :
               /\ ProcNow(p, "create", proc[p].file, i, size, proc[p].from, proc[p].addr)
               /\ karenas[i].uaddr = 0
               /\ SlotNow(i, 1, karenas[i].cur, karenas[i].size, karenas[i].kaddr, karenas[i].owner)
               /\ karenas'[i].bootstrapped = karenas[i].bootstrapped
               /\ i \in Busy(p) => "raced" \in causes'
<1>1. PICK i : i = find_open_slot
  OBVIOUS
<1>2. i = NoSlot \/ (i \in Slots /\ karenas[i].uaddr = 0)
  BY <1>1, FindFacts
<1>3. PICK a : a = IF i = NoSlot THEN "close" ELSE "create"
  OBVIOUS
<1>4. PICK r : r = [proc[p] EXCEPT !.at = a, !.slot = i, !.size = size]
  OBVIOUS
<1>5. proc' = [proc EXCEPT ![p] = r]
  BY <1>1, <1>3, <1>4 DEF CreateFindsSlot
<1>6. ProcNow(p, a, proc[p].file, i, size, proc[p].from, proc[p].addr)
  <2>1. size \in 0 .. Span - 2
    BY PageFacts, KernelAssumption DEF Sizes
  <2>2. proc[p] \in Process /\ i \in Slots \cup {NoSlot} /\ a \in Labels
    BY <1>2, <1>3 DEF KaTypeOK, ProcTypeOK, Labels
  <2>3. Holds(r, a, proc[p].file, i, size, proc[p].from, proc[p].addr)
    BY <1>4, <2>1, <2>2, ReAtSlotSize
  <2> QED
    BY <1>5, <2>3, ProcEffect
<1>7. NoSlot \notin Slots
  BY NoSlotNot
<1>8. ProcTypeOK'
  <2>1. \A v \in maps' : v \in maps \/ v.proc = p
    BY DEF CreateFindsSlot
  <2> QED
    BY <1>2, <1>3, <1>6, <1>7, <2>1, StageEffect
<1>9. MapsTypeOK' /\ UNCHANGED <<made, maps>>
  BY DEF CreateFindsSlot, KaTypeOK, MapsTypeOK
<1>10. OtherTypeOK'
  BY DEF CreateFindsSlot, KaTypeOK, OtherTypeOK, Raced
<1>11. CASE i = NoSlot
  <2>1. UNCHANGED karenas
    BY <1>1, <1>11 DEF CreateFindsSlot
  <2>2. TableTypeOK'
    BY <2>1, <1>9 DEF KaTypeOK, TableTypeOK
  <2> QED
    BY <1>3, <1>6, <1>8, <1>9, <1>10, <1>11, <2>1, <2>2 DEF KaTypeOK
<1>12. CASE i \in Slots
  <2>1. PICK k : k = [karenas[i] EXCEPT !.uaddr = 1]
    OBVIOUS
  <2>2. karenas' = [karenas EXCEPT ![i] = k]
    BY <1>1, <1>12, <1>7, <2>1 DEF CreateFindsSlot
  <2>3. Has(k, 1, karenas[i].cur, karenas[i].size, karenas[i].kaddr, karenas[i].owner)
        /\ k.bootstrapped = karenas[i].bootstrapped
    BY <1>12, <2>1, TableFacts, ReAddress
  <2>4. SlotNow(i, 1, karenas[i].cur, karenas[i].size, karenas[i].kaddr, karenas[i].owner)
        /\ karenas'[i].bootstrapped = karenas[i].bootstrapped
    BY <1>12, <2>2, <2>3, SlotEffect
  <2>5. TableTypeOK'
    BY <1>9, <1>12, <2>4, TableFacts, TableStep
  <2>6. i \in Busy(p) => "raced" \in causes'
    BY <1>1, <1>12, <1>7 DEF CreateFindsSlot, Raced
  <2>7. a = "create" /\ karenas[i].uaddr = 0
    BY <1>2, <1>3, <1>7, <1>12
  <2> QED
    BY <1>6, <1>8, <1>9, <1>10, <1>12, <2>4, <2>5, <2>6, <2>7 DEF KaTypeOK
<1> QED
  BY <1>2, <1>11, <1>12

(* ka_create fills the slot in.                                            *)
LEMMA CreateFillsEffect ==
  ASSUME KaTypeOK, NEW p \in Procs, CreateFillsSlot(p), NEW i, i = proc[p].slot,
         NEW z, z = PAGE_ALIGN(proc[p].size)
  PROVE  /\ KaTypeOK'
         /\ z \in 0 .. Span - 2 /\ i \in Slots
         /\ ProcNow(p, "vmalloc", proc[p].file, i, z, proc[p].from, proc[p].addr)
         /\ SlotNow(i, 0, 0, z, karenas[i].kaddr, p) /\ karenas'[i].bootstrapped = FALSE
<1>1. proc[p].at = "create"
  BY DEF CreateFillsSlot, At
<1>2. i \in Slots /\ proc[p].size \in Sizes /\ i \in Slots \cup {NoSlot}
  BY <1>1, StageFacts DEF Stage
<1>3. z \in 0 .. Span - 2
  BY <1>2, PageFacts
<1>4. PICK r : r = [proc[p] EXCEPT !.at = "vmalloc", !.size = z]
  OBVIOUS
<1>5. proc' = [proc EXCEPT ![p] = r]
  BY <1>4 DEF CreateFillsSlot
<1>6. ProcNow(p, "vmalloc", proc[p].file, i, z, proc[p].from, proc[p].addr)
  <2>1. "vmalloc" \in Labels
    BY DEF Labels
  <2>2. Holds(r, "vmalloc", proc[p].file, i, z, proc[p].from, proc[p].addr)
    BY <1>3, <1>4, <2>1, StageFacts, ReAtSize
  <2> QED
    BY <1>5, <2>2, ProcEffect
<1>7. ProcTypeOK'
  <2>1. \A v \in maps' : v \in maps \/ v.proc = p
    BY DEF CreateFillsSlot
  <2> QED
    BY <1>2, <1>6, <2>1, StageEffect
<1>8. PICK k : k = [karenas[i] EXCEPT !.uaddr = 0, !.bootstrapped = FALSE, !.owner = p,
                                      !.cur = 0, !.size = z]
  OBVIOUS
<1>9. karenas' = [karenas EXCEPT ![i] = k]
  BY <1>8, Zenon DEF CreateFillsSlot
<1>10. Has(k, 0, 0, z, karenas[i].kaddr, p) /\ k.bootstrapped = FALSE
  <2>1. karenas[i] \in Slot
    BY <1>2, TableFacts
  <2> QED
    BY <1>3, <1>8, <2>1, ReFilled, Zenon
<1>11. SlotNow(i, 0, 0, z, karenas[i].kaddr, p) /\ karenas'[i].bootstrapped = FALSE
  BY <1>2, <1>9, <1>10, SlotEffect
<1>12. MapsTypeOK' /\ UNCHANGED <<made, maps>>
  BY DEF CreateFillsSlot, KaTypeOK, MapsTypeOK
<1>13. OtherTypeOK'
  <2>1. index' \in Slots
    BY <1>2 DEF CreateFillsSlot
  <2>2. oops' \in BOOLEAN
    BY Zenon DEF CreateFillsSlot
  <2> QED
    BY <2>1, <2>2 DEF CreateFillsSlot, KaTypeOK, OtherTypeOK
<1>14. TableTypeOK'
  <2>1. 0 <= z
    BY <1>3, PageFacts
  <2> QED
    BY <1>2, <1>11, <1>12, <2>1, TableFacts, TableStep
<1> QED
  BY <1>2, <1>3, <1>6, <1>7, <1>11, <1>12, <1>13, <1>14 DEF KaTypeOK

(* ka_create allocates the memory.                                         *)
LEMMA CreateAllocatesEffect ==
  ASSUME KaTypeOK, NEW p \in Procs, CreateAllocates(p), NEW i, i = proc[p].slot, NEW n, n = Len(made) + 1
  PROVE  /\ KaTypeOK' /\ i \in Slots /\ n \in Nat
         /\ ProcNow(p, "mmap", proc[p].file, i, proc[p].size, proc[p].from, proc[p].addr)
         /\ SlotNow(i, karenas[i].uaddr, karenas[i].cur, karenas[i].size, n, karenas[i].owner)
         /\ karenas'[i].bootstrapped = karenas[i].bootstrapped
         /\ regions' = regions \cup {n} /\ made'[n] = p /\ Len(made') = n
         /\ \A m \in 1 .. Len(made) : made'[m] = made[m]
<1>1. proc[p].at = "vmalloc"
  BY DEF CreateAllocates, At
<1>2. i \in Slots
  BY <1>1, StageFacts DEF Stage
<1>3. /\ made \in Seq(Procs) /\ made' = Append(made, p)
      /\ made' \in Seq(Procs) /\ Len(made') = n /\ n \in Nat /\ made'[n] = p
      /\ \A m \in 1 .. Len(made) : made'[m] = made[m]
  <2>1. made \in Seq(Procs) /\ made' = Append(made, p)
    BY DEF KaTypeOK, OtherTypeOK, CreateAllocates
  <2> QED
    BY <2>1, AppendProperties
<1>4. PICK r : r = [proc[p] EXCEPT !.at = "mmap"]
  OBVIOUS
<1>5. proc' = [proc EXCEPT ![p] = r]
  BY <1>4 DEF CreateAllocates, Goto
<1>6. ProcNow(p, "mmap", proc[p].file, i, proc[p].size, proc[p].from, proc[p].addr)
  <2>1. "mmap" \in Labels
    BY DEF Labels
  <2>2. Holds(r, "mmap", proc[p].file, i, proc[p].size, proc[p].from, proc[p].addr)
    BY <1>4, <2>1, StageFacts, ReAt
  <2> QED
    BY <1>5, <2>2, ProcEffect
<1>7. ProcTypeOK'
  <2>1. \A v \in maps' : v \in maps \/ v.proc = p
    BY DEF CreateAllocates
  <2> QED
    BY <1>2, <1>6, <2>1, StageEffect
<1>8. PICK k : k = [karenas[i] EXCEPT !.kaddr = n]
  OBVIOUS
<1>9. karenas' = [karenas EXCEPT ![i] = k]
  <2>1. karenas' = [karenas EXCEPT ![i].kaddr = n]
    BY <1>3 DEF CreateAllocates
  <2> QED
    BY <2>1, <1>8, Zenon
<1>10. Has(k, karenas[i].uaddr, karenas[i].cur, karenas[i].size, n, karenas[i].owner)
       /\ k.bootstrapped = karenas[i].bootstrapped
  <2>1. karenas[i] \in Slot
    BY <1>2, TableFacts
  <2>2. n \in Nat
    BY <1>3
  <2> QED
    BY <1>8, <2>1, <2>2, ReMemory, Zenon
<1>11. SlotNow(i, karenas[i].uaddr, karenas[i].cur, karenas[i].size, n, karenas[i].owner)
       /\ karenas'[i].bootstrapped = karenas[i].bootstrapped
  BY <1>2, <1>9, <1>10, SlotEffect
<1>12. MapsTypeOK' /\ UNCHANGED maps
  BY DEF CreateAllocates, KaTypeOK, MapsTypeOK
<1>13. regions' = regions \cup {n}
  BY <1>3 DEF CreateAllocates
<1>14. OtherTypeOK'
  <2>1. regions' \subseteq 1 .. Len(made')
    <3>1. regions \subseteq 1 .. Len(made) /\ Len(made) \in Nat
      BY <1>3 DEF KaTypeOK, OtherTypeOK
    <3>2. n \in 1 .. Len(made') /\ \A m \in 1 .. Len(made) : m \in 1 .. Len(made')
      BY <1>3, <3>1
    <3> QED
      BY <1>13, <3>1, <3>2
  <2> QED
    BY <1>3, <2>1 DEF CreateAllocates, KaTypeOK, OtherTypeOK
<1>15. TableTypeOK'
  <2>1. Len(made) \in Nat /\ Len(made) <= Len(made') /\ n <= Len(made') /\ Len(made') \in Nat
    BY <1>3
  <2> QED
    BY <1>2, <1>11, <2>1, TableFacts, TableStep
<1> QED
  BY <1>2, <1>3, <1>6, <1>7, <1>11, <1>12, <1>13, <1>14, <1>15 DEF KaTypeOK

(* A mapping gets a number of its own.                                     *)
LEMMA MmapEffect ==
  ASSUME KaTypeOK, NEW p \in Procs, karena_mmap(p), NEW i, i = proc[p].slot
  PROVE  /\ KaTypeOK' /\ i \in Slots
         /\ index # i => "raced" \in causes'
         /\ \/ /\ UNCHANGED <<karenas, maps, held, within>>
               /\ index = NoSlot \/ karenas[index].uaddr # 0 \/ proc[p].size > karenas[index].size
               /\ ProcNow(p, "close", proc[p].file, i, proc[p].size, proc[p].from, proc[p].addr)
            \/ \E n \in Nat \ {0} :
               /\ index \in Slots /\ karenas[index].uaddr = 0
               /\ \A v \in maps : v.vma # n
               /\ maps' = maps \cup {[vma |-> n, proc |-> p, slot |-> index]}
               /\ SlotNow(index, n * Span, karenas[index].cur, karenas[index].size,
                          karenas[index].kaddr, karenas[index].owner)
               /\ karenas'[index].bootstrapped = karenas[index].bootstrapped
               /\ held' = [held EXCEPT ![p] = @ \cup {i}] /\ within' = [within EXCEPT ![i] = {}]
               /\ ProcNow(p, "idle", proc[p].file, NoSlot, 0, NoSlot, 0)
<1>1. proc[p].at = "mmap"
  BY DEF karena_mmap, At
<1>2. i \in Slots
  BY <1>1, StageFacts DEF Stage
<1>3. index # i => "raced" \in causes'
  BY DEF karena_mmap, Raced
<1>4. PICK n : n = 1 + Max({v.vma : v \in maps} \cup {0})
  OBVIOUS
<1>5. n \in Nat \ {0} /\ \A v \in maps : v.vma # n
  <2>1. PICK S : S = {v.vma : v \in maps}
    OBVIOUS
  <2>2. IsFiniteSet(S)
    <3>1. IsFiniteSet(maps)
      BY DEF KaTypeOK, MapsTypeOK
    <3>2. PICK f : f = [v \in maps |-> v.vma]
      OBVIOUS
    <3>3. f \in Surjection(maps, S)
      BY <2>1, <3>2 DEF Surjection
    <3> QED
      BY <3>1, <3>3, FS_Surjection
  <2>3. PICK T : T = S \cup {0}
    OBVIOUS
  <2>4. IsFiniteSet(T)
    BY <2>2, <2>3, FS_AddElement
  <2>5. T \subseteq Nat
    BY <2>1, <2>3 DEF KaTypeOK, MapsTypeOK
  <2>6. Max(T) \in T /\ \A y \in T : Max(T) >= y
    <3>1. T \subseteq Int /\ T # {}
      BY <2>3, <2>5
    <3> QED
      BY <2>4, <3>1, MaxFacts
  <2>7. n = 1 + Max(T) /\ Max(T) \in Nat
    BY <1>4, <2>1, <2>3, <2>5, <2>6
  <2>8. \A v \in maps : v.vma \in T
    BY <2>1, <2>3
  <2>9. \A y \in T : y # n
    BY <2>5, <2>6, <2>7
  <2> QED
    BY <2>7, <2>8, <2>9
<1>6. OtherTypeOK' /\ UNCHANGED made
  <2>1. held' \in [Procs -> SUBSET Slots] /\ within' \in [Slots -> SUBSET Slots]
    <3>1. held \in [Procs -> SUBSET Slots] /\ within \in [Slots -> SUBSET Slots]
      BY DEF KaTypeOK, OtherTypeOK
    <3>2. CASE UNCHANGED <<held, within>>
      BY <3>1, <3>2
    <3>3. CASE held' = [held EXCEPT ![p] = @ \cup {i}] /\ within' = [within EXCEPT ![i] = {}]
      BY <3>1, <3>3, <1>2
    <3> QED
      BY <3>2, <3>3 DEF karena_mmap
  <2> QED
    BY <2>1 DEF karena_mmap, KaTypeOK, OtherTypeOK, Raced
<1> DEFINE refused == index = NoSlot \/ karenas[index].uaddr # 0 \/ proc[p].size > karenas[index].size
<1>7. CASE refused
  <2>1. UNCHANGED <<karenas, maps, held, within>> /\ proc' = [proc EXCEPT ![p].at = "close"]
    BY <1>7 DEF karena_mmap, Goto
  <2>2. PICK r : r = [proc[p] EXCEPT !.at = "close"]
    OBVIOUS
  <2>3. proc' = [proc EXCEPT ![p] = r]
    BY <2>1, <2>2
  <2>4. ProcNow(p, "close", proc[p].file, i, proc[p].size, proc[p].from, proc[p].addr)
    <3>1. "close" \in Labels
      BY DEF Labels
    <3>2. Holds(r, "close", proc[p].file, i, proc[p].size, proc[p].from, proc[p].addr)
      BY <2>2, <3>1, StageFacts, ReAt
    <3> QED
      BY <2>3, <3>2, ProcEffect
  <2>5. ProcTypeOK'
    <3>1. \A v \in maps' : v \in maps \/ v.proc = p
      BY <2>1
    <3> QED
      BY <2>4, <3>1, StageEffect
  <2>6. TableTypeOK' /\ MapsTypeOK'
    BY <2>1, <1>6 DEF KaTypeOK, TableTypeOK, MapsTypeOK
  <2> QED
    BY <1>2, <1>3, <1>6, <1>7, <2>1, <2>4, <2>5, <2>6 DEF KaTypeOK
<1>8. CASE ~refused
  <2>1. index \in Slots /\ karenas[index].uaddr = 0
    BY <1>8 DEF KaTypeOK, OtherTypeOK
  <2>2. /\ karenas' = [karenas EXCEPT ![index].uaddr = n * Span]
        /\ maps' = maps \cup {[vma |-> n, proc |-> p, slot |-> index]}
        /\ held' = [held EXCEPT ![p] = @ \cup {i}] /\ within' = [within EXCEPT ![i] = {}]
        /\ Return(p)
    BY <1>4, <1>8 DEF karena_mmap
  <2>3. PICK k : k = [karenas[index] EXCEPT !.uaddr = n * Span]
    OBVIOUS
  <2>4. karenas' = [karenas EXCEPT ![index] = k]
    BY <2>2, <2>3, Zenon
  <2>5. n * Span \in Nat
    BY <1>5, PageFacts
  <2>6. Has(k, n * Span, karenas[index].cur, karenas[index].size, karenas[index].kaddr, karenas[index].owner)
        /\ k.bootstrapped = karenas[index].bootstrapped
    BY <2>1, <2>3, <2>5, TableFacts, ReAddress
  <2>7. SlotNow(index, n * Span, karenas[index].cur, karenas[index].size,
                karenas[index].kaddr, karenas[index].owner)
        /\ karenas'[index].bootstrapped = karenas[index].bootstrapped
    BY <2>1, <2>4, <2>6, SlotEffect
  <2>8. ProcNow(p, "idle", proc[p].file, NoSlot, 0, NoSlot, 0)
    BY <2>2, StageFacts, ReIdle, ProcEffect DEF Return
  <2>9. ProcTypeOK'
    <3>1. \A v \in maps' : v \in maps \/ v.proc = p
      BY <2>2
    <3> QED
      BY <2>8, <3>1, StageEffect
  <2>10. TableTypeOK'
    BY <1>6, <2>1, <2>7, TableFacts, TableStep
  <2>11. MapsTypeOK'
    <3>1. PICK w : w = [vma |-> n, proc |-> p, slot |-> index]
      OBVIOUS
    <3>2. w \in [vma : Nat \ {0}, proc : Procs, slot : Slots] /\ w.vma = n /\ maps' = maps \cup {w}
      BY <1>5, <2>1, <2>2, <3>1
    <3>3. IsFiniteSet(maps')
      BY <3>2, FS_AddElement DEF KaTypeOK, MapsTypeOK
    <3> QED
      BY <1>5, <3>2, <3>3 DEF KaTypeOK, MapsTypeOK
  <2> QED
    BY <1>2, <1>3, <1>5, <1>6, <2>1, <2>2, <2>7, <2>8, <2>9, <2>10, <2>11 DEF KaTypeOK
<1> QED
  BY <1>7, <1>8

(* A ka_create that failed closes the device.                              *)
LEMMA CreateFailsEffect ==
  ASSUME KaTypeOK, NEW p \in Procs, CreateFails(p)
  PROVE  /\ KaTypeOK'
         /\ \/ /\ ProcNow(p, "idle", "closed", NoSlot, 0, NoSlot, 0)
               /\ \E v \in maps : v.proc = p
            \/ /\ ProcNow(p, "release", "closed", NoSlot, 0, 0, 0)
               /\ \A v \in maps : v.proc # p
         /\ proc[p].slot # NoSlot => "unmapped" \in causes'
         /\ causes \subseteq causes'
<1>1. TableTypeOK' /\ MapsTypeOK' /\ UNCHANGED maps
  BY DEF CreateFails, KaTypeOK, TableTypeOK, MapsTypeOK
<1>2. OtherTypeOK'
  BY DEF CreateFails, KaTypeOK, OtherTypeOK
<1>3. /\ proc[p].slot # NoSlot => "unmapped" \in causes'
      /\ causes \subseteq causes'
  BY DEF CreateFails
<1>4. \A v \in maps' : v \in maps \/ v.proc = p
  BY <1>1
<1>5. CASE \E v \in maps : v.proc = p
  <2>1. proc' = [proc EXCEPT ![p] = [Idle EXCEPT !.file = "closed"]]
    BY <1>5 DEF CreateFails
  <2>2. ProcNow(p, "idle", "closed", NoSlot, 0, NoSlot, 0)
    BY <2>1, ReIdle, ProcEffect
  <2>3. ProcTypeOK'
    BY <2>2, <1>4, StageEffect
  <2> QED
    BY <1>1, <1>2, <1>3, <1>5, <2>2, <2>3 DEF KaTypeOK
<1>6. CASE ~ \E v \in maps : v.proc = p
  <2>1. proc' = [proc EXCEPT ![p] = [Idle EXCEPT !.file = "closed", !.at = "release", !.from = 0]]
    BY <1>6 DEF CreateFails
  <2>2. ProcNow(p, "release", "closed", NoSlot, 0, 0, 0)
    BY <2>1, ReIdle, ProcEffect
  <2>3. ProcTypeOK'
    <3>1. 0 \in 0 .. SlotCount /\ \A v \in maps' : v.proc # p
      BY <1>1, <1>6, NoSlotNot
    <3> QED
      BY <2>2, <3>1, <1>4, StageEffect
  <2> QED
    BY <1>1, <1>2, <1>3, <1>6, <2>2, <2>3 DEF KaTypeOK
<1> QED
  BY <1>5, <1>6

(* The position of an arena in use is moved; blocks and arenas are taken   *)
(* or given up.                                                            *)
LEMMA MoveEffect ==
  ASSUME KaTypeOK, NEW i \in Slots, NEW c \in Nat, c <= karenas[i].size,
         karenas' = [karenas EXCEPT ![i].cur = c], UNCHANGED made
  PROVE  /\ TableTypeOK' /\ karenas'[i].bootstrapped = karenas[i].bootstrapped
         /\ SlotNow(i, karenas[i].uaddr, c, karenas[i].size, karenas[i].kaddr, karenas[i].owner)
<1>1. PICK k : k = [karenas[i] EXCEPT !.cur = c]
  OBVIOUS
<1>2. karenas' = [karenas EXCEPT ![i] = k]
  BY <1>1, Zenon
<1>3. Has(k, karenas[i].uaddr, c, karenas[i].size, karenas[i].kaddr, karenas[i].owner)
      /\ k.bootstrapped = karenas[i].bootstrapped
  BY <1>1, TableFacts, RePosition
<1>4. SlotNow(i, karenas[i].uaddr, c, karenas[i].size, karenas[i].kaddr, karenas[i].owner)
      /\ karenas'[i].bootstrapped = karenas[i].bootstrapped
  BY <1>2, <1>3, SlotEffect
<1>5. TableTypeOK'
  BY <1>4, TableFacts, TableStep
<1> QED
  BY <1>4, <1>5

(* A process uses an arena it holds, and is in no other call.              *)
LEMMA MayFacts ==
  ASSUME KaTypeOK, NEW p \in Procs, NEW i, May(p, i)
  PROVE  i \in Slots /\ i \in held[p] /\ proc[p].at = "idle" /\ proc[p].slot = NoSlot /\ ~oops
<1>1. Stage(p)
  BY StageFacts
<1> QED
  BY <1>1 DEF KaTypeOK, OtherTypeOK, May, At, Stage

(* The memory taken has its type.                                          *)
LEMMA NewBlockType ==
  ASSUME KaTypeOK, NEW p \in Procs, NEW i \in Slots, NEW size \in Nat
  PROVE  NewBlock(p, i, size) \subseteq [proc : Procs, lo : Nat, hi : Nat]
<1>1. PICK b : b = [proc |-> p, lo |-> karenas[i].uaddr + karenas[i].cur,
                    hi |-> karenas[i].uaddr + karenas[i].cur + size]
  OBVIOUS
<1>2. karenas[i].uaddr + karenas[i].cur \in Nat /\ karenas[i].uaddr + karenas[i].cur + size \in Nat
  <2>1. karenas[i].uaddr \in Nat /\ karenas[i].cur \in Nat
    BY TableFacts, Zenon
  <2> QED
    BY <2>1
<1>3. b \in [proc : Procs, lo : Nat, hi : Nat]
  BY <1>1, <1>2
<1>4. NewBlock(p, i, size) = blocks \cup {b}
  BY <1>1 DEF NewBlock
<1> QED
  BY <1>3, <1>4 DEF KaTypeOK, OtherTypeOK

(* ka_alloc, and ka_reserve with room.                                     *)
Takes(p, i, size) ==
  /\ May(p, i) /\ size \in Nat /\ size > 0 /\ karenas[i].cur + size <= karenas[i].size
  /\ karenas' = [karenas EXCEPT ![i].cur = karenas[i].cur + size]
  /\ blocks' = NewBlock(p, i, size)
  /\ UNCHANGED <<registered, index, regions, made, maps, proc, held, within, oops, causes>>

(* ka_seek and ka_pop.                                                     *)
MovesBack(p, i, pos) ==
  /\ May(p, i) /\ pos \in Nat /\ pos <= karenas[i].cur
  /\ karenas' = [karenas EXCEPT ![i].cur = pos] /\ GiveUp(p, i, pos)
  /\ UNCHANGED <<registered, index, regions, made, maps, proc, within, oops, causes>>

(* ka_alloc and ka_reserve take memory or do nothing, ka_seek and ka_pop   *)
(* move a position back.                                                   *)
LEMMA CallsAre ==
  ASSUME KaTypeOK, NEW p \in Procs, NEW i \in Slots, NEW size \in Sizes
  PROVE  /\ ka_alloc(p, i, size) => Takes(p, i, size)
         /\ ka_reserve(p, i, size) => Takes(p, i, size) \/ UNCHANGED vars
         /\ ka_seek(p, i, size) => MovesBack(p, i, size)
         /\ ka_pop(p, i, size) => MovesBack(p, i, karenas[i].cur - size)
<1>1. size \in Nat /\ karenas[i].cur \in Nat
  BY TableFacts, KernelAssumption DEF Sizes
<1>2. ka_alloc(p, i, size) => Takes(p, i, size)
  BY <1>1 DEF ka_alloc, Takes, handle_arena_alloc, HasRoom
<1>3. ka_reserve(p, i, size) => Takes(p, i, size) \/ UNCHANGED vars
  <2> SUFFICES ASSUME ka_reserve(p, i, size) PROVE Takes(p, i, size) \/ UNCHANGED vars
    OBVIOUS
  <2>1. CASE HasRoom(i, size)
    BY <1>1, <2>1 DEF ka_reserve, Takes, handle_arena_reserve, HasRoom
  <2>2. CASE ~HasRoom(i, size)
    BY <2>2 DEF ka_reserve, handle_arena_reserve, vars, kaVars
  <2> QED
    BY <2>1, <2>2
<1>4. ka_seek(p, i, size) => MovesBack(p, i, size)
  BY <1>1 DEF ka_seek, MovesBack, handle_arena_seek
<1>5. ka_pop(p, i, size) => MovesBack(p, i, karenas[i].cur - size)
  <2> SUFFICES ASSUME ka_pop(p, i, size) PROVE MovesBack(p, i, karenas[i].cur - size)
    OBVIOUS
  <2>1. karenas[i].cur >= size /\ karenas[i].cur - size \in Nat /\ karenas[i].cur - size <= karenas[i].cur
    BY <1>1 DEF ka_pop, handle_arena_pop
  <2> QED
    BY <2>1 DEF ka_pop, MovesBack, handle_arena_pop
<1> QED
  BY <1>2, <1>3, <1>4, <1>5

(* Memory is taken.                                                        *)
LEMMA TakesEffect ==
  ASSUME KaTypeOK, NEW p \in Procs, NEW i \in Slots, NEW size, Takes(p, i, size), NEW c, c = karenas[i].cur + size
  PROVE  /\ KaTypeOK' /\ c \in Nat /\ c <= karenas[i].size
         /\ SlotNow(i, karenas[i].uaddr, c, karenas[i].size, karenas[i].kaddr, karenas[i].owner)
         /\ karenas'[i].bootstrapped = karenas[i].bootstrapped
<1>1. c \in Nat /\ c <= karenas[i].size /\ UNCHANGED made /\ size \in Nat
  BY TableFacts DEF Takes
<1>2. karenas' = [karenas EXCEPT ![i].cur = c]
  BY DEF Takes
<1>3. /\ TableTypeOK' /\ karenas'[i].bootstrapped = karenas[i].bootstrapped
      /\ SlotNow(i, karenas[i].uaddr, c, karenas[i].size, karenas[i].kaddr, karenas[i].owner)
  BY <1>1, <1>2, MoveEffect
<1>4. MapsTypeOK' /\ ProcTypeOK'
  BY DEF Takes, KaTypeOK, MapsTypeOK, ProcTypeOK, Stage
<1>5. OtherTypeOK'
  BY <1>1, NewBlockType DEF Takes, KaTypeOK, OtherTypeOK
<1> QED
  BY <1>1, <1>3, <1>4, <1>5 DEF KaTypeOK

(* What a process keeps when a position moves back has its type.           *)
LEMMA KeptTypes ==
  ASSUME KaTypeOK, NEW p \in Procs, NEW i, NEW pos, NEW S \in SUBSET Slots
  PROVE  /\ KeptBlocks(p, i, pos) \subseteq blocks
         /\ KeptBlocks(p, i, pos) \subseteq [proc : Procs, lo : Nat, hi : Nat]
         /\ Kept(p, i, pos) \subseteq held[p] /\ Kept(p, i, pos) \subseteq Slots
         /\ [held EXCEPT ![p] = S] \in [Procs -> SUBSET Slots]
         /\ [held EXCEPT ![p] = S][p] = S
         /\ \A q \in Procs : q # p => [held EXCEPT ![p] = S][q] = held[q]
<1>1. held \in [Procs -> SUBSET Slots] /\ blocks \subseteq [proc : Procs, lo : Nat, hi : Nat]
  BY DEF KaTypeOK, OtherTypeOK
<1>2. /\ [held EXCEPT ![p] = S] \in [Procs -> SUBSET Slots]
      /\ [held EXCEPT ![p] = S][p] = S
      /\ \A q \in Procs : q # p => [held EXCEPT ![p] = S][q] = held[q]
  BY <1>1
<1>3. KeptBlocks(p, i, pos) \subseteq blocks
  BY DEF KeptBlocks
<1>4. Kept(p, i, pos) \subseteq held[p]
  BY DEF Kept
<1> QED
  BY <1>1, <1>2, <1>3, <1>4

(* A position moves back.                                                  *)
LEMMA MovesBackEffect ==
  ASSUME KaTypeOK, NEW p \in Procs, NEW i \in Slots, NEW pos, MovesBack(p, i, pos)
  PROVE  /\ KaTypeOK' /\ pos \in Nat /\ pos <= karenas[i].size
         /\ SlotNow(i, karenas[i].uaddr, pos, karenas[i].size, karenas[i].kaddr, karenas[i].owner)
         /\ karenas'[i].bootstrapped = karenas[i].bootstrapped
         /\ blocks' = KeptBlocks(p, i, pos) /\ held'[p] = Kept(p, i, pos)
         /\ \A q \in Procs : q # p => held'[q] = held[q]
<1>1. pos \in Nat /\ pos <= karenas[i].size /\ UNCHANGED made
  BY TableFacts DEF MovesBack
<1>2. karenas' = [karenas EXCEPT ![i].cur = pos]
  BY DEF MovesBack
<1>3. /\ TableTypeOK' /\ karenas'[i].bootstrapped = karenas[i].bootstrapped
      /\ SlotNow(i, karenas[i].uaddr, pos, karenas[i].size, karenas[i].kaddr, karenas[i].owner)
  BY <1>1, <1>2, MoveEffect
<1>4. MapsTypeOK' /\ ProcTypeOK'
  BY DEF MovesBack, KaTypeOK, MapsTypeOK, ProcTypeOK, Stage
<1>5. blocks' = KeptBlocks(p, i, pos) /\ held' = [held EXCEPT ![p] = Kept(p, i, pos)]
  BY DEF MovesBack, GiveUp
<1>6. Kept(p, i, pos) \in SUBSET Slots
  BY KeptTypes
<1>7. /\ held' \in [Procs -> SUBSET Slots] /\ held'[p] = Kept(p, i, pos)
      /\ \A q \in Procs : q # p => held'[q] = held[q]
      /\ blocks' \subseteq [proc : Procs, lo : Nat, hi : Nat]
  BY <1>5, <1>6, KeptTypes
<1>8. OtherTypeOK'
  BY <1>7 DEF MovesBack, KaTypeOK, OtherTypeOK
<1> QED
  BY <1>1, <1>3, <1>4, <1>5, <1>7, <1>8 DEF KaTypeOK

(* The table m is as t but for slot i, which is k.                         *)
LEMMA TablePut ==
  ASSUME NEW t \in [Slots -> Slot], NEW i \in Slots, NEW k \in Slot, NEW m, m = [t EXCEPT ![i] = k]
  PROVE  m \in [Slots -> Slot] /\ m[i] = k /\ \A j \in Slots : j # i => m[j] = t[j]
BY Zenon

(* A slot is found for a bootstrapped arena, or none; the position of the  *)
(* arena below has moved.                                                  *)
LEMMA BootstrapFindsEffect ==
  ASSUME KaTypeOK, NEW p \in Procs, NEW i \in Slots, NEW size \in Sizes, BootstrapFindsSlot(p, i, size),
         NEW c, c = karenas[i].cur + size
  PROVE  /\ KaTypeOK' /\ c \in Nat /\ c <= karenas[i].size /\ size \in Nat /\ size > 0
         /\ \/ /\ SlotNow(i, karenas[i].uaddr, c, karenas[i].size, karenas[i].kaddr, karenas[i].owner)
               /\ karenas'[i].bootstrapped = karenas[i].bootstrapped
               /\ UNCHANGED proc
            \/ \E j \in Slots :
               /\ karenas[j].uaddr = 0 /\ karenas' \in [Slots -> Slot]
               /\ j # i =>
                    /\ Has(karenas'[i], karenas[i].uaddr, c, karenas[i].size, karenas[i].kaddr, karenas[i].owner)
                    /\ karenas'[i].bootstrapped = karenas[i].bootstrapped
                    /\ Has(karenas'[j], 1, karenas[j].cur, karenas[j].size, karenas[j].kaddr, karenas[j].owner)
                    /\ karenas'[j].bootstrapped = karenas[j].bootstrapped
               /\ ProcNow(p, "bootstrap", proc[p].file, j, size, i, karenas[i].uaddr + karenas[i].cur)
               /\ \A l \in Slots : l # i /\ l # j => karenas'[l] = karenas[l]
               /\ j \in Busy(p) => "raced" \in causes'
<1>1. size \in Nat /\ size > 0 /\ c \in Nat /\ c <= karenas[i].size
  <2>1. size > 0 /\ karenas[i].size - karenas[i].cur >= size
    BY DEF BootstrapFindsSlot
  <2>2. size \in Nat
    BY KernelAssumption DEF Sizes
  <2>3. karenas[i].size \in Nat /\ karenas[i].cur \in Nat
    BY TableFacts
  <2> QED
    BY <2>1, <2>2, <2>3
<1>2. MapsTypeOK' /\ UNCHANGED <<made, maps>>
  BY DEF BootstrapFindsSlot, KaTypeOK, MapsTypeOK
<1>3. OtherTypeOK'
  BY DEF BootstrapFindsSlot, KaTypeOK, OtherTypeOK, Raced
<1>4. PICK j : j = find_open_slot
  OBVIOUS
<1>5. j = NoSlot \/ (j \in Slots /\ karenas[j].uaddr = 0)
  BY <1>4, FindFacts
<1>6. CASE j = NoSlot
  <2>1. karenas' = [karenas EXCEPT ![i].cur = c] /\ UNCHANGED proc
    BY <1>4, <1>6 DEF BootstrapFindsSlot
  <2>2. /\ TableTypeOK' /\ karenas'[i].bootstrapped = karenas[i].bootstrapped
        /\ SlotNow(i, karenas[i].uaddr, c, karenas[i].size, karenas[i].kaddr, karenas[i].owner)
    BY <1>1, <1>2, <2>1, MoveEffect
  <2>3. ProcTypeOK'
    BY <1>2, <2>1 DEF KaTypeOK, ProcTypeOK, Stage
  <2> QED
    BY <1>1, <1>2, <1>3, <2>1, <2>2, <2>3 DEF KaTypeOK
<1>7. CASE j \in Slots
  <2>0. j # NoSlot
    BY <1>7, NoSlotNot
  <2>1. PICK k : k = [karenas[i] EXCEPT !.cur = c]
    OBVIOUS
  <2>2. PICK m : m = [karenas EXCEPT ![i] = k]
    OBVIOUS
  <2>3. PICK h : h = [m[j] EXCEPT !.uaddr = 1]
    OBVIOUS
  <2>4. karenas' = [m EXCEPT ![j] = h]
    <3>1. m = [karenas EXCEPT ![i].cur = c]
      BY <2>1, <2>2, Zenon
    <3>2. karenas' = [m EXCEPT ![j].uaddr = 1]
      BY <1>4, <2>0, <3>1 DEF BootstrapFindsSlot
    <3> QED
      BY <2>3, <3>2, Zenon
  <2>5. Has(k, karenas[i].uaddr, c, karenas[i].size, karenas[i].kaddr, karenas[i].owner)
        /\ k.bootstrapped = karenas[i].bootstrapped
    BY <1>1, <2>1, TableFacts, RePosition
  <2>6. m \in [Slots -> Slot] /\ m[i] = k /\ \A l \in Slots : l # i => m[l] = karenas[l]
    <3>1. karenas \in [Slots -> Slot] /\ k \in Slot
      BY <2>5 DEF KaTypeOK, TableTypeOK, Has
    <3> QED
      BY <2>2, <3>1, TablePut
  <2>7. m[j] \in Slot
    BY <1>7, <2>6
  <2>8. Has(h, 1, m[j].cur, m[j].size, m[j].kaddr, m[j].owner) /\ h.bootstrapped = m[j].bootstrapped
    BY <2>3, <2>7, ReAddress
  <2>9. karenas' \in [Slots -> Slot] /\ karenas'[j] = h /\ \A l \in Slots : l # j => karenas'[l] = m[l]
    <3>1. h \in Slot
      BY <2>8 DEF Has
    <3> QED
      BY <1>7, <2>4, <2>6, <3>1, TablePut
  <2>10. TableTypeOK'
    <3>1. \A l \in Slots : m[l].cur <= m[l].size /\ m[l].kaddr <= Len(made)
      BY <1>1, <2>5, <2>6, TableFacts DEF Has
    <3>2. \A l \in Slots : karenas'[l].cur = m[l].cur /\ karenas'[l].size = m[l].size
                           /\ karenas'[l].kaddr = m[l].kaddr
      BY <2>8, <2>9 DEF Has
    <3> QED
      BY <1>2, <2>9, <3>1, <3>2 DEF TableTypeOK
  <2>11. PICK d : d = karenas[i].uaddr + karenas[i].cur
    OBVIOUS
  <2>12. PICK r : r = [proc[p] EXCEPT !.at = "bootstrap", !.slot = j, !.size = size, !.from = i, !.addr = d]
    OBVIOUS
  <2>13. proc' = [proc EXCEPT ![p] = r]
    BY <1>4, <2>0, <2>11, <2>12 DEF BootstrapFindsSlot
  <2>14. ProcNow(p, "bootstrap", proc[p].file, j, size, i, d)
    <3>1. /\ d \in Nat /\ size \in 0 .. Span - 2 /\ i \in NoSlot .. SlotCount
          /\ j \in Slots \cup {NoSlot}
      <4>1. karenas[i].uaddr \in Nat /\ karenas[i].cur \in Nat
        BY TableFacts
      <4>2. i \in NoSlot .. SlotCount
        BY NoSlotNot
      <4>3. size \in 0 .. Span - 2
        BY PageFacts, KernelAssumption DEF Sizes
      <4> QED
        BY <1>7, <2>11, <4>1, <4>2, <4>3
    <3>2. "bootstrap" \in Labels
      BY DEF Labels
    <3>3. Holds(r, "bootstrap", proc[p].file, j, size, i, d)
      BY <2>12, <3>1, <3>2, StageFacts, ReBootstrap
    <3> QED
      BY <2>13, <3>3, ProcEffect
  <2>15. ProcTypeOK'
    <3>1. \A v \in maps' : v \in maps \/ v.proc = p
      BY <1>2
    <3> QED
      BY <1>7, <2>14, <3>1, StageEffect
  <2>16. j \in Busy(p) => "raced" \in causes'
    BY <1>4, <2>0 DEF BootstrapFindsSlot, Raced
  <2>17. j # i =>
           /\ Has(karenas'[i], karenas[i].uaddr, c, karenas[i].size, karenas[i].kaddr, karenas[i].owner)
           /\ karenas'[i].bootstrapped = karenas[i].bootstrapped
           /\ Has(karenas'[j], 1, karenas[j].cur, karenas[j].size, karenas[j].kaddr, karenas[j].owner)
           /\ karenas'[j].bootstrapped = karenas[j].bootstrapped
    BY <1>7, <2>5, <2>6, <2>8, <2>9
  <2>18. \A l \in Slots : l # i /\ l # j => karenas'[l] = karenas[l]
    BY <2>6, <2>9
  <2>19. karenas[j].uaddr = 0
    BY <1>5, <2>0
  <2>20. KaTypeOK'
    BY <1>2, <1>3, <2>10, <2>15 DEF KaTypeOK
  <2> QED
    BY <1>1, <1>7, <2>9, <2>11, <2>14, <2>16, <2>17, <2>18, <2>19, <2>20
<1> QED
  BY <1>5, <1>6, <1>7

(* What the arena in slot j was bootstrapped out of becomes S.             *)
WithinNow(j, S) == within'[j] = S /\ \A l \in Slots : l # j => within'[l] = within[l]

(* ka_bootstrap fills the slot in.                                         *)
LEMMA BootstrapFillsEffect ==
  ASSUME KaTypeOK, NEW p \in Procs, BootstrapFillsSlot(p), NEW i, i = proc[p].from, NEW j, j = proc[p].slot
  PROVE  /\ KaTypeOK' /\ i \in Slots /\ j \in Slots
         /\ ProcNow(p, "idle", proc[p].file, NoSlot, 0, NoSlot, 0)
         /\ SlotNow(j, proc[p].addr, 0, proc[p].size, karenas[i].kaddr, karenas[i].owner)
         /\ karenas'[j].bootstrapped = TRUE
         /\ held'[p] = held[p] \cup {j} /\ \A q \in Procs : q # p => held'[q] = held[q]
         /\ WithinNow(j, {i} \cup within[i])
<1>1. proc[p].at = "bootstrap"
  BY DEF BootstrapFillsSlot, At
<1>2. i \in Slots /\ j \in Slots
  BY <1>1, StageFacts DEF Stage
<1>3. MapsTypeOK' /\ UNCHANGED <<made, maps>>
  BY DEF BootstrapFillsSlot, KaTypeOK, MapsTypeOK
<1>4. PICK k : k = [uaddr |-> proc[p].addr, cur |-> 0, size |-> proc[p].size, bootstrapped |-> TRUE,
                    kaddr |-> karenas[i].kaddr, owner |-> karenas[i].owner]
  OBVIOUS
<1>5. karenas' = [karenas EXCEPT ![j] = k]
  BY <1>4, Zenon DEF BootstrapFillsSlot
<1>6. Has(k, proc[p].addr, 0, proc[p].size, karenas[i].kaddr, karenas[i].owner) /\ k.bootstrapped = TRUE
  <2>1. /\ proc[p].addr \in Nat /\ 0 \in Nat /\ proc[p].size \in 0 .. Span - 2
        /\ karenas[i].kaddr \in Nat /\ karenas[i].owner \in Procs \cup {NoProc}
    BY <1>2, StageFacts, TableFacts
  <2> QED
    BY <1>4, <2>1, Zenon DEF Has, Slot
<1>7. SlotNow(j, proc[p].addr, 0, proc[p].size, karenas[i].kaddr, karenas[i].owner)
      /\ karenas'[j].bootstrapped = TRUE
  BY <1>2, <1>5, <1>6, SlotEffect
<1>8. TableTypeOK'
  <2>1. 0 <= proc[p].size
    BY StageFacts, PageFacts
  <2> QED
    BY <1>2, <1>3, <1>7, <2>1, TableFacts, TableStep
<1>9. ProcNow(p, "idle", proc[p].file, NoSlot, 0, NoSlot, 0)
  BY StageFacts, ReIdle, ProcEffect DEF BootstrapFillsSlot, Return
<1>10. ProcTypeOK'
  <2>1. \A v \in maps' : v \in maps \/ v.proc = p
    BY <1>3
  <2> QED
    BY <1>9, <2>1, StageEffect
<1>11. /\ held' \in [Procs -> SUBSET Slots] /\ within' \in [Slots -> SUBSET Slots]
       /\ held'[p] = held[p] \cup {j} /\ \A q \in Procs : q # p => held'[q] = held[q]
       /\ within'[j] = {i} \cup within[i] /\ \A l \in Slots : l # j => within'[l] = within[l]
  <2>1. held \in [Procs -> SUBSET Slots] /\ within \in [Slots -> SUBSET Slots]
    BY DEF KaTypeOK, OtherTypeOK
  <2>2. /\ held' = [held EXCEPT ![p] = held[p] \cup {j}]
        /\ within' = [within EXCEPT ![j] = {i} \cup within[i]]
    BY DEF BootstrapFillsSlot
  <2> QED
    BY <1>2, <2>1, <2>2
<1>12. OtherTypeOK'
  BY <1>11 DEF BootstrapFillsSlot, KaTypeOK, OtherTypeOK
<1> QED
  BY <1>2, <1>3, <1>7, <1>8, <1>9, <1>10, <1>11, <1>12 DEF KaTypeOK, WithinNow

(* ka_destroy clears the slot.                                             *)
LEMMA DestroyClearsEffect ==
  ASSUME KaTypeOK, NEW p \in Procs, NEW i \in Slots, DestroyClears(p, i)
  PROVE  /\ KaTypeOK'
         /\ ProcNow(p, "destroy", proc[p].file, i, proc[p].size, proc[p].from, proc[p].addr)
         /\ SlotNow(i, 0, 0, 0, karenas[i].kaddr, NoProc)
         /\ karenas'[i].bootstrapped = karenas[i].bootstrapped
         /\ held'[p] = Kept(p, i, 0) \ {i} /\ \A q \in Procs : q # p => held'[q] = held[q]
<1>1. MapsTypeOK' /\ UNCHANGED <<made, maps>>
  BY DEF DestroyClears, KaTypeOK, MapsTypeOK
<1>2. PICK k : k = Cleared(karenas[i])
  OBVIOUS
<1>3. karenas' = [karenas EXCEPT ![i] = k]
  BY <1>2 DEF DestroyClears
<1>4. Has(k, 0, 0, 0, karenas[i].kaddr, NoProc) /\ k.bootstrapped = karenas[i].bootstrapped
  BY <1>2, TableFacts, ReCleared
<1>5. SlotNow(i, 0, 0, 0, karenas[i].kaddr, NoProc) /\ karenas'[i].bootstrapped = karenas[i].bootstrapped
  BY <1>3, <1>4, SlotEffect
<1>6. TableTypeOK'
  BY <1>1, <1>5, TableFacts, TableStep
<1>7. PICK r : r = [proc[p] EXCEPT !.at = "destroy", !.slot = i]
  OBVIOUS
<1>8. proc' = [proc EXCEPT ![p] = r]
  BY <1>7 DEF DestroyClears
<1>9. ProcNow(p, "destroy", proc[p].file, i, proc[p].size, proc[p].from, proc[p].addr)
  <2>1. "destroy" \in Labels /\ i \in Slots \cup {NoSlot}
    BY DEF Labels
  <2>2. Holds(r, "destroy", proc[p].file, i, proc[p].size, proc[p].from, proc[p].addr)
    BY <1>7, <2>1, StageFacts, ReAtSlot
  <2> QED
    BY <1>8, <2>2, ProcEffect
<1>10. ProcTypeOK'
  <2>1. \A v \in maps' : v \in maps \/ v.proc = p
    BY <1>1
  <2> QED
    BY <1>9, <2>1, StageEffect
<1>11. /\ held' \in [Procs -> SUBSET Slots] /\ held'[p] = Kept(p, i, 0) \ {i}
       /\ \A q \in Procs : q # p => held'[q] = held[q]
  <2>1. PICK S : S = Kept(p, i, 0) \ {i}
    OBVIOUS
  <2>2. held' = [held EXCEPT ![p] = S]
    BY <2>1 DEF DestroyClears
  <2>3. Kept(p, i, 0) \subseteq Slots
    BY KeptTypes
  <2>4. S \in SUBSET Slots
    BY <2>1, <2>3
  <2>5. held' \in [Procs -> SUBSET Slots] /\ held'[p] = S /\ \A q \in Procs : q # p => held'[q] = held[q]
    BY <2>2, <2>4, KeptTypes
  <2> QED
    BY <2>1, <2>5
<1>12. OtherTypeOK'
  <2>1. blocks' \subseteq [proc : Procs, lo : Nat, hi : Nat]
    BY KeptTypes DEF DestroyClears
  <2> QED
    BY <1>11, <2>1 DEF DestroyClears, KaTypeOK, OtherTypeOK
<1> QED
  BY <1>1, <1>5, <1>6, <1>9, <1>10, <1>11, <1>12 DEF KaTypeOK

(* ka_destroy frees the memory.                                            *)
LEMMA DestroyFreesEffect ==
  ASSUME KaTypeOK, NEW p \in Procs, DestroyFrees(p), NEW i, i = proc[p].slot
  PROVE  /\ KaTypeOK' /\ i \in Slots
         /\ ProcNow(p, "idle", proc[p].file, NoSlot, 0, NoSlot, 0)
         /\ SlotNow(i, karenas[i].uaddr, karenas[i].cur, karenas[i].size, karenas[i].kaddr, karenas[i].owner)
         /\ karenas'[i].bootstrapped = FALSE
<1>1. proc[p].at = "destroy"
  BY DEF DestroyFrees, At
<1>2. i \in Slots
  BY <1>1, StageFacts DEF Stage
<1>3. MapsTypeOK' /\ UNCHANGED <<made, maps>>
  BY DEF DestroyFrees, KaTypeOK, MapsTypeOK
<1>4. PICK k : k = [karenas[i] EXCEPT !.bootstrapped = FALSE]
  OBVIOUS
<1>5. karenas' = [karenas EXCEPT ![i] = k]
  BY <1>4, Zenon DEF DestroyFrees
<1>6. Has(k, karenas[i].uaddr, karenas[i].cur, karenas[i].size, karenas[i].kaddr, karenas[i].owner)
      /\ k.bootstrapped = FALSE
  BY <1>2, <1>4, TableFacts, ReCreated
<1>7. SlotNow(i, karenas[i].uaddr, karenas[i].cur, karenas[i].size, karenas[i].kaddr, karenas[i].owner)
      /\ karenas'[i].bootstrapped = FALSE
  BY <1>2, <1>5, <1>6, SlotEffect
<1>8. TableTypeOK'
  BY <1>2, <1>3, <1>7, TableFacts, TableStep
<1>9. ProcNow(p, "idle", proc[p].file, NoSlot, 0, NoSlot, 0)
  BY StageFacts, ReIdle, ProcEffect DEF DestroyFrees, Return
<1>10. ProcTypeOK'
  <2>1. \A v \in maps' : v \in maps \/ v.proc = p
    BY <1>3
  <2> QED
    BY <1>9, <2>1, StageEffect
<1>11. OtherTypeOK'
  <2>1. regions' \subseteq regions
    BY DEF DestroyFrees, Vfree
  <2>2. oops' \in BOOLEAN
    <3>1. oops \in BOOLEAN
      BY DEF KaTypeOK, OtherTypeOK
    <3>2. CASE UNCHANGED oops
      BY <3>1, <3>2
    <3>3. CASE Vfree(karenas[i].kaddr)
      BY <3>3, Zenon DEF Vfree
    <3> QED
      BY <3>2, <3>3 DEF DestroyFrees
  <2> QED
    BY <2>1, <2>2 DEF DestroyFrees, KaTypeOK, OtherTypeOK
<1> QED
  BY <1>2, <1>3, <1>7, <1>8, <1>9, <1>10, <1>11 DEF KaTypeOK

(* A process ends.                                                         *)
LEMMA ProcessExitsEffect ==
  ASSUME KaTypeOK, NEW p \in Procs, ProcessExits(p)
  PROVE  /\ KaTypeOK'
         /\ \/ ProcNow(p, "release", "closed", NoSlot, 0, 0, 0)
            \/ /\ ProcNow(p, "idle", "closed", NoSlot, 0, NoSlot, 0) /\ proc[p].file # "open"
               /\ \A v \in maps : v.proc # p
         /\ held'[p] = {} /\ \A q \in Procs : q # p => held'[q] = held[q]
         /\ causes \subseteq causes'
<1>1. MapsTypeOK' /\ maps' = {v \in maps : v.proc # p}
  <2>1. maps' = {v \in maps : v.proc # p} /\ maps' \subseteq maps
    BY DEF ProcessExits
  <2>2. IsFiniteSet(maps')
    BY <2>1, FS_Subset DEF KaTypeOK, MapsTypeOK
  <2> QED
    BY <2>1, <2>2 DEF KaTypeOK, MapsTypeOK
<1>2. TableTypeOK'
  BY DEF ProcessExits, KaTypeOK, TableTypeOK
<1>3. /\ held' \in [Procs -> SUBSET Slots] /\ held'[p] = {}
      /\ \A q \in Procs : q # p => held'[q] = held[q]
  BY DEF ProcessExits, KaTypeOK, OtherTypeOK
<1>4. OtherTypeOK'
  <2>1. causes' \subseteq {"raced", "unmapped", "bootstrapped"}
    BY DEF ProcessExits, KaTypeOK, OtherTypeOK
  <2>2. blocks' \subseteq blocks
    BY DEF ProcessExits
  <2> QED
    BY <1>3, <2>1, <2>2 DEF ProcessExits, KaTypeOK, OtherTypeOK
<1>5. \A v \in maps' : v \in maps \/ v.proc = p
  BY <1>1
<1>6. causes \subseteq causes'
  BY DEF ProcessExits
<1>7. CASE proc[p].file = "open" \/ \E v \in maps : v.proc = p
  <2>1. proc' = [proc EXCEPT ![p] = [Idle EXCEPT !.file = "closed", !.at = "release", !.from = 0]]
    BY <1>7 DEF ProcessExits
  <2>2. ProcNow(p, "release", "closed", NoSlot, 0, 0, 0)
    BY <2>1, ReIdle, ProcEffect
  <2>3. ProcTypeOK'
    <3>1. 0 \in 0 .. SlotCount /\ \A v \in maps' : v.proc # p
      BY <1>1, NoSlotNot
    <3> QED
      BY <2>2, <3>1, <1>5, StageEffect
  <2> QED
    BY <1>1, <1>2, <1>3, <1>4, <1>6, <2>2, <2>3 DEF KaTypeOK
<1>8. CASE ~(proc[p].file = "open" \/ \E v \in maps : v.proc = p)
  <2>1. proc' = [proc EXCEPT ![p] = [Idle EXCEPT !.file = "closed"]]
    BY <1>8 DEF ProcessExits
  <2>2. ProcNow(p, "idle", "closed", NoSlot, 0, NoSlot, 0)
    BY <2>1, ReIdle, ProcEffect
  <2>3. ProcTypeOK'
    BY <2>2, <1>5, StageEffect
  <2> QED
    BY <1>1, <1>2, <1>3, <1>4, <1>6, <1>8, <2>2, <2>3 DEF KaTypeOK
<1> QED
  BY <1>7, <1>8

(* dev_release clears a slot, goes on to the next, or ends.                *)
LEMMA ReleaseClearsEffect ==
  ASSUME KaTypeOK, NEW p \in Procs, ReleaseClears(p), NEW i, i = proc[p].from
  PROVE  /\ KaTypeOK' /\ i \in 0 .. SlotCount
         /\ \/ /\ i = SlotCount /\ UNCHANGED <<karenas, causes>>
               /\ ProcNow(p, "idle", proc[p].file, NoSlot, proc[p].size, NoSlot, proc[p].addr)
            \/ /\ i \in Slots /\ ~Owned(p, i) /\ UNCHANGED <<karenas, causes>>
               /\ ProcNow(p, "release", proc[p].file, NoSlot, proc[p].size, i + 1, proc[p].addr)
            \/ /\ (i \in Busy(p) => "raced" \in causes')
               /\ causes \subseteq causes' /\ causes' \subseteq causes \cup {"raced"}
               /\ i \in Slots /\ Owned(p, i)
               /\ ProcNow(p, "release", proc[p].file, i, proc[p].size, i, proc[p].addr)
               /\ SlotNow(i, 0, 0, 0, karenas[i].kaddr, NoProc)
               /\ karenas'[i].bootstrapped = karenas[i].bootstrapped
<1>1. proc[p].at = "release" /\ proc[p].slot = NoSlot
  BY DEF ReleaseClears, At
<1>2. i \in 0 .. SlotCount /\ \A v \in maps : v.proc # p
  BY <1>1, StageFacts DEF Stage
<1>3. MapsTypeOK' /\ UNCHANGED <<made, maps>>
  BY DEF ReleaseClears, KaTypeOK, MapsTypeOK
<1>4. OtherTypeOK'
  BY DEF ReleaseClears, KaTypeOK, OtherTypeOK, Raced
<1>5. (\A v \in maps' : v \in maps \/ v.proc = p) /\ \A v \in maps' : v.proc # p
  BY <1>2, <1>3
<1>8. PICK a : a = IF i = SlotCount THEN "idle" ELSE "release"
  OBVIOUS
<1>9. PICK l : l = IF i # SlotCount /\ Owned(p, i) THEN i ELSE NoSlot
  OBVIOUS
<1>10. PICK m : m = IF i = SlotCount THEN NoSlot ELSE IF i # SlotCount /\ Owned(p, i) THEN i ELSE i + 1
  OBVIOUS
<1>11. PICK r : r = [proc[p] EXCEPT !.at = a, !.slot = l, !.from = m]
  OBVIOUS
<1>12. proc' = [proc EXCEPT ![p] = r]
  <2>1. proc' = [proc EXCEPT ![p].at = a, ![p].slot = l, ![p].from = m]
    BY <1>1, <1>8, <1>9, <1>10 DEF ReleaseClears
  <2> QED
    BY <2>1, <1>11
<1>13. a \in Labels /\ l \in Slots \cup {NoSlot} /\ m \in NoSlot .. SlotCount
  BY <1>2, <1>8, <1>9, <1>10, NoSlotNot DEF Labels
<1>14. ProcNow(p, a, proc[p].file, l, proc[p].size, m, proc[p].addr)
  <2>1. Holds(r, a, proc[p].file, l, proc[p].size, m, proc[p].addr)
    BY <1>11, <1>13, StageFacts, ReAtSlotFrom
  <2> QED
    BY <1>12, <2>1, ProcEffect
<1>15. ProcTypeOK'
  <2>1. a = "idle" => l = NoSlot
    BY <1>8, <1>9
  <2>2. a = "release" => m \in 0 .. SlotCount /\ l \in {NoSlot, m}
    BY <1>2, <1>8, <1>9, <1>10, NoSlotNot
  <2>3. a \in {"idle", "release"}
    BY <1>8
  <2> QED
    BY <1>5, <1>14, <2>1, <2>2, <2>3, StageEffect
<1>16. CASE i = SlotCount
  <2>1. UNCHANGED <<karenas, causes>>
    BY <1>16 DEF ReleaseClears, Raced
  <2>2. TableTypeOK'
    BY <1>3, <2>1 DEF KaTypeOK, TableTypeOK
  <2> QED
    BY <1>2, <1>3, <1>4, <1>8, <1>9, <1>10, <1>14, <1>15, <1>16, <2>1, <2>2 DEF KaTypeOK
<1>17. CASE i # SlotCount /\ ~Owned(p, i)
  <2>1. UNCHANGED <<karenas, causes>> /\ i \in Slots
    BY <1>2, <1>17, NoSlotNot DEF ReleaseClears, Raced
  <2>2. TableTypeOK'
    BY <1>3, <2>1 DEF KaTypeOK, TableTypeOK
  <2> QED
    BY <1>2, <1>3, <1>4, <1>8, <1>9, <1>10, <1>14, <1>15, <1>17, <2>1, <2>2 DEF KaTypeOK
<1>18. CASE i # SlotCount /\ Owned(p, i)
  <2>1. i \in Slots /\ (i \in Busy(p) => "raced" \in causes')
        /\ causes \subseteq causes' /\ causes' \subseteq causes \cup {"raced"}
    BY <1>2, <1>18, NoSlotNot DEF ReleaseClears, Raced
  <2>2. PICK k : k = Cleared(karenas[i])
    OBVIOUS
  <2>3. karenas' = [karenas EXCEPT ![i] = k]
    BY <1>18, <2>2 DEF ReleaseClears
  <2>4. Has(k, 0, 0, 0, karenas[i].kaddr, NoProc) /\ k.bootstrapped = karenas[i].bootstrapped
    BY <2>1, <2>2, TableFacts, ReCleared
  <2>5. SlotNow(i, 0, 0, 0, karenas[i].kaddr, NoProc) /\ karenas'[i].bootstrapped = karenas[i].bootstrapped
    BY <2>1, <2>3, <2>4, SlotEffect
  <2>6. TableTypeOK'
    BY <1>3, <2>1, <2>5, TableFacts, TableStep
  <2> QED
    BY <1>2, <1>3, <1>4, <1>8, <1>9, <1>10, <1>14, <1>15, <1>18, <2>1, <2>5, <2>6 DEF KaTypeOK
<1> QED
  BY <1>16, <1>17, <1>18

(* dev_release frees the memory of a slot, or meets a bootstrapped arena   *)
(* and ends.                                                               *)
LEMMA ReleaseFreesEffect ==
  ASSUME KaTypeOK, NEW p \in Procs, ReleaseFrees(p), NEW i, i = proc[p].slot
  PROVE  /\ KaTypeOK' /\ i \in Slots /\ i = proc[p].from
         /\ \/ /\ karenas[i].bootstrapped /\ UNCHANGED <<regions, oops>>
               /\ ProcNow(p, "idle", proc[p].file, NoSlot, 0, NoSlot, 0)
               /\ SlotNow(i, karenas[i].uaddr, karenas[i].cur, karenas[i].size,
                          karenas[i].kaddr, karenas[i].owner)
               /\ karenas'[i].bootstrapped = FALSE
            \/ /\ ~karenas[i].bootstrapped /\ Vfree(karenas[i].kaddr)
               /\ ProcNow(p, "release", proc[p].file, NoSlot, proc[p].size, i + 1, proc[p].addr)
               /\ SlotNow(i, karenas[i].uaddr, karenas[i].cur, karenas[i].size, 0, karenas[i].owner)
               /\ karenas'[i].bootstrapped = FALSE
<1>1. proc[p].at = "release" /\ i # NoSlot
  BY DEF ReleaseFrees, At
<1>2. i \in Slots /\ i = proc[p].from /\ i \in 0 .. SlotCount /\ \A v \in maps : v.proc # p
  BY <1>1, StageFacts DEF Stage
<1>3. MapsTypeOK' /\ UNCHANGED <<made, maps>>
  BY DEF ReleaseFrees, KaTypeOK, MapsTypeOK
<1>4. OtherTypeOK'
  <2>1. regions' \subseteq regions
    BY DEF ReleaseFrees, Vfree
  <2>2. oops' \in BOOLEAN
    <3>1. oops \in BOOLEAN
      BY DEF KaTypeOK, OtherTypeOK
    <3>2. CASE UNCHANGED oops
      BY <3>1, <3>2
    <3>3. CASE Vfree(karenas[i].kaddr)
      BY <3>3, Zenon DEF Vfree
    <3> QED
      BY <3>2, <3>3 DEF ReleaseFrees
  <2> QED
    BY <2>1, <2>2 DEF ReleaseFrees, KaTypeOK, OtherTypeOK
<1>5. (\A v \in maps' : v \in maps \/ v.proc = p) /\ \A v \in maps' : v.proc # p
  BY <1>2, <1>3
<1>6. CASE karenas[i].bootstrapped
  <2>1. /\ karenas' = [karenas EXCEPT ![i].bootstrapped = FALSE]
        /\ Return(p) /\ UNCHANGED <<regions, oops>>
    BY <1>6 DEF ReleaseFrees
  <2>2. PICK k : k = [karenas[i] EXCEPT !.bootstrapped = FALSE]
    OBVIOUS
  <2>3. karenas' = [karenas EXCEPT ![i] = k]
    BY <2>1, <2>2, Zenon
  <2>4. Has(k, karenas[i].uaddr, karenas[i].cur, karenas[i].size, karenas[i].kaddr, karenas[i].owner)
        /\ k.bootstrapped = FALSE
    BY <1>2, <2>2, TableFacts, ReCreated
  <2>5. SlotNow(i, karenas[i].uaddr, karenas[i].cur, karenas[i].size, karenas[i].kaddr, karenas[i].owner)
        /\ karenas'[i].bootstrapped = FALSE
    BY <1>2, <2>3, <2>4, SlotEffect
  <2>6. TableTypeOK'
    BY <1>2, <1>3, <2>5, TableFacts, TableStep
  <2>7. ProcNow(p, "idle", proc[p].file, NoSlot, 0, NoSlot, 0)
    BY <2>1, StageFacts, ReIdle, ProcEffect DEF Return
  <2>8. ProcTypeOK'
    BY <1>5, <2>7, StageEffect
  <2> QED
    BY <1>2, <1>3, <1>4, <1>6, <2>1, <2>5, <2>6, <2>7, <2>8 DEF KaTypeOK
<1>7. CASE ~karenas[i].bootstrapped
  <2>1. /\ karenas' = [karenas EXCEPT ![i].kaddr = 0] /\ Vfree(karenas[i].kaddr)
        /\ proc' = [proc EXCEPT ![p].slot = NoSlot, ![p].from = i + 1]
    BY <1>2, <1>7 DEF ReleaseFrees
  <2>2. PICK k : k = [karenas[i] EXCEPT !.kaddr = 0]
    OBVIOUS
  <2>3. karenas' = [karenas EXCEPT ![i] = k]
    BY <2>1, <2>2, Zenon
  <2>4. Has(k, karenas[i].uaddr, karenas[i].cur, karenas[i].size, 0, karenas[i].owner)
        /\ k.bootstrapped = karenas[i].bootstrapped
    BY <1>2, <2>2, TableFacts, ReMemory
  <2>5. SlotNow(i, karenas[i].uaddr, karenas[i].cur, karenas[i].size, 0, karenas[i].owner)
        /\ karenas'[i].bootstrapped = karenas[i].bootstrapped
    BY <1>2, <2>3, <2>4, SlotEffect
  <2>6. TableTypeOK'
    BY <1>2, <1>3, <2>5, TableFacts, TableStep
  <2>7. PICK r : r = [proc[p] EXCEPT !.slot = NoSlot, !.from = i + 1]
    OBVIOUS
  <2>8. proc' = [proc EXCEPT ![p] = r]
    BY <2>1, <2>7
  <2>9. i + 1 \in 0 .. SlotCount /\ i + 1 \in NoSlot .. SlotCount
    BY <1>2, NoSlotNot
  <2>10. ProcNow(p, "release", proc[p].file, NoSlot, proc[p].size, i + 1, proc[p].addr)
    <3>1. proc[p] \in Process /\ NoSlot \in Slots \cup {NoSlot}
      BY StageFacts
    <3>2. Holds(r, proc[p].at, proc[p].file, NoSlot, proc[p].size, i + 1, proc[p].addr)
      BY <2>7, <2>9, <3>1, ReSlotFrom
    <3>3. Holds(r, "release", proc[p].file, NoSlot, proc[p].size, i + 1, proc[p].addr)
      BY <1>1, <3>2
    <3> QED
      BY <2>8, <3>3, ProcEffect
  <2>11. ProcTypeOK'
    BY <1>5, <2>9, <2>10, StageEffect
  <2>12. karenas'[i].bootstrapped = FALSE
    <3>1. karenas[i].bootstrapped \in BOOLEAN
      BY <1>2, TableFacts, SlotFields
    <3> QED
      BY <1>7, <2>5, <3>1
  <2>13. KaTypeOK'
    BY <1>3, <1>4, <2>6, <2>11 DEF KaTypeOK
  <2> QED
    BY <1>2, <1>7, <2>1, <2>5, <2>10, <2>12, <2>13
<1> QED
  BY <1>6, <1>7

(* The device is opened.                                                   *)
LEMMA DevOpenEffect ==
  ASSUME KaTypeOK, NEW p \in Procs, dev_open(p)
  PROVE  /\ KaTypeOK'
         /\ ProcNow(p, "idle", "open", NoSlot, proc[p].size, proc[p].from, proc[p].addr)
<1>1. proc[p].at = "idle"
  BY DEF dev_open, At
<1>2. proc[p].slot = NoSlot
  BY <1>1, StageFacts DEF Stage
<1>3. MapsTypeOK' /\ UNCHANGED <<made, maps>>
  BY DEF dev_open, KaTypeOK, MapsTypeOK
<1>4. TableTypeOK'
  BY DEF dev_open, KaTypeOK, TableTypeOK
<1>5. OtherTypeOK'
  BY DEF dev_open, KaTypeOK, OtherTypeOK
<1>6. PICK r : r = [proc[p] EXCEPT !.file = "open"]
  OBVIOUS
<1>7. proc' = [proc EXCEPT ![p] = r]
  BY <1>6 DEF dev_open
<1>8. ProcNow(p, "idle", "open", NoSlot, proc[p].size, proc[p].from, proc[p].addr)
  <2>1. Holds(r, "idle", "open", NoSlot, proc[p].size, proc[p].from, proc[p].addr)
    BY <1>1, <1>2, <1>6, StageFacts, ReFile
  <2> QED
    BY <1>7, <2>1, ProcEffect
<1>9. ProcTypeOK'
  <2>1. \A v \in maps' : v \in maps \/ v.proc = p
    BY <1>3
  <2> QED
    BY <1>8, <2>1, StageEffect
<1> QED
  BY <1>3, <1>4, <1>5, <1>8, <1>9 DEF KaTypeOK

(* vmalloc fails.                                                          *)
LEMMA OutOfMemoryEffect ==
  ASSUME KaTypeOK, NEW p \in Procs, CreateOutOfMemory(p)
  PROVE  KaTypeOK'
<1>1. TableTypeOK' /\ MapsTypeOK' /\ OtherTypeOK'
  BY DEF CreateOutOfMemory, KaTypeOK, TableTypeOK, MapsTypeOK, OtherTypeOK
<1>2. ProcTypeOK'
  BY DEF CreateOutOfMemory, KaTypeOK, ProcTypeOK, Stage
<1> QED
  BY <1>1, <1>2 DEF KaTypeOK

(* The module is loaded.                                                   *)
LEMMA LoadsEffect ==
  ASSUME KaTypeOK, ModuleLoads
  PROVE  KaTypeOK'
<1>1. TableTypeOK' /\ MapsTypeOK'
  BY DEF ModuleLoads, kaVars, KaTypeOK, TableTypeOK, MapsTypeOK
<1>2. ProcTypeOK'
  BY DEF ModuleLoads, kaVars, KaTypeOK, ProcTypeOK, Stage
<1>3. registered' \in {{}, Registered}
  <2>1. ASSUME NEW i \in 1 .. 4
        PROVE  {Steps[j] : j \in 1 .. i - 1} \ Undone[i] = {}
    <3>1. CASE i = 1
      <4>1. 1 .. i - 1 = {}
        BY <3>1
      <4> QED
        BY <4>1
    <3>2. CASE i = 2
      <4>1. \A j \in 1 .. i - 1 : j = 1
        BY <3>2
      <4> QED
        BY <3>2, <4>1 DEF Steps, Undone
    <3>3. CASE i = 3
      <4>1. \A j \in 1 .. i - 1 : j = 1 \/ j = 2
        BY <3>3
      <4> QED
        BY <3>3, <4>1 DEF Steps, Undone
    <3>4. CASE i = 4
      <4>1. \A j \in 1 .. i - 1 : j = 1 \/ j = 2 \/ j = 3
        BY <3>4
      <4> QED
        BY <3>4, <4>1 DEF Steps, Undone
    <3> QED
      BY <3>1, <3>2, <3>3, <3>4
  <2> QED
    BY <2>1 DEF ModuleLoads, karena_init
<1>4. OtherTypeOK'
  BY <1>3 DEF ModuleLoads, kaVars, KaTypeOK, OtherTypeOK
<1> QED
  BY <1>1, <1>2, <1>4 DEF KaTypeOK

(* The module is unloaded, and the table with it.                          *)
LEMMA UnloadsEffect ==
  ASSUME KaTypeOK, ModuleUnloads
  PROVE  /\ KaTypeOK'
         /\ \A i \in Slots : Has(karenas'[i], 0, 0, 0, 0, NoProc) /\ karenas'[i].bootstrapped = FALSE
<1>1. Open \in Slot /\ Has(Open, 0, 0, 0, 0, NoProc) /\ Open.bootstrapped = FALSE
  <2>1. 0 \in 0 .. Span - 2 /\ 0 \in Nat
    BY PageFacts
  <2> QED
    BY <2>1, Zenon DEF Open, Slot, Has
<1>2. karenas' \in [Slots -> Slot] /\ \A i \in Slots : karenas'[i] = Open
  BY <1>1 DEF ModuleUnloads
<1>3. MapsTypeOK' /\ UNCHANGED <<made, maps>>
  BY DEF ModuleUnloads, KaTypeOK, MapsTypeOK
<1>4. TableTypeOK'
  <2>1. Len(made) \in Nat
    BY DEF KaTypeOK, OtherTypeOK
  <2> QED
    BY <1>1, <1>2, <1>3, <2>1 DEF TableTypeOK, Has
<1>5. ProcTypeOK'
  BY DEF ModuleUnloads, KaTypeOK, ProcTypeOK, Stage
<1>6. OtherTypeOK'
  BY DEF ModuleUnloads, karena_exit, KaTypeOK, OtherTypeOK
<1> QED
  BY <1>1, <1>2, <1>3, <1>4, <1>5, <1>6 DEF KaTypeOK

(* The first state has its types.                                          *)
LEMMA InitTypes == Init => KaTypeOK
<1> SUFFICES ASSUME Init PROVE KaTypeOK
  OBVIOUS
<1>1. Open \in Slot /\ Has(Open, 0, 0, 0, 0, NoProc)
  <2>1. 0 \in 0 .. Span - 2 /\ 0 \in Nat
    BY PageFacts
  <2> QED
    BY <2>1, Zenon DEF Open, Slot, Has
<1>2. karenas \in [Slots -> Slot] /\ \A i \in Slots : karenas[i] = Open
  BY <1>1 DEF Init
<1>3. made \in Seq(Procs) /\ Len(made) = 0
  BY DEF Init
<1>4. TableTypeOK
  BY <1>1, <1>2, <1>3 DEF TableTypeOK, Has
<1>5. MapsTypeOK
  BY FS_EmptySet DEF Init, MapsTypeOK
<1>6. ProcTypeOK
  <2>1. \A p \in Procs : proc[p] = Idle
    BY DEF Init
  <2>2. Idle \in Process /\ Idle.at = "idle" /\ Idle.slot = NoSlot
    BY ReIdle DEF Idle
  <2> QED
    BY <2>1, <2>2 DEF Init, ProcTypeOK, Stage
<1>7. OtherTypeOK
  BY <1>3 DEF Init, OtherTypeOK
<1> QED
  BY <1>4, <1>5, <1>6, <1>7 DEF KaTypeOK

(* The part of the invariant about what no race can have disturbed.        *)
Safe == Handlers /\ RegionsKept /\ \A p \in Procs : Nested(p)

(* A slot that is used by a mapping is not open.                           *)
LEMMA MappedLive ==
  ASSUME KaTypeOK, NEW v, NEW p, NEW lo, NEW hi, Covers(v, p, lo, hi)
  PROVE  /\ v.slot \in Slots /\ Live(v.slot) /\ karenas[v.slot].owner = p
         /\ v.vma \in Nat \ {0} /\ v.vma * Span \in Nat /\ v.vma * Span >= 2
<1>1. v \in maps /\ karenas[v.slot].uaddr = v.vma * Span /\ karenas[v.slot].owner = p
  BY DEF Covers
<1>2. v.slot \in Slots /\ v.vma \in Nat \ {0}
  BY <1>1 DEF KaTypeOK, MapsTypeOK
<1>3. ASSUME NEW n \in Nat \ {0}, NEW s \in Nat, s >= 2
      PROVE  n * s \in Nat /\ n * s >= 2
  <2>1. PICK m \in Nat : n = m + 1
    <3>1. n - 1 \in Nat /\ n = (n - 1) + 1
      OBVIOUS
    <3> QED
      BY <3>1
  <2>2. m * s \in Nat
    BY <2>1
  <2>3. n * s = m * s + s
    BY <2>1
  <2> QED
    BY <1>3, <2>2, <2>3
<1>4. v.vma * Span \in Nat /\ v.vma * Span >= 2
  BY <1>2, <1>3, PageFacts
<1>5. karenas[v.slot].uaddr > 1
  BY <1>1, <1>4
<1> QED
  BY <1>1, <1>2, <1>4, <1>5 DEF Live

(* What process q has is left alone.                                       *)
Untouched(q) ==
  /\ held'[q] = held[q]
  /\ \A i \in Slots : Live(i) /\ karenas[i].owner = q =>
       karenas'[i] = karenas[i] /\ within'[i] = within[i]
  /\ \A v \in maps : v.proc = q => v \in maps'
  /\ \A b \in blocks' : b.proc = q => b \in blocks
  /\ proc'[q].at = "bootstrap" => proc'[q] = proc[q]
  /\ proc'[q].at = "release" => held[q] = {} /\ \A b \in blocks : b.proc # q

(* What is left alone stays nested.                                        *)
LEMMA UntouchedNests ==
  ASSUME KaTypeOK, NEW q \in Procs, Nested(q), Untouched(q)
  PROVE  Nested(q)'
<1>0. held[q] \subseteq Slots /\ within \in [Slots -> SUBSET Slots]
  BY DEF KaTypeOK, OtherTypeOK
<1>1. ASSUME NEW v, NEW lo, NEW hi, Covers(v, q, lo, hi)
      PROVE  Covers(v, q, lo, hi)' /\ v \in maps'
  <2>1. v.slot \in Slots /\ Live(v.slot) /\ karenas[v.slot].owner = q
    BY <1>1, MappedLive
  <2>2. karenas'[v.slot] = karenas[v.slot]
    BY <2>1 DEF Untouched
  <2> QED
    BY <1>1, <2>2 DEF Covers, Untouched
<1>2. ASSUME NEW i \in Slots, Live(i), karenas[i].owner = q
      PROVE  karenas'[i] = karenas[i] /\ within'[i] = within[i]
  BY <1>2 DEF Untouched
<1>3. \A i \in held[q] : i \in Slots /\ karenas'[i] = karenas[i] /\ within'[i] = within[i]
  BY <1>0, <1>2 DEF Nested, ArenasNest
<1>4. ArenasNest(q)'
  <2>1. ASSUME NEW i \in held[q]
        PROVE  /\ Live(i)' /\ karenas'[i].owner = q /\ karenas'[i].size > 0
               /\ \E v \in maps' : /\ v.slot \in {i} \cup within'[i]
                                   /\ Covers(v, q, karenas[i].uaddr, End(i))'
               /\ \A e \in within'[i] : /\ Live(e)' /\ karenas'[e].owner = q
                                        /\ karenas'[e].uaddr <= karenas'[i].uaddr
    <3>1. /\ Live(i) /\ karenas[i].owner = q /\ karenas[i].size > 0
          /\ \E v \in maps : v.slot \in {i} \cup within[i] /\ Covers(v, q, karenas[i].uaddr, End(i))
          /\ \A e \in within[i] : Live(e) /\ karenas[e].owner = q /\ karenas[e].uaddr <= karenas[i].uaddr
      BY DEF Nested, ArenasNest
    <3>2. karenas'[i] = karenas[i] /\ within'[i] = within[i] /\ End(i)' = End(i) /\ Live(i)'
      BY <1>3, <3>1 DEF End, Live
    <3>3. \A e \in within'[i] : Live(e)' /\ karenas'[e].owner = q /\ karenas'[e].uaddr <= karenas'[i].uaddr
      <4>1. within[i] \subseteq Slots
        BY <1>0
      <4>2. \A e \in within[i] : karenas'[e] = karenas[e]
        BY <1>2, <3>1, <4>1
      <4> QED
        BY <3>1, <3>2, <4>2 DEF Live
    <3>4. PICK v \in maps : v.slot \in {i} \cup within[i] /\ Covers(v, q, karenas[i].uaddr, End(i))
      BY <3>1
    <3>5. v \in maps' /\ Covers(v, q, karenas[i].uaddr, End(i))'
      BY <1>1, <3>2, <3>4 DEF Covers
    <3>6. v.slot \in {i} \cup within'[i]
      BY <3>2, <3>4
    <3>7. karenas'[i].owner = q /\ karenas'[i].size > 0
      BY <3>1, <3>2
    <3> QED
      BY <3>2, <3>3, <3>5, <3>6, <3>7
  <2>2. ASSUME NEW i \in held[q], NEW j \in held[q], i # j
        PROVE  \/ Outside(karenas[i].uaddr, End(i), j)'
               \/ j \in within'[i] /\ InUsed(karenas[i].uaddr, End(i), j)'
               \/ i \in within'[j] /\ InUsed(karenas[j].uaddr, End(j), i)'
    <3>1. \/ Outside(karenas[i].uaddr, End(i), j)
          \/ j \in within[i] /\ InUsed(karenas[i].uaddr, End(i), j)
          \/ i \in within[j] /\ InUsed(karenas[j].uaddr, End(j), i)
      BY <2>2 DEF Nested, ArenasNest
    <3>2. /\ karenas'[i] = karenas[i] /\ within'[i] = within[i]
          /\ karenas'[j] = karenas[j] /\ within'[j] = within[j]
      BY <1>3
    <3> QED
      BY <3>1, <3>2 DEF Outside, InUsed, End
  <2>3. held'[q] = held[q]
    BY DEF Untouched
  <2> QED
    BY <2>1, <2>2, <2>3 DEF ArenasNest
<1>5. BlocksNest(q)'
  <2>1. ASSUME NEW b \in blocks', b.proc = q
        PROVE  /\ b.lo < b.hi /\ \E v \in maps' : Covers(v, q, b.lo, b.hi)'
               /\ \A i \in held'[q] : Outside(b.lo, b.hi, i)' \/ InUsed(b.lo, b.hi, i)'
               /\ \A c \in blocks' : c.proc = q /\ c # b => b.hi <= c.lo \/ c.hi <= b.lo
    <3>1. b \in blocks /\ (\A c \in blocks' : c.proc = q => c \in blocks) /\ held'[q] = held[q]
      BY <2>1 DEF Untouched
    <3>2. /\ b.lo < b.hi /\ \E v \in maps : Covers(v, q, b.lo, b.hi)
          /\ \A i \in held[q] : Outside(b.lo, b.hi, i) \/ InUsed(b.lo, b.hi, i)
          /\ \A c \in blocks : c.proc = q /\ c # b => b.hi <= c.lo \/ c.hi <= b.lo
      BY <2>1, <3>1 DEF Nested, BlocksNest
    <3>3. \A i \in held'[q] : Outside(b.lo, b.hi, i)' \/ InUsed(b.lo, b.hi, i)'
      BY <1>3, <3>1, <3>2 DEF Outside, InUsed
    <3>4. \E v \in maps' : Covers(v, q, b.lo, b.hi)'
      BY <1>1, <3>2
    <3> QED
      BY <3>1, <3>2, <3>3, <3>4
  <2> QED
    BY <2>1 DEF BlocksNest
<1>6. BootstrapNests(q)'
  <2>1. SUFFICES ASSUME proc'[q].at = "bootstrap" PROVE BootstrapNests(q)'
    BY DEF BootstrapNests
  <2>2. proc'[q] = proc[q] /\ held'[q] = held[q] /\ \A b \in blocks' : b.proc = q => b \in blocks
    BY <2>1 DEF Untouched
  <2>3. PICK i : i = proc[q].from
    OBVIOUS
  <2>4. PICK lo : lo = proc[q].addr
    OBVIOUS
  <2>5. PICK hi : hi = proc[q].addr + proc[q].size
    OBVIOUS
  <2>6. /\ i \in held[q] /\ lo < hi /\ InUsed(lo, hi, i)
        /\ \E v \in maps : v.slot \in {i} \cup within[i] /\ Covers(v, q, lo, hi)
        /\ \A j \in held[q] \ {i} : Outside(lo, hi, j) \/ (j \in within[i] /\ InUsed(lo, hi, j))
        /\ \A b \in blocks : b.proc = q => b.hi <= lo \/ hi <= b.lo
    BY <2>1, <2>2, <2>3, <2>4, <2>5 DEF Nested, BootstrapNests
  <2>7. karenas'[i] = karenas[i] /\ within'[i] = within[i]
    BY <1>3, <2>6
  <2>8. InUsed(lo, hi, i)'
    BY <2>6, <2>7 DEF InUsed
  <2>9. \E v \in maps' : v.slot \in {i} \cup within'[i] /\ Covers(v, q, lo, hi)'
    BY <1>1, <2>6, <2>7
  <2>10. \A j \in held'[q] \ {i} : Outside(lo, hi, j)' \/ (j \in within'[i] /\ InUsed(lo, hi, j)')
    BY <1>3, <2>2, <2>6, <2>7 DEF Outside, InUsed
  <2> QED
    BY <2>2, <2>3, <2>4, <2>5, <2>6, <2>8, <2>9, <2>10 DEF BootstrapNests
<1>7. proc'[q].at = "release" => held'[q] = {} /\ \A b \in blocks' : b.proc # q
  BY DEF Untouched
<1> QED
  BY <1>4, <1>5, <1>6, <1>7 DEF Nested

(* A process with nothing.                                                 *)
LEMMA NothingNests ==
  ASSUME NEW q, held'[q] = {}, \A b \in blocks' : b.proc # q, proc'[q].at # "bootstrap"
  PROVE  Nested(q)'
<1>1. ArenasNest(q)' /\ BlocksNest(q)' /\ BootstrapNests(q)'
  BY DEF ArenasNest, BlocksNest, BootstrapNests
<1> QED
  BY <1>1 DEF Nested

(* The numbers of a slot a process holds.                                  *)
LEMMA HeldFacts ==
  ASSUME KaTypeOK, NEW p \in Procs, ArenasNest(p), NEW i \in held[p]
  PROVE  /\ i \in Slots /\ Live(i) /\ karenas[i].owner = p
         /\ karenas[i].uaddr \in Nat /\ karenas[i].cur \in Nat /\ karenas[i].size \in Nat
         /\ karenas[i].cur <= karenas[i].size /\ karenas[i].size > 0 /\ karenas[i].size <= Span - 2
         /\ End(i) = karenas[i].uaddr + karenas[i].size /\ End(i) \in Nat
         /\ within[i] \subseteq Slots
<1>1. i \in Slots /\ within[i] \subseteq Slots
  BY DEF KaTypeOK, OtherTypeOK
<1>2. /\ karenas[i].uaddr \in Nat /\ karenas[i].cur \in Nat /\ karenas[i].size \in Nat
      /\ karenas[i].cur <= karenas[i].size /\ karenas[i].size <= Span - 2
  BY <1>1, TableFacts, PageFacts
<1>3. Live(i) /\ karenas[i].owner = p /\ karenas[i].size > 0
  BY DEF ArenasNest
<1>4. End(i) = karenas[i].uaddr + karenas[i].size
  BY DEF End
<1>5. End(i) \in Nat
  BY <1>2, <1>4
<1> QED
  BY <1>1, <1>2, <1>3, <1>4, <1>5

(* What the types say of a block.                                          *)
LEMMA BlockFacts ==
  ASSUME KaTypeOK, NEW b \in blocks
  PROVE  b.lo \in Nat /\ b.hi \in Nat /\ b.proc \in Procs
BY DEF KaTypeOK, OtherTypeOK

(* The arena in slot i keeps its place in memory.                          *)
SameShape(i) ==
  /\ karenas'[i].uaddr = karenas[i].uaddr /\ karenas'[i].size = karenas[i].size
  /\ karenas'[i].owner = karenas[i].owner /\ karenas'[i].bootstrapped = karenas[i].bootstrapped

(* A slot of the same shape covers the same addresses.                     *)
LEMMA ShapeFacts ==
  ASSUME NEW i, SameShape(i)
  PROVE  /\ Live(i)' <=> Live(i)
         /\ End(i)' = End(i) /\ karenas'[i].uaddr = karenas[i].uaddr
         /\ karenas'[i].size = karenas[i].size /\ karenas'[i].owner = karenas[i].owner
         /\ \A lo, hi : Outside(lo, hi, i)' <=> Outside(lo, hi, i)
BY DEF SameShape, Live, End, Outside

(* A mapping whose slot keeps its shape covers what it did.                *)
LEMMA CoversSame ==
  ASSUME NEW v, NEW p, NEW lo, NEW hi, Covers(v, p, lo, hi), SameShape(v.slot), v \in maps'
  PROVE  Covers(v, p, lo, hi)'
BY DEF Covers, SameShape

(* Arenas keep their places; the positions only matter where one was       *)
(* bootstrapped out of another.                                            *)
LEMMA ArenasStay ==
  ASSUME KaTypeOK, NEW p \in Procs, ArenasNest(p), held'[p] \subseteq held[p],
         UNCHANGED maps,
         \A i \in held'[p] : /\ SameShape(i) /\ within'[i] = within[i]
                             /\ \A e \in within[i] : SameShape(e)
         , \A i, j \in held'[p] : j \in within[i] /\ InUsed(karenas[i].uaddr, End(i), j)
                                 => InUsed(karenas[i].uaddr, End(i), j)'
  PROVE  ArenasNest(p)'
<1>1. ASSUME NEW i \in held'[p]
      PROVE  /\ Live(i)' /\ karenas'[i].owner = p /\ karenas'[i].size > 0
             /\ \E v \in maps' : /\ v.slot \in {i} \cup within'[i]
                                 /\ Covers(v, p, karenas[i].uaddr, End(i))'
             /\ \A e \in within'[i] : /\ Live(e)' /\ karenas'[e].owner = p
                                      /\ karenas'[e].uaddr <= karenas'[i].uaddr
  <2>1. /\ i \in held[p] /\ SameShape(i) /\ within'[i] = within[i]
        /\ \A e \in within[i] : SameShape(e)
    BY <1>1
  <2>2. /\ Live(i) /\ karenas[i].owner = p /\ karenas[i].size > 0
        /\ \E v \in maps : v.slot \in {i} \cup within[i] /\ Covers(v, p, karenas[i].uaddr, End(i))
        /\ \A e \in within[i] : Live(e) /\ karenas[e].owner = p /\ karenas[e].uaddr <= karenas[i].uaddr
    BY <2>1 DEF ArenasNest
  <2>3. /\ Live(i)' /\ karenas'[i].owner = p /\ karenas'[i].size > 0
        /\ karenas'[i].uaddr = karenas[i].uaddr /\ End(i)' = End(i)
    BY <2>1, <2>2, ShapeFacts
  <2>4. PICK v \in maps : v.slot \in {i} \cup within[i] /\ Covers(v, p, karenas[i].uaddr, End(i))
    BY <2>2
  <2>5. v \in maps' /\ SameShape(v.slot) /\ v.slot \in {i} \cup within'[i]
    BY <2>1, <2>4
  <2>6. Covers(v, p, karenas[i].uaddr, End(i))'
    <3>1. \A lo, hi : Covers(v, p, lo, hi) => Covers(v, p, lo, hi)'
      BY <2>5 DEF Covers, SameShape
    <3> QED
      BY <2>3, <2>4, <2>5 DEF Covers, SameShape
  <2>7. \A e \in within'[i] : Live(e)' /\ karenas'[e].owner = p /\ karenas'[e].uaddr <= karenas'[i].uaddr
    BY <2>1, <2>2, <2>3, ShapeFacts
  <2> QED
    BY <2>3, <2>5, <2>6, <2>7
<1>2. ASSUME NEW i \in held'[p], NEW j \in held'[p], i # j
      PROVE  \/ Outside(karenas[i].uaddr, End(i), j)'
             \/ j \in within'[i] /\ InUsed(karenas[i].uaddr, End(i), j)'
             \/ i \in within'[j] /\ InUsed(karenas[j].uaddr, End(j), i)'
  <2>1. \/ Outside(karenas[i].uaddr, End(i), j)
        \/ j \in within[i] /\ InUsed(karenas[i].uaddr, End(i), j)
        \/ i \in within[j] /\ InUsed(karenas[j].uaddr, End(j), i)
    BY <1>2 DEF ArenasNest
  <2>2. SameShape(i) /\ SameShape(j) /\ within'[i] = within[i] /\ within'[j] = within[j]
    OBVIOUS
  <2>3. CASE Outside(karenas[i].uaddr, End(i), j)
    BY <2>2, <2>3 DEF Outside, SameShape, End
  <2>4. CASE j \in within[i] /\ InUsed(karenas[i].uaddr, End(i), j)
    BY <2>2, <2>4
  <2>5. CASE i \in within[j] /\ InUsed(karenas[j].uaddr, End(j), i)
    BY <2>2, <2>5
  <2> QED
    BY <2>1, <2>3, <2>4, <2>5
<1> QED
  BY <1>1, <1>2 DEF ArenasNest

(* What an arena has left is nobody's.                                     *)
LEMMA FreshRange ==
  ASSUME KaTypeOK, NEW p \in Procs, Nested(p), NEW i \in held[p], NEW lo, NEW hi,
         lo = karenas[i].uaddr + karenas[i].cur, hi \in Nat, lo < hi, hi <= End(i)
  PROVE  /\ \E v \in maps : v.slot \in {i} \cup within[i] /\ Covers(v, p, lo, hi)
         /\ \A j \in held[p] \ {i} : Outside(lo, hi, j) \/ (j \in within[i] /\ InUsed(lo, hi, j))
         /\ \A b \in blocks : b.proc = p => b.hi <= lo \/ hi <= b.lo
<1>0. ArenasNest(p) /\ BlocksNest(p)
  BY DEF Nested
<1>1. /\ karenas[i].uaddr \in Nat /\ karenas[i].cur \in Nat /\ karenas[i].size \in Nat
      /\ End(i) = karenas[i].uaddr + karenas[i].size /\ lo \in Nat /\ End(i) \in Nat
      /\ karenas[i].uaddr <= lo /\ hi <= End(i) /\ lo < hi
  BY <1>0, HeldFacts
<1>2. \E v \in maps : v.slot \in {i} \cup within[i] /\ Covers(v, p, lo, hi)
  <2>1. PICK v \in maps : v.slot \in {i} \cup within[i] /\ Covers(v, p, karenas[i].uaddr, End(i))
    BY <1>0 DEF ArenasNest
  <2>2. v.vma * Span \in Nat /\ karenas[v.slot].size \in Nat
    BY <2>1, MappedLive, TableFacts
  <2>3. PICK a : a = v.vma * Span
    OBVIOUS
  <2>4. a <= karenas[i].uaddr /\ End(i) <= a + karenas[v.slot].size /\ a \in Nat
    BY <2>1, <2>2, <2>3 DEF Covers
  <2>5. a <= lo /\ hi <= a + karenas[v.slot].size
    BY <1>1, <2>2, <2>4
  <2>6. Covers(v, p, lo, hi)
    BY <2>1, <2>3, <2>5 DEF Covers
  <2> QED
    BY <2>1, <2>6
<1>3. ASSUME NEW j \in held[p], j # i
      PROVE  Outside(lo, hi, j) \/ (j \in within[i] /\ InUsed(lo, hi, j))
  <2>1. \/ Outside(karenas[i].uaddr, End(i), j)
        \/ j \in within[i] /\ InUsed(karenas[i].uaddr, End(i), j)
        \/ i \in within[j] /\ InUsed(karenas[j].uaddr, End(j), i)
    BY <1>0, <1>3 DEF ArenasNest
  <2>2. /\ karenas[j].uaddr \in Nat /\ karenas[j].cur \in Nat /\ karenas[j].size \in Nat
        /\ End(j) = karenas[j].uaddr + karenas[j].size
    BY <1>0, HeldFacts
  <2>3. CASE Outside(karenas[i].uaddr, End(i), j)
    BY <1>1, <2>2, <2>3 DEF Outside
  <2>4. CASE j \in within[i] /\ InUsed(karenas[i].uaddr, End(i), j)
    BY <1>1, <2>2, <2>4 DEF InUsed
  <2>5. CASE i \in within[j] /\ InUsed(karenas[j].uaddr, End(j), i)
    BY <1>1, <2>2, <2>5 DEF InUsed, Outside
  <2> QED
    BY <2>1, <2>3, <2>4, <2>5
<1>4. ASSUME NEW b \in blocks, b.proc = p
      PROVE  b.hi <= lo \/ hi <= b.lo
  <2>1. Outside(b.lo, b.hi, i) \/ InUsed(b.lo, b.hi, i)
    BY <1>0, <1>4 DEF BlocksNest
  <2>2. b.lo \in Nat /\ b.hi \in Nat
    BY BlockFacts
  <2> QED
    BY <1>1, <2>1, <2>2 DEF Outside, InUsed
<1> QED
  BY <1>2, <1>3, <1>4

(* The position of arena i moves up, over what was left of it.             *)
LEMMA GrowNests ==
  ASSUME KaTypeOK, KaTypeOK', NEW p \in Procs, Nested(p), NEW i \in held[p],
         UNCHANGED maps, held'[p] = held[p],
         \A j \in Slots : Live(j) => SameShape(j) /\ within'[j] = within[j] /\ karenas'[j].cur >= karenas[j].cur
  PROVE  /\ ArenasNest(p)'
         /\ \A b \in blocks : b.proc = p =>
              /\ b.lo < b.hi /\ \E v \in maps' : Covers(v, p, b.lo, b.hi)'
              /\ \A j \in held'[p] : Outside(b.lo, b.hi, j)' \/ InUsed(b.lo, b.hi, j)'
         /\ \A v, lo, hi : Covers(v, p, lo, hi) => Covers(v, p, lo, hi)'
         /\ \A j \in held[p], lo, hi \in Nat : InUsed(lo, hi, j) => InUsed(lo, hi, j)'
<1>0. ArenasNest(p) /\ BlocksNest(p)
  BY DEF Nested
<1>1. ASSUME NEW j \in held[p]
      PROVE  /\ j \in Slots /\ Live(j) /\ SameShape(j) /\ within'[j] = within[j]
             /\ \A e \in within[j] : SameShape(e)
             /\ karenas'[j].cur \in Nat /\ karenas[j].cur \in Nat /\ karenas[j].uaddr \in Nat
             /\ karenas'[j].cur >= karenas[j].cur
  <2>1. j \in Slots /\ Live(j) /\ karenas[j].cur \in Nat /\ karenas[j].uaddr \in Nat /\ within[j] \subseteq Slots
    BY <1>0, HeldFacts
  <2>2. karenas'[j].cur \in Nat
    <3>1. karenas'[j] \in Slot
      BY <2>1 DEF KaTypeOK, TableTypeOK
    <3> QED
      BY <3>1, SlotFields
  <2>3. \A e \in within[j] : Live(e)
    BY <1>0 DEF ArenasNest
  <2> QED
    BY <2>1, <2>2, <2>3
<1>2. ASSUME NEW j \in held[p], NEW lo \in Nat, NEW hi \in Nat, InUsed(lo, hi, j)
      PROVE  InUsed(lo, hi, j)'
  BY <1>1, <1>2 DEF InUsed, SameShape
<1>3. ArenasNest(p)'
  <2>1. \A j, k \in held'[p] : k \in within[j] /\ InUsed(karenas[j].uaddr, End(j), k)
                               => InUsed(karenas[j].uaddr, End(j), k)'
    <3> SUFFICES ASSUME NEW j \in held[p], NEW k \in held[p], k \in within[j],
                        InUsed(karenas[j].uaddr, End(j), k)
                 PROVE  InUsed(karenas[j].uaddr, End(j), k)'
      OBVIOUS
    <3>1. karenas[j].uaddr \in Nat /\ End(j) \in Nat
      BY <1>0, HeldFacts
    <3>2. karenas'[j].uaddr = karenas[j].uaddr /\ End(j)' = End(j)
      BY <1>1, ShapeFacts
    <3>3. PICK lo : lo = karenas[j].uaddr
      OBVIOUS
    <3>4. PICK hi : hi = End(j)
      OBVIOUS
    <3>5. InUsed(lo, hi, k)'
      BY <1>2, <3>1, <3>3, <3>4
    <3> QED
      BY <3>2, <3>3, <3>4, <3>5 DEF InUsed
  <2>2. \A j \in held'[p] : SameShape(j) /\ within'[j] = within[j] /\ \A e \in within[j] : SameShape(e)
    BY <1>1
  <2> QED
    BY <1>0, <2>1, <2>2, ArenasStay
<1>4. ASSUME NEW v, NEW lo, NEW hi, Covers(v, p, lo, hi)
      PROVE  Covers(v, p, lo, hi)' /\ v \in maps'
  <2>1. v.slot \in Slots /\ Live(v.slot) /\ v \in maps'
    BY <1>4, MappedLive DEF Covers
  <2>2. SameShape(v.slot)
    BY <2>1
  <2> QED
    BY <1>4, <2>1, <2>2, CoversSame
<1>5. ASSUME NEW b \in blocks, b.proc = p
      PROVE  /\ b.lo < b.hi /\ \E v \in maps' : Covers(v, p, b.lo, b.hi)'
             /\ \A j \in held'[p] : Outside(b.lo, b.hi, j)' \/ InUsed(b.lo, b.hi, j)'
  <2>1. /\ b.lo < b.hi /\ \E v \in maps : Covers(v, p, b.lo, b.hi)
        /\ \A j \in held[p] : Outside(b.lo, b.hi, j) \/ InUsed(b.lo, b.hi, j)
    BY <1>0, <1>5 DEF BlocksNest
  <2>2. \E v \in maps' : Covers(v, p, b.lo, b.hi)'
    BY <1>4, <2>1
  <2>3. \A j \in held'[p] : Outside(b.lo, b.hi, j)' \/ InUsed(b.lo, b.hi, j)'
    BY <1>1, <1>2, <2>1, BlockFacts, ShapeFacts
  <2> QED
    BY <2>1, <2>2, <2>3
<1> QED
  BY <1>2, <1>3, <1>4, <1>5

(* Only the position of arena i moves.                                     *)
LEMMA MovedShapes ==
  ASSUME NEW i \in Slots, NEW c, NEW a,
         SlotNow(i, karenas[i].uaddr, c, karenas[i].size, a, karenas[i].owner),
         karenas'[i].bootstrapped = karenas[i].bootstrapped
  PROVE  /\ \A j \in Slots : SameShape(j) /\ (j # i => karenas'[j] = karenas[j])
         /\ karenas'[i].cur = c
BY DEF SlotNow, Has, SameShape

(* Memory that is taken lies in nothing else the process has.              *)
LEMMA TakesNests ==
  ASSUME KaTypeOK, NEW p \in Procs, NEW i \in Slots, NEW size, Takes(p, i, size), Nested(p)
  PROVE  Nested(p)'
<1>0. i \in held[p] /\ proc[p].at = "idle" /\ ArenasNest(p) /\ BlocksNest(p)
  BY MayFacts DEF Takes, Nested
<1>1. PICK c : c = karenas[i].cur + size
  OBVIOUS
<1>2. /\ KaTypeOK' /\ c \in Nat /\ c <= karenas[i].size
      /\ SlotNow(i, karenas[i].uaddr, c, karenas[i].size, karenas[i].kaddr, karenas[i].owner)
      /\ karenas'[i].bootstrapped = karenas[i].bootstrapped
  BY <1>1, TakesEffect
<1>3. (\A j \in Slots : SameShape(j) /\ (j # i => karenas'[j] = karenas[j])) /\ karenas'[i].cur = c
  BY <1>2, MovedShapes
<1>4. UNCHANGED <<maps, held, within, proc>> /\ size \in Nat /\ size > 0 /\ blocks' = NewBlock(p, i, size)
  BY DEF Takes
<1>5. \A j \in Slots : karenas'[j].cur >= karenas[j].cur
  BY <1>1, <1>3, <1>4, TableFacts
<1>6. /\ ArenasNest(p)'
      /\ \A b \in blocks : b.proc = p =>
           /\ b.lo < b.hi /\ \E v \in maps' : Covers(v, p, b.lo, b.hi)'
           /\ \A j \in held'[p] : Outside(b.lo, b.hi, j)' \/ InUsed(b.lo, b.hi, j)'
      /\ \A v, lo, hi : Covers(v, p, lo, hi) => Covers(v, p, lo, hi)'
      /\ \A j \in held[p], lo, hi \in Nat : InUsed(lo, hi, j) => InUsed(lo, hi, j)'
  <2>1. held'[p] = held[p] /\ UNCHANGED maps
    BY <1>4
  <2>2. \A j \in Slots : Live(j) => SameShape(j) /\ within'[j] = within[j] /\ karenas'[j].cur >= karenas[j].cur
    BY <1>3, <1>4, <1>5
  <2> QED
    BY <1>0, <1>2, <2>1, <2>2, GrowNests
<1>7. PICK lo : lo = karenas[i].uaddr + karenas[i].cur
  OBVIOUS
<1>8. PICK hi : hi = lo + size
  OBVIOUS
<1>9. /\ lo \in Nat /\ hi \in Nat /\ lo < hi /\ hi <= End(i)
      /\ karenas[i].uaddr <= lo /\ hi <= karenas[i].uaddr + c
  BY <1>0, <1>1, <1>2, <1>4, <1>7, <1>8, HeldFacts
<1>10. /\ \E v \in maps : v.slot \in {i} \cup within[i] /\ Covers(v, p, lo, hi)
       /\ \A j \in held[p] \ {i} : Outside(lo, hi, j) \/ (j \in within[i] /\ InUsed(lo, hi, j))
       /\ \A b \in blocks : b.proc = p => b.hi <= lo \/ hi <= b.lo
  BY <1>0, <1>7, <1>9, FreshRange
<1>11. PICK n : n = [proc |-> p, lo |-> lo, hi |-> hi]
  OBVIOUS
<1>12. blocks' = blocks \cup {n} /\ n.lo = lo /\ n.hi = hi
  BY <1>4, <1>7, <1>8, <1>11 DEF NewBlock
<1>13. /\ \E v \in maps' : Covers(v, p, lo, hi)'
       /\ \A j \in held'[p] : Outside(lo, hi, j)' \/ InUsed(lo, hi, j)'
  <2>1. \E v \in maps' : Covers(v, p, lo, hi)'
    BY <1>4, <1>6, <1>10
  <2>2. ASSUME NEW j \in held[p] PROVE Outside(lo, hi, j)' \/ InUsed(lo, hi, j)'
    <3>1. CASE j = i
      <4>1. karenas'[i].uaddr = karenas[i].uaddr
        BY <1>3, ShapeFacts
      <4> QED
        BY <1>3, <1>9, <3>1, <4>1 DEF InUsed
    <3>2. CASE j # i
      <4>1. SameShape(j)
        BY <1>0, <1>3, HeldFacts
      <4> QED
        BY <1>6, <1>9, <1>10, <3>2, <4>1, ShapeFacts
    <3> QED
      BY <3>1, <3>2
  <2> QED
    BY <1>4, <2>1, <2>2
<1>14. BlocksNest(p)'
  <2>1. ASSUME NEW b \in blocks', b.proc = p
        PROVE  /\ b.lo < b.hi /\ \E v \in maps' : Covers(v, p, b.lo, b.hi)'
               /\ \A j \in held'[p] : Outside(b.lo, b.hi, j)' \/ InUsed(b.lo, b.hi, j)'
    <3>1. CASE b = n
      BY <1>9, <1>12, <1>13, <3>1
    <3>2. CASE b \in blocks
      BY <1>6, <2>1, <3>2
    <3> QED
      BY <1>12, <3>1, <3>2
  <2>2. ASSUME NEW b \in blocks', NEW d \in blocks', b.proc = p, d.proc = p, d # b
        PROVE  b.hi <= d.lo \/ d.hi <= b.lo
    <3>1. CASE b \in blocks /\ d \in blocks
      BY <1>0, <2>2, <3>1 DEF BlocksNest
    <3>2. CASE b = n /\ d \in blocks
      BY <1>10, <1>12, <2>2, <3>2
    <3>3. CASE b \in blocks /\ d = n
      BY <1>10, <1>12, <2>2, <3>3
    <3> QED
      BY <1>12, <2>2, <3>1, <3>2, <3>3
  <2> QED
    BY <2>1, <2>2 DEF BlocksNest
<1>15. BootstrapNests(p)' /\ proc'[p].at = "idle"
  BY <1>0, <1>4 DEF BootstrapNests
<1> QED
  BY <1>6, <1>14, <1>15 DEF Nested

(* What is left after ka_seek or ka_pop is nested.                         *)
LEMMA MovesBackNests ==
  ASSUME KaTypeOK, NEW p \in Procs, NEW i \in Slots, NEW pos, MovesBack(p, i, pos), Nested(p)
  PROVE  Nested(p)'
<1>0. i \in held[p] /\ proc[p].at = "idle" /\ ArenasNest(p) /\ BlocksNest(p)
  BY MayFacts DEF MovesBack, Nested
<1>1. /\ KaTypeOK' /\ pos \in Nat /\ pos <= karenas[i].size
      /\ SlotNow(i, karenas[i].uaddr, pos, karenas[i].size, karenas[i].kaddr, karenas[i].owner)
      /\ karenas'[i].bootstrapped = karenas[i].bootstrapped
      /\ blocks' = KeptBlocks(p, i, pos) /\ held'[p] = Kept(p, i, pos)
  BY MovesBackEffect
<1>2. (\A j \in Slots : SameShape(j) /\ (j # i => karenas'[j] = karenas[j])) /\ karenas'[i].cur = pos
  BY <1>1, MovedShapes
<1>3. UNCHANGED <<maps, within, proc>>
  BY DEF MovesBack
<1>4. held'[p] \subseteq held[p] /\ blocks' \subseteq blocks
  BY <1>1, KeptTypes
<1>5. karenas'[i].uaddr = karenas[i].uaddr /\ karenas'[i].size = karenas[i].size
      /\ karenas[i].uaddr \in Nat /\ karenas[i].size \in Nat
  BY <1>2, TableFacts, ShapeFacts
<1>6. ArenasNest(p)'
  <2>1. ASSUME NEW j \in held'[p], NEW k \in held'[p], k \in within[j],
               InUsed(karenas[j].uaddr, End(j), k)
        PROVE  InUsed(karenas[j].uaddr, End(j), k)'
    <3>1. j \in held[p] /\ k \in held[p]
      BY <1>4
    <3>2. SameShape(j) /\ j \in Slots /\ k \in Slots
      BY <1>0, <1>2, <3>1, HeldFacts
    <3>3. karenas'[j].uaddr = karenas[j].uaddr /\ End(j)' = End(j)
      BY <3>2, ShapeFacts
    <3>4. CASE k = i
      <4>1. End(j) <= karenas[i].uaddr + pos
        BY <1>1, <2>1, <3>4 DEF Kept, End
      <4> QED
        BY <1>2, <1>5, <2>1, <3>3, <3>4, <4>1 DEF InUsed
    <3>5. CASE k # i
      BY <1>2, <2>1, <3>2, <3>3, <3>5 DEF InUsed
    <3> QED
      BY <3>4, <3>5
  <2>2. \A j \in held'[p] : SameShape(j) /\ within'[j] = within[j] /\ \A e \in within[j] : SameShape(e)
    <3>1. \A j \in held[p] : j \in Slots /\ within[j] \subseteq Slots
      BY <1>0, HeldFacts
    <3> QED
      BY <1>2, <1>3, <1>4, <3>1
  <2>3. UNCHANGED maps
    BY <1>3
  <2> QED
    BY <1>0, <1>4, <2>1, <2>2, <2>3, ArenasStay
<1>7. BlocksNest(p)'
  <2>1. ASSUME NEW b \in blocks', b.proc = p
        PROVE  /\ b.lo < b.hi /\ \E v \in maps' : Covers(v, p, b.lo, b.hi)'
               /\ \A j \in held'[p] : Outside(b.lo, b.hi, j)' \/ InUsed(b.lo, b.hi, j)'
               /\ \A d \in blocks' : d.proc = p /\ d # b => b.hi <= d.lo \/ d.hi <= b.lo
    <3>1. b \in blocks /\ ~Above(i, pos, b.lo, b.hi)
      BY <1>1, <2>1 DEF KeptBlocks
    <3>2. /\ b.lo < b.hi /\ \E v \in maps : Covers(v, p, b.lo, b.hi)
          /\ \A j \in held[p] : Outside(b.lo, b.hi, j) \/ InUsed(b.lo, b.hi, j)
          /\ \A d \in blocks : d.proc = p /\ d # b => b.hi <= d.lo \/ d.hi <= b.lo
      BY <1>0, <2>1, <3>1 DEF BlocksNest
    <3>3. PICK v \in maps : Covers(v, p, b.lo, b.hi)
      BY <3>2
    <3>4. v \in maps' /\ SameShape(v.slot)
      BY <1>2, <1>3, <3>3, MappedLive
    <3>5. Covers(v, p, b.lo, b.hi)'
      BY <3>3, <3>4, CoversSame
    <3>6. ASSUME NEW j \in held'[p]
          PROVE  Outside(b.lo, b.hi, j)' \/ InUsed(b.lo, b.hi, j)'
      <4>1. j \in held[p] /\ j \in Slots
        BY <1>0, <1>4, HeldFacts
      <4>2. CASE j # i
        <5>1. karenas'[j] = karenas[j]
          BY <1>2, <4>1, <4>2
        <5> QED
          BY <3>2, <4>1, <5>1 DEF Outside, InUsed
      <4>3. CASE j = i
        <5>1. b.lo \in Nat /\ b.hi \in Nat
          BY <3>1, BlockFacts
        <5>2. b.hi <= karenas[i].uaddr + pos \/ b.lo >= karenas[i].uaddr + karenas[i].size
          BY <1>1, <1>5, <3>1, <5>1 DEF Above
        <5>3. Outside(b.lo, b.hi, i) \/ InUsed(b.lo, b.hi, i)
          BY <3>2, <1>0
        <5> QED
          BY <1>2, <1>5, <4>3, <5>1, <5>2, <5>3 DEF Outside, InUsed
      <4> QED
        BY <4>2, <4>3
    <3> QED
      BY <1>4, <3>2, <3>4, <3>5, <3>6
  <2> QED
    BY <2>1 DEF BlocksNest
<1>8. BootstrapNests(p)' /\ proc'[p].at = "idle"
  BY <1>0, <1>3 DEF BootstrapNests
<1> QED
  BY <1>6, <1>7, <1>8 DEF Nested

(* What is left after ka_destroy is nested.                                *)
LEMMA DestroyNests ==
  ASSUME KaTypeOK, NEW p \in Procs, NEW i \in Slots, DestroyClears(p, i), Nested(p)
  PROVE  Nested(p)'
<1>0. i \in held[p] /\ ArenasNest(p) /\ BlocksNest(p)
  BY MayFacts DEF DestroyClears, Nested
<1>1. /\ KaTypeOK' /\ proc'[p].at = "destroy" /\ SlotNow(i, 0, 0, 0, karenas[i].kaddr, NoProc)
      /\ held'[p] = Kept(p, i, 0) \ {i} /\ blocks' = KeptBlocks(p, i, 0)
  BY DestroyClearsEffect DEF ProcNow, Holds, DestroyClears
<1>2. \A j \in Slots : j # i => karenas'[j] = karenas[j] /\ SameShape(j)
  BY <1>1 DEF SlotNow, SameShape
<1>3. UNCHANGED <<maps, within>>
  BY DEF DestroyClears
<1>4. held'[p] \subseteq held[p] /\ blocks' \subseteq blocks
  BY <1>1, KeptTypes
<1>5. karenas[i].uaddr \in Nat /\ karenas[i].size \in Nat /\ End(i) = karenas[i].uaddr + karenas[i].size
  BY <1>0, HeldFacts
<1>6. ASSUME NEW j \in held'[p]
      PROVE  j \in held[p] /\ j # i /\ i \notin within[j] /\ j \in Slots /\ within[j] \subseteq Slots
  <2>1. j \in held[p] /\ j # i /\ j \in Kept(p, i, 0)
    BY <1>1, <1>4
  <2>2. /\ j \in Slots /\ karenas[j].uaddr \in Nat /\ karenas[j].size \in Nat /\ karenas[j].size > 0
        /\ within[j] \subseteq Slots
    BY <1>0, <2>1, HeldFacts
  <2>3. i \in within[j] => karenas[i].uaddr <= karenas[j].uaddr
    BY <1>0, <2>1 DEF ArenasNest
  <2>4. i \in within[j] => karenas[j].uaddr + karenas[j].size <= karenas[i].uaddr + 0
    BY <2>1 DEF Kept
  <2> QED
    BY <1>5, <2>1, <2>2, <2>3, <2>4
<1>7. ArenasNest(p)'
  <2>1. ASSUME NEW j \in held'[p], NEW k \in held'[p], k \in within[j],
               InUsed(karenas[j].uaddr, End(j), k)
        PROVE  InUsed(karenas[j].uaddr, End(j), k)'
    <3>1. karenas'[j] = karenas[j] /\ karenas'[k] = karenas[k]
      BY <1>2, <1>6
    <3> QED
      BY <2>1, <3>1 DEF InUsed, End
  <2>2. \A j \in held'[p] : SameShape(j) /\ within'[j] = within[j] /\ \A e \in within[j] : SameShape(e)
    <3> SUFFICES ASSUME NEW j \in held'[p]
                 PROVE  SameShape(j) /\ within'[j] = within[j] /\ \A e \in within[j] : SameShape(e)
      OBVIOUS
    <3>1. \A e \in within[j] : e \in Slots /\ e # i
      BY <1>6
    <3> QED
      BY <1>2, <1>3, <1>6, <3>1
  <2>3. UNCHANGED maps
    BY <1>3
  <2> QED
    BY <1>0, <1>4, <2>1, <2>2, <2>3, ArenasStay
<1>8. BlocksNest(p)'
  <2>1. ASSUME NEW b \in blocks', b.proc = p
        PROVE  /\ b.lo < b.hi /\ \E v \in maps' : Covers(v, p, b.lo, b.hi)'
               /\ \A j \in held'[p] : Outside(b.lo, b.hi, j)' \/ InUsed(b.lo, b.hi, j)'
               /\ \A d \in blocks' : d.proc = p /\ d # b => b.hi <= d.lo \/ d.hi <= b.lo
    <3>1. b \in blocks /\ ~Above(i, 0, b.lo, b.hi)
      BY <1>1, <2>1 DEF KeptBlocks
    <3>2. /\ b.lo < b.hi /\ \E v \in maps : Covers(v, p, b.lo, b.hi)
          /\ \A j \in held[p] : Outside(b.lo, b.hi, j) \/ InUsed(b.lo, b.hi, j)
          /\ \A d \in blocks : d.proc = p /\ d # b => b.hi <= d.lo \/ d.hi <= b.lo
      BY <1>0, <2>1, <3>1 DEF BlocksNest
    <3>3. PICK v \in maps : Covers(v, p, b.lo, b.hi)
      BY <3>2
    <3>4. v.slot \in Slots /\ v.slot # i
      <4>1. b.lo \in Nat /\ b.hi \in Nat
        BY <3>1, BlockFacts
      <4>2. b.hi <= karenas[i].uaddr \/ b.lo >= karenas[i].uaddr + karenas[i].size
        BY <1>5, <3>1, <4>1 DEF Above
      <4>3. v.slot = i => karenas[i].uaddr <= b.lo /\ b.hi <= karenas[i].uaddr + karenas[i].size
        BY <3>3 DEF Covers
      <4>4. v.slot # i
        BY <1>5, <3>2, <4>1, <4>2, <4>3
      <4> QED
        BY <3>3, <4>4, MappedLive
    <3>5. Covers(v, p, b.lo, b.hi)' /\ v \in maps'
      BY <1>2, <1>3, <3>3, <3>4, CoversSame
    <3>6. \A j \in held'[p] : Outside(b.lo, b.hi, j)' \/ InUsed(b.lo, b.hi, j)'
      BY <1>2, <1>6, <3>2 DEF Outside, InUsed
    <3> QED
      BY <1>4, <3>2, <3>5, <3>6
  <2> QED
    BY <2>1 DEF BlocksNest
<1>9. BootstrapNests(p)'
  BY <1>1 DEF BootstrapNests
<1> QED
  BY <1>1, <1>7, <1>8, <1>9 DEF Nested

(* The memory ka_bootstrap takes lies in nothing else the process has.     *)
LEMMA BootstrapFindsNests ==
  ASSUME KaTypeOK, NEW p \in Procs, NEW i \in Slots, NEW size \in Sizes,
         BootstrapFindsSlot(p, i, size), Nested(p)
  PROVE  Nested(p)'
<1>0. /\ i \in held[p] /\ proc[p].at = "idle" /\ ArenasNest(p) /\ BlocksNest(p) /\ Live(i)
      /\ karenas[i].uaddr # 0
  <2>1. i \in held[p] /\ proc[p].at = "idle" /\ ArenasNest(p) /\ BlocksNest(p)
    BY MayFacts DEF BootstrapFindsSlot, Nested
  <2>2. Live(i) /\ karenas[i].uaddr \in Nat
    BY <2>1, HeldFacts
  <2> QED
    BY <2>1, <2>2 DEF Live
<1>1. PICK c : c = karenas[i].cur + size
  OBVIOUS
<1>2. /\ KaTypeOK' /\ c \in Nat /\ c <= karenas[i].size /\ size \in Nat /\ size > 0
      /\ \/ /\ SlotNow(i, karenas[i].uaddr, c, karenas[i].size, karenas[i].kaddr, karenas[i].owner)
            /\ karenas'[i].bootstrapped = karenas[i].bootstrapped
            /\ UNCHANGED proc
         \/ \E j \in Slots :
            /\ karenas[j].uaddr = 0 /\ karenas' \in [Slots -> Slot]
            /\ j # i =>
                 /\ Has(karenas'[i], karenas[i].uaddr, c, karenas[i].size, karenas[i].kaddr, karenas[i].owner)
                 /\ karenas'[i].bootstrapped = karenas[i].bootstrapped
                 /\ Has(karenas'[j], 1, karenas[j].cur, karenas[j].size, karenas[j].kaddr, karenas[j].owner)
                 /\ karenas'[j].bootstrapped = karenas[j].bootstrapped
            /\ ProcNow(p, "bootstrap", proc[p].file, j, size, i, karenas[i].uaddr + karenas[i].cur)
            /\ \A l \in Slots : l # i /\ l # j => karenas'[l] = karenas[l]
            /\ j \in Busy(p) => "raced" \in causes'
  BY <1>1, BootstrapFindsEffect
<1>3. UNCHANGED <<maps, held, within, blocks>>
  BY DEF BootstrapFindsSlot
<1>4. /\ \A j \in Slots : Live(j) => SameShape(j) /\ (j # i => karenas'[j] = karenas[j])
      /\ karenas'[i].cur = c /\ SameShape(i)
      /\ \/ UNCHANGED proc
         \/ \E j \in Slots : ProcNow(p, "bootstrap", proc[p].file, j, size, i, karenas[i].uaddr + karenas[i].cur)
  <2>1. CASE /\ SlotNow(i, karenas[i].uaddr, c, karenas[i].size, karenas[i].kaddr, karenas[i].owner)
             /\ karenas'[i].bootstrapped = karenas[i].bootstrapped
             /\ UNCHANGED proc
    BY <2>1, MovedShapes
  <2>2. CASE \E j \in Slots :
            /\ karenas[j].uaddr = 0 /\ karenas' \in [Slots -> Slot]
            /\ j # i =>
                 /\ Has(karenas'[i], karenas[i].uaddr, c, karenas[i].size, karenas[i].kaddr, karenas[i].owner)
                 /\ karenas'[i].bootstrapped = karenas[i].bootstrapped
                 /\ Has(karenas'[j], 1, karenas[j].cur, karenas[j].size, karenas[j].kaddr, karenas[j].owner)
                 /\ karenas'[j].bootstrapped = karenas[j].bootstrapped
            /\ ProcNow(p, "bootstrap", proc[p].file, j, size, i, karenas[i].uaddr + karenas[i].cur)
            /\ \A l \in Slots : l # i /\ l # j => karenas'[l] = karenas[l]
            /\ j \in Busy(p) => "raced" \in causes'
    <3>1. PICK j \in Slots :
            /\ karenas[j].uaddr = 0 /\ karenas' \in [Slots -> Slot]
            /\ j # i =>
                 /\ Has(karenas'[i], karenas[i].uaddr, c, karenas[i].size, karenas[i].kaddr, karenas[i].owner)
                 /\ karenas'[i].bootstrapped = karenas[i].bootstrapped
                 /\ Has(karenas'[j], 1, karenas[j].cur, karenas[j].size, karenas[j].kaddr, karenas[j].owner)
                 /\ karenas'[j].bootstrapped = karenas[j].bootstrapped
            /\ ProcNow(p, "bootstrap", proc[p].file, j, size, i, karenas[i].uaddr + karenas[i].cur)
            /\ \A l \in Slots : l # i /\ l # j => karenas'[l] = karenas[l]
            /\ j \in Busy(p) => "raced" \in causes'
      BY <2>2
    <3>2. j # i /\ ~Live(j)
      BY <1>0, <3>1 DEF Live
    <3>3. SameShape(i) /\ karenas'[i].cur = c
      BY <3>1, <3>2 DEF SameShape, Has
    <3>4. \A l \in Slots : Live(l) => SameShape(l) /\ (l # i => karenas'[l] = karenas[l])
      BY <3>1, <3>2, <3>3 DEF SameShape
    <3> QED
      BY <3>1, <3>3, <3>4
  <2> QED
    BY <1>2, <2>1, <2>2
<1>5. \A j \in Slots : Live(j) => SameShape(j) /\ within'[j] = within[j] /\ karenas'[j].cur >= karenas[j].cur
  BY <1>1, <1>2, <1>3, <1>4, TableFacts
<1>6. /\ ArenasNest(p)'
      /\ \A b \in blocks : b.proc = p =>
           /\ b.lo < b.hi /\ \E v \in maps' : Covers(v, p, b.lo, b.hi)'
           /\ \A j \in held'[p] : Outside(b.lo, b.hi, j)' \/ InUsed(b.lo, b.hi, j)'
      /\ \A v, lo, hi : Covers(v, p, lo, hi) => Covers(v, p, lo, hi)'
      /\ \A j \in held[p], lo, hi \in Nat : InUsed(lo, hi, j) => InUsed(lo, hi, j)'
  <2>1. held'[p] = held[p] /\ UNCHANGED maps
    BY <1>3
  <2> QED
    BY <1>0, <1>2, <1>5, <2>1, GrowNests
<1>7. BlocksNest(p)'
  <2>1. UNCHANGED blocks
    BY <1>3
  <2> QED
    BY <1>0, <1>6, <2>1 DEF BlocksNest
<1>8. CASE UNCHANGED proc
  <2>1. BootstrapNests(p)' /\ proc'[p].at = "idle"
    BY <1>0, <1>8 DEF BootstrapNests
  <2> QED
    BY <1>6, <1>7, <2>1 DEF Nested
<1>9. CASE \E j \in Slots : ProcNow(p, "bootstrap", proc[p].file, j, size, i, karenas[i].uaddr + karenas[i].cur)
  <2>1. PICK lo : lo = karenas[i].uaddr + karenas[i].cur
    OBVIOUS
  <2>2. PICK hi : hi = lo + size
    OBVIOUS
  <2>3. proc'[p].at = "bootstrap" /\ proc'[p].from = i /\ proc'[p].addr = lo /\ proc'[p].size = size
    BY <1>9, <2>1 DEF ProcNow, Holds
  <2>4. /\ lo \in Nat /\ hi \in Nat /\ lo < hi /\ hi <= End(i)
        /\ karenas[i].uaddr <= lo /\ hi <= karenas[i].uaddr + c
    BY <1>0, <1>1, <1>2, <2>1, <2>2, HeldFacts
  <2>5. /\ \E v \in maps : v.slot \in {i} \cup within[i] /\ Covers(v, p, lo, hi)
        /\ \A j \in held[p] \ {i} : Outside(lo, hi, j) \/ (j \in within[i] /\ InUsed(lo, hi, j))
        /\ \A b \in blocks : b.proc = p => b.hi <= lo \/ hi <= b.lo
    BY <1>0, <2>1, <2>4, FreshRange
  <2>6. InUsed(lo, hi, i)'
    <3>1. karenas'[i].uaddr = karenas[i].uaddr
      BY <1>4, ShapeFacts
    <3> QED
      BY <1>4, <2>4, <3>1 DEF InUsed
  <2>7. \E v \in maps' : v.slot \in {i} \cup within'[i] /\ Covers(v, p, lo, hi)'
    BY <1>3, <1>6, <2>5
  <2>8. ASSUME NEW j \in held'[p] \ {i}
        PROVE  Outside(lo, hi, j)' \/ (j \in within'[i] /\ InUsed(lo, hi, j)')
    <3>1. j \in held[p] /\ j # i /\ within' = within
      BY <1>3
    <3>2. SameShape(j)
      BY <1>0, <1>4, <3>1, HeldFacts
    <3> QED
      BY <1>6, <2>4, <2>5, <3>1, <3>2, ShapeFacts
  <2>9. BootstrapNests(p)'
    BY <1>0, <1>3, <2>2, <2>3, <2>4, <2>5, <2>6, <2>7, <2>8 DEF BootstrapNests
  <2> QED
    BY <1>6, <1>7, <2>3, <2>9 DEF Nested
<1> QED
  BY <1>4, <1>8, <1>9

(* The bootstrapped arena is nested in the one it was taken out of.        *)
LEMMA BootstrapFillsNests ==
  ASSUME KaTypeOK, NEW p \in Procs, BootstrapFillsSlot(p), Nested(p), Handling(p)
  PROVE  Nested(p)'
<1>1. PICK i : i = proc[p].from
  OBVIOUS
<1>2. PICK j : j = proc[p].slot
  OBVIOUS
<1>3. /\ KaTypeOK' /\ i \in Slots /\ j \in Slots /\ proc'[p].at = "idle"
      /\ SlotNow(j, proc[p].addr, 0, proc[p].size, karenas[i].kaddr, karenas[i].owner)
      /\ held'[p] = held[p] \cup {j}
      /\ within'[j] = {i} \cup within[i] /\ \A l \in Slots : l # j => within'[l] = within[l]
  <2>1. /\ KaTypeOK' /\ i \in Slots /\ j \in Slots
        /\ ProcNow(p, "idle", proc[p].file, NoSlot, 0, NoSlot, 0)
        /\ SlotNow(j, proc[p].addr, 0, proc[p].size, karenas[i].kaddr, karenas[i].owner)
        /\ karenas'[j].bootstrapped = TRUE
        /\ held'[p] = held[p] \cup {j} /\ \A q \in Procs : q # p => held'[q] = held[q]
        /\ WithinNow(j, {i} \cup within[i])
    BY <1>1, <1>2, BootstrapFillsEffect
  <2>2. proc'[p].at = "idle"
    BY <2>1 DEF ProcNow, Holds
  <2> QED
    BY <2>1, <2>2 DEF WithinNow
<1>4. UNCHANGED <<maps, blocks>> /\ proc[p].at = "bootstrap"
  BY DEF BootstrapFillsSlot, At
<1>5. ~Live(j) /\ ArenasNest(p) /\ BlocksNest(p) /\ BootstrapNests(p)
  BY <1>2, <1>4 DEF Handling, Live, Nested
<1>6. PICK lo : lo = proc[p].addr
  OBVIOUS
<1>7. PICK hi : hi = proc[p].addr + proc[p].size
  OBVIOUS
<1>8. /\ i \in held[p] /\ lo < hi /\ InUsed(lo, hi, i)
      /\ \E v \in maps : v.slot \in {i} \cup within[i] /\ Covers(v, p, lo, hi)
      /\ \A l \in held[p] \ {i} : Outside(lo, hi, l) \/ (l \in within[i] /\ InUsed(lo, hi, l))
      /\ \A b \in blocks : b.proc = p => b.hi <= lo \/ hi <= b.lo
  BY <1>1, <1>4, <1>5, <1>6, <1>7 DEF BootstrapNests
<1>9. lo \in Nat /\ proc[p].size \in Nat /\ hi \in Nat /\ hi = lo + proc[p].size
  BY <1>6, <1>7, StageFacts, PageFacts
<1>10. \A l \in Slots : Live(l) => l # j /\ karenas'[l] = karenas[l] /\ within'[l] = within[l] /\ SameShape(l)
  BY <1>3, <1>5 DEF SlotNow, SameShape
<1>11. \A l \in held[p] : l \in Slots /\ Live(l) /\ l # j /\ within[l] \subseteq Slots
  BY <1>5, <1>10, HeldFacts
<1>12. /\ karenas'[j].uaddr = lo /\ karenas'[j].size = proc[p].size /\ karenas'[j].owner = p
       /\ End(j)' = hi /\ karenas'[j].size > 0
  <2>1. karenas[i].owner = p
    BY <1>5, <1>8, HeldFacts
  <2> QED
    BY <1>3, <1>6, <1>8, <1>9, <2>1 DEF SlotNow, Has, End
<1>13. ASSUME NEW v, NEW a, NEW b, Covers(v, p, a, b)
       PROVE  Covers(v, p, a, b)' /\ v \in maps'
  <2>1. v.slot \in Slots /\ Live(v.slot) /\ v \in maps'
    BY <1>4, <1>13, MappedLive DEF Covers
  <2> QED
    BY <1>10, <1>13, <2>1, CoversSame
<1>14. ArenasNest(p)'
  <2>1. ASSUME NEW l \in held[p]
        PROVE  /\ karenas'[l] = karenas[l] /\ within'[l] = within[l] /\ End(l)' = End(l)
               /\ \A e \in within[l] : karenas'[e] = karenas[e]
    <3>1. \A e \in within[l] : Live(e) /\ e \in Slots
      BY <1>5, <1>11 DEF ArenasNest
    <3> QED
      BY <1>10, <1>11, <3>1 DEF End
  <2>2. ASSUME NEW l \in held[p]
        PROVE  /\ Live(l)' /\ karenas'[l].owner = p /\ karenas'[l].size > 0
               /\ \E v \in maps' : /\ v.slot \in {l} \cup within'[l]
                                   /\ Covers(v, p, karenas[l].uaddr, End(l))'
               /\ \A e \in within'[l] : /\ Live(e)' /\ karenas'[e].owner = p
                                        /\ karenas'[e].uaddr <= karenas'[l].uaddr
    <3>1. /\ Live(l) /\ karenas[l].owner = p /\ karenas[l].size > 0
          /\ \E v \in maps : v.slot \in {l} \cup within[l] /\ Covers(v, p, karenas[l].uaddr, End(l))
          /\ \A e \in within[l] : Live(e) /\ karenas[e].owner = p /\ karenas[e].uaddr <= karenas[l].uaddr
      BY <1>5 DEF ArenasNest
    <3>2. PICK v \in maps : v.slot \in {l} \cup within[l] /\ Covers(v, p, karenas[l].uaddr, End(l))
      BY <3>1
    <3>3. v \in maps' /\ v.slot \in {l} \cup within'[l] /\ Covers(v, p, karenas[l].uaddr, End(l))'
      <4>1. PICK a : a = karenas[l].uaddr
        OBVIOUS
      <4>2. PICK b : b = End(l)
        OBVIOUS
      <4>3. Covers(v, p, a, b)' /\ v \in maps'
        BY <1>13, <3>2, <4>1, <4>2
      <4> QED
        BY <2>1, <3>2, <4>1, <4>2, <4>3 DEF Covers
    <3>4. Live(l)' /\ karenas'[l].owner = p /\ karenas'[l].size > 0
      BY <2>1, <3>1 DEF Live
    <3>5. \A e \in within'[l] : Live(e)' /\ karenas'[e].owner = p /\ karenas'[e].uaddr <= karenas'[l].uaddr
      BY <2>1, <3>1 DEF Live
    <3> QED
      BY <3>3, <3>4, <3>5
  <2>3. /\ Live(j)' /\ karenas'[j].owner = p /\ karenas'[j].size > 0
        /\ \E v \in maps' : v.slot \in {j} \cup within'[j] /\ Covers(v, p, karenas[j].uaddr, End(j))'
        /\ \A e \in within'[j] : Live(e)' /\ karenas'[e].owner = p /\ karenas'[e].uaddr <= karenas'[j].uaddr
    <3>1. Live(i) /\ karenas[i].uaddr \in Nat /\ karenas[i].uaddr <= lo /\ karenas[i].owner = p
      BY <1>5, <1>8, HeldFacts DEF InUsed
    <3>2. Live(j)'
      BY <1>9, <1>12, <3>1 DEF Live
    <3>3. \E v \in maps' : v.slot \in {j} \cup within'[j] /\ Covers(v, p, karenas[j].uaddr, End(j))'
      <4>1. PICK v \in maps : v.slot \in {i} \cup within[i] /\ Covers(v, p, lo, hi)
        BY <1>8
      <4>2. Covers(v, p, lo, hi)' /\ v \in maps'
        BY <1>13, <4>1
      <4> QED
        BY <1>3, <1>12, <4>1, <4>2 DEF Covers
    <3>4. ASSUME NEW e \in within'[j]
          PROVE  Live(e)' /\ karenas'[e].owner = p /\ karenas'[e].uaddr <= karenas'[j].uaddr
      <4>1. CASE e = i
        BY <1>8, <1>12, <2>1, <3>1, <4>1 DEF Live
      <4>2. CASE e \in within[i]
        <5>1. Live(e) /\ karenas[e].owner = p /\ karenas[e].uaddr <= karenas[i].uaddr
          BY <1>5, <1>8, <4>2 DEF ArenasNest
        <5>2. karenas'[e] = karenas[e]
          BY <1>8, <2>1, <4>2
        <5>3. karenas[e].uaddr \in Nat
          BY <1>8, <1>11, <4>2, TableFacts
        <5> QED
          BY <1>9, <1>12, <3>1, <5>1, <5>2, <5>3 DEF Live
      <4> QED
        BY <1>3, <4>1, <4>2
    <3> QED
      BY <1>12, <3>2, <3>3, <3>4
  <2>4. ASSUME NEW l \in held[p]
        PROVE  Outside(lo, hi, l) \/ (l \in within'[j] /\ InUsed(lo, hi, l))
    BY <1>3, <1>8
  <2>5. ASSUME NEW l \in held'[p], NEW m \in held'[p], l # m
        PROVE  \/ Outside(karenas[l].uaddr, End(l), m)'
               \/ m \in within'[l] /\ InUsed(karenas[l].uaddr, End(l), m)'
               \/ l \in within'[m] /\ InUsed(karenas[m].uaddr, End(m), l)'
    <3>1. CASE l \in held[p] /\ m \in held[p]
      <4>1. \/ Outside(karenas[l].uaddr, End(l), m)
            \/ m \in within[l] /\ InUsed(karenas[l].uaddr, End(l), m)
            \/ l \in within[m] /\ InUsed(karenas[m].uaddr, End(m), l)
        BY <1>5, <2>5, <3>1 DEF ArenasNest
      <4> QED
        BY <2>1, <3>1, <4>1 DEF Outside, InUsed, End
    <3>2. CASE l = j /\ m \in held[p]
      <4>1. karenas'[m] = karenas[m]
        BY <2>1, <3>2
      <4> QED
        BY <1>12, <2>4, <3>2, <4>1 DEF Outside, InUsed
    <3>3. CASE l \in held[p] /\ m = j
      <4>1. karenas'[l] = karenas[l] /\ End(l)' = End(l) /\ karenas[l].uaddr \in Nat /\ karenas[l].size \in Nat
        BY <1>5, <2>1, <3>3, HeldFacts
      <4>2. CASE l \in within'[j] /\ InUsed(lo, hi, l)
        BY <1>12, <3>3, <4>1, <4>2 DEF InUsed
      <4>3. CASE Outside(lo, hi, l)
        <5>1. karenas[l].uaddr >= hi \/ End(l) <= lo
          BY <1>9, <4>1, <4>3 DEF Outside, End
        <5>2. karenas'[j].uaddr + karenas'[j].size = hi
          BY <1>9, <1>12
        <5> QED
          BY <1>12, <3>3, <4>1, <5>1, <5>2 DEF Outside
      <4> QED
        BY <2>4, <3>3, <4>2, <4>3
    <3> QED
      BY <1>3, <2>5, <3>1, <3>2, <3>3
  <2> QED
    BY <1>3, <2>2, <2>3, <2>5 DEF ArenasNest
<1>15. BlocksNest(p)'
  <2>1. ASSUME NEW b \in blocks', b.proc = p
        PROVE  /\ b.lo < b.hi /\ \E v \in maps' : Covers(v, p, b.lo, b.hi)'
               /\ \A l \in held'[p] : Outside(b.lo, b.hi, l)' \/ InUsed(b.lo, b.hi, l)'
               /\ \A d \in blocks' : d.proc = p /\ d # b => b.hi <= d.lo \/ d.hi <= b.lo
    <3>1. b \in blocks /\ blocks' = blocks
      BY <1>4
    <3>2. /\ b.lo < b.hi /\ \E v \in maps : Covers(v, p, b.lo, b.hi)
          /\ \A l \in held[p] : Outside(b.lo, b.hi, l) \/ InUsed(b.lo, b.hi, l)
          /\ \A d \in blocks : d.proc = p /\ d # b => b.hi <= d.lo \/ d.hi <= b.lo
      BY <1>5, <2>1, <3>1 DEF BlocksNest
    <3>3. \E v \in maps' : Covers(v, p, b.lo, b.hi)'
      BY <1>13, <3>2
    <3>4. ASSUME NEW l \in held'[p]
          PROVE  Outside(b.lo, b.hi, l)' \/ InUsed(b.lo, b.hi, l)'
      <4>1. CASE l \in held[p]
        BY <1>10, <1>11, <3>2, <4>1 DEF Outside, InUsed
      <4>2. CASE l = j
        <5>1. b.hi <= lo \/ hi <= b.lo
          BY <1>8, <2>1, <3>1
        <5>2. karenas'[j].uaddr + karenas'[j].size = hi /\ b.lo \in Nat
          BY <1>9, <1>12, <3>1, BlockFacts
        <5> QED
          BY <1>9, <1>12, <4>2, <5>1, <5>2 DEF Outside
      <4> QED
        BY <1>3, <4>1, <4>2
    <3> QED
      BY <3>1, <3>2, <3>3, <3>4
  <2> QED
    BY <2>1 DEF BlocksNest
<1>16. BootstrapNests(p)'
  BY <1>3 DEF BootstrapNests
<1> QED
  BY <1>3, <1>14, <1>15, <1>16 DEF Nested

(* Two mappings are apart.                                                 *)
LEMMA SpanApart ==
  ASSUME NEW a \in Nat, NEW b \in Nat, a < b
  PROVE  a * Span \in Nat /\ b * Span \in Nat /\ a * Span + Span <= b * Span
<1>1. PICK s : s = Span
  OBVIOUS
<1>2. s \in Nat
  BY <1>1, PageFacts
<1>3. PICK c \in Nat : b = a + 1 + c
  <2>1. b - a - 1 \in Nat /\ b = a + 1 + (b - a - 1)
    OBVIOUS
  <2> QED
    BY <2>1
<1>4. b * s = a * s + s + c * s /\ c * s \in Nat /\ a * s \in Nat
  BY <1>2, <1>3
<1>5. a * s + s <= b * s /\ b * s \in Nat
  BY <1>2, <1>4
<1> QED
  BY <1>1, <1>4, <1>5

(* Unless another handler was faster, the mapping is of the slot created.  *)
HeldNow(p, S) == held'[p] = S /\ \A q \in Procs : q # p => held'[q] = held[q]
Maps(p, i, n) ==
  /\ \A v \in maps : v.vma # n
  /\ maps' = maps \cup {[vma |-> n, proc |-> p, slot |-> i]}

MmapDone(p, i) ==
  /\ i \in Slots /\ ~Live(i)
  /\ karenas[i].uaddr = 0 /\ karenas[i].cur = 0 /\ karenas[i].owner = p
  /\ karenas[i].size \in Nat /\ karenas[i].size > 0
  /\ ~karenas[i].bootstrapped /\ ~karenas'[i].bootstrapped
  /\ ProcNow(p, "idle", proc[p].file, NoSlot, 0, NoSlot, 0)
  /\ HeldNow(p, held[p] \cup {i}) /\ WithinNow(i, {})
  /\ \E n \in Nat \ {0} :
       /\ Maps(p, i, n)
       /\ SlotNow(i, n * Span, 0, karenas[i].size, karenas[i].kaddr, p)

(* Unless the last slot was created by somebody else, karena_mmap maps the *)
(* slot of this ka_create.                                                 *)
LEMMA MmapMaps ==
  ASSUME KaTypeOK, NEW p \in Procs, karena_mmap(p), Handling(p), "raced" \notin causes',
         NEW i, i = proc[p].slot
  PROVE  KaTypeOK' /\ MmapDone(p, i)
<1>1. proc[p].at = "mmap" /\ ~oops
  BY DEF karena_mmap, At
<1>2. /\ karenas[i].uaddr = 0 /\ karenas[i].cur = 0 /\ karenas[i].owner = p
      /\ karenas[i].size = proc[p].size /\ karenas[i].size > 0 /\ ~karenas[i].bootstrapped
  BY <1>1 DEF Handling
<1>3. /\ KaTypeOK' /\ i \in Slots /\ (index # i => "raced" \in causes')
      /\ \/ /\ UNCHANGED <<karenas, maps, held, within>>
            /\ index = NoSlot \/ karenas[index].uaddr # 0 \/ proc[p].size > karenas[index].size
            /\ ProcNow(p, "close", proc[p].file, i, proc[p].size, proc[p].from, proc[p].addr)
         \/ \E n \in Nat \ {0} :
            /\ index \in Slots /\ karenas[index].uaddr = 0
            /\ \A v \in maps : v.vma # n
            /\ maps' = maps \cup {[vma |-> n, proc |-> p, slot |-> index]}
            /\ SlotNow(index, n * Span, karenas[index].cur, karenas[index].size,
                       karenas[index].kaddr, karenas[index].owner)
            /\ karenas'[index].bootstrapped = karenas[index].bootstrapped
            /\ held' = [held EXCEPT ![p] = @ \cup {i}] /\ within' = [within EXCEPT ![i] = {}]
            /\ ProcNow(p, "idle", proc[p].file, NoSlot, 0, NoSlot, 0)
  BY MmapEffect
<1>4. index = i
  BY <1>3
<1>5. karenas[i].size \in Nat /\ ~(karenas[i].size > karenas[i].size) /\ NoSlot \notin Slots
  BY <1>3, TableFacts, NoSlotNot
<1>6. PICK n \in Nat \ {0} :
            /\ \A v \in maps : v.vma # n
            /\ maps' = maps \cup {[vma |-> n, proc |-> p, slot |-> i]}
            /\ SlotNow(i, n * Span, karenas[i].cur, karenas[i].size,
                       karenas[i].kaddr, karenas[i].owner)
            /\ karenas'[i].bootstrapped = karenas[i].bootstrapped
            /\ held' = [held EXCEPT ![p] = @ \cup {i}] /\ within' = [within EXCEPT ![i] = {}]
            /\ ProcNow(p, "idle", proc[p].file, NoSlot, 0, NoSlot, 0)
  BY <1>2, <1>3, <1>4, <1>5
<1>7. held'[p] = held[p] \cup {i} /\ \A q \in Procs : q # p => held'[q] = held[q]
  BY <1>6 DEF KaTypeOK, OtherTypeOK
<1>8. WithinNow(i, {})
  <2>1. within \in [Slots -> SUBSET Slots]
    BY DEF KaTypeOK, OtherTypeOK
  <2> QED
    BY <1>3, <1>6, <2>1 DEF WithinNow
<1>9. ~Live(i)
  BY <1>2 DEF Live
<1>10. SlotNow(i, n * Span, 0, karenas[i].size, karenas[i].kaddr, p)
  BY <1>2, <1>6
<1> QED
  BY <1>2, <1>3, <1>5, <1>6, <1>7, <1>8, <1>9, <1>10 DEF HeldNow, Maps, MmapDone

(* A new mapping lies apart from all others, and so does its arena.        *)
LEMMA MmapNests ==
  ASSUME KaTypeOK, NEW p \in Procs, karena_mmap(p), Handling(p), "raced" \notin causes', Nested(p)
  PROVE  Nested(p)'
<1>1. PICK i : i = proc[p].slot
  OBVIOUS
<1>2. /\ KaTypeOK' /\ i \in Slots /\ ~Live(i)
      /\ karenas[i].uaddr = 0 /\ karenas[i].cur = 0 /\ karenas[i].owner = p
      /\ karenas[i].size \in Nat /\ karenas[i].size > 0
      /\ ~karenas[i].bootstrapped /\ ~karenas'[i].bootstrapped
      /\ ProcNow(p, "idle", proc[p].file, NoSlot, 0, NoSlot, 0)
      /\ HeldNow(p, held[p] \cup {i}) /\ WithinNow(i, {})
      /\ \E n \in Nat \ {0} :
           /\ Maps(p, i, n)
           /\ SlotNow(i, n * Span, 0, karenas[i].size, karenas[i].kaddr, p)
  <2>1. KaTypeOK' /\ MmapDone(p, i)
    BY <1>1, MmapMaps
  <2> QED
    BY <2>1 DEF MmapDone
<1>3. PICK n \in Nat \ {0} :
           /\ \A v \in maps : v.vma # n
           /\ maps' = maps \cup {[vma |-> n, proc |-> p, slot |-> i]}
           /\ SlotNow(i, n * Span, 0, karenas[i].size, karenas[i].kaddr, p)
  BY <1>2 DEF Maps
<1>4. PICK lo : lo = n * Span
  OBVIOUS
<1>5. PICK s : s = karenas[i].size
  OBVIOUS
<1>6. s \in Nat /\ s > 0 /\ s <= Span - 2 /\ Span \in Nat
  <2>1. i \in Slots /\ s \in Nat /\ s > 0
    BY <1>2, <1>5
  <2>2. s \in 0 .. Span - 2
    BY <1>5, <2>1, TableFacts
  <2>3. Span \in Nat
    BY PageFacts
  <2> QED
    BY <2>1, <2>2, <2>3
<1>19. held'[p] = held[p] \cup {i}
  BY <1>2 DEF HeldNow
<1>7. /\ karenas'[i].uaddr = lo /\ karenas'[i].size = s /\ karenas'[i].owner = p
      /\ End(i)' = lo + s /\ within'[i] = {} /\ proc'[p].at = "idle"
      /\ \A l \in Slots : l # i => karenas'[l] = karenas[l] /\ within'[l] = within[l]
  BY <1>2, <1>3, <1>4, <1>5 DEF SlotNow, Has, End, WithinNow, ProcNow, Holds
<1>8. ArenasNest(p) /\ BlocksNest(p) /\ UNCHANGED blocks
  BY DEF Nested, karena_mmap
<1>9. \A l \in Slots : Live(l) => l # i /\ karenas'[l] = karenas[l] /\ within'[l] = within[l] /\ SameShape(l)
  BY <1>2, <1>7 DEF SameShape
<1>10. ASSUME NEW v, NEW a, NEW b, Covers(v, p, a, b)
       PROVE  Covers(v, p, a, b)' /\ v \in maps'
  <2>1. v.slot \in Slots /\ Live(v.slot) /\ v \in maps'
    BY <1>3, <1>10, MappedLive DEF Covers
  <2> QED
    BY <1>9, <1>10, <2>1, CoversSame
<1>11. ASSUME NEW v, NEW a \in Nat, NEW b \in Nat, a < b, Covers(v, p, a, b)
       PROVE  b <= lo \/ a >= lo + s
  <2>1. v \in maps /\ v.slot \in Slots /\ v.vma \in Nat /\ v.vma # n
    BY <1>3, <1>11, MappedLive DEF Covers
  <2>2. PICK o : o = v.vma * Span
    OBVIOUS
  <2>3. PICK z : z = karenas[v.slot].size
    OBVIOUS
  <2>4. z \in Nat /\ z <= Span - 2 /\ o <= a /\ b <= o + z
    <3>1. z \in 0 .. Span - 2
      BY <2>1, <2>3, TableFacts
    <3>2. PICK S : S = Span
      OBVIOUS
    <3>3. S \in Nat
      BY <3>2, PageFacts
    <3>4. z \in Nat /\ z <= S - 2
      BY <3>1, <3>2, <3>3
    <3>5. o <= a /\ b <= o + z
      BY <1>11, <2>2, <2>3 DEF Covers
    <3> QED
      BY <3>2, <3>4, <3>5
  <2>5. CASE v.vma < n
    <3>1. o \in Nat /\ lo \in Nat /\ o + Span <= lo
      BY <1>4, <2>1, <2>2, <2>5, SpanApart
    <3>2. PICK S : S = Span
      OBVIOUS
    <3> QED
      BY <1>6, <2>4, <3>1, <3>2
  <2>6. CASE n < v.vma
    <3>1. o \in Nat /\ lo \in Nat /\ lo + Span <= o
      BY <1>4, <2>1, <2>2, <2>6, SpanApart
    <3> QED
      BY <1>6, <2>4, <3>1
  <2> QED
    BY <2>1, <2>5, <2>6
<1>12. lo \in Nat /\ lo >= 2
  <2>1. 0 * Span = 0 /\ 0 < n
    BY PageFacts
  <2>2. 0 * Span + Span <= n * Span /\ n * Span \in Nat
    BY <2>1, SpanApart
  <2> QED
    BY <1>4, <2>1, <2>2, PageFacts
<1>13. PICK w : w = [vma |-> n, proc |-> p, slot |-> i]
  OBVIOUS
<1>14. w \in maps' /\ w.slot = i /\ Covers(w, p, lo, lo + s)'
  <2>1. w \in maps' /\ w.proc = p /\ w.slot = i /\ w.vma = n
    BY <1>3, <1>13
  <2>2. lo <= lo /\ lo + s <= lo + s
    BY <1>6, <1>12
  <2> QED
    BY <1>2, <1>4, <1>7, <2>1, <2>2 DEF Covers
<1>15. ASSUME NEW l \in held[p]
       PROVE  /\ l \in Slots /\ Live(l) /\ l # i
              /\ karenas'[l] = karenas[l] /\ within'[l] = within[l] /\ End(l)' = End(l)
              /\ \A e \in within[l] : karenas'[e] = karenas[e]
              /\ End(l) <= lo \/ karenas[l].uaddr >= lo + s
              /\ karenas[l].uaddr \in Nat /\ karenas[l].size \in Nat
              /\ End(l) = karenas[l].uaddr + karenas[l].size
  <2>1. /\ l \in Slots /\ Live(l) /\ karenas[l].uaddr \in Nat /\ karenas[l].size \in Nat
        /\ End(l) = karenas[l].uaddr + karenas[l].size /\ End(l) \in Nat
        /\ karenas[l].size > 0 /\ within[l] \subseteq Slots
    BY <1>8, HeldFacts
  <2>2. l # i /\ karenas'[l] = karenas[l] /\ within'[l] = within[l] /\ End(l)' = End(l)
    BY <1>9, <2>1 DEF End
  <2>3. \A e \in within[l] : karenas'[e] = karenas[e]
    <3>1. \A e \in within[l] : Live(e) /\ e \in Slots
      BY <1>8, <2>1 DEF ArenasNest
    <3> QED
      BY <1>9, <3>1
  <2>4. End(l) <= lo \/ karenas[l].uaddr >= lo + s
    <3>1. PICK v \in maps : Covers(v, p, karenas[l].uaddr, End(l))
      BY <1>8 DEF ArenasNest
    <3>2. karenas[l].uaddr < End(l)
      BY <2>1
    <3> QED
      BY <1>11, <2>1, <3>1, <3>2
  <2> QED
    BY <2>1, <2>2, <2>3, <2>4
<1>16. ArenasNest(p)'
  <2>1. ASSUME NEW l \in held[p]
        PROVE  /\ Live(l)' /\ karenas'[l].owner = p /\ karenas'[l].size > 0
               /\ \E v \in maps' : /\ v.slot \in {l} \cup within'[l]
                                   /\ Covers(v, p, karenas[l].uaddr, End(l))'
               /\ \A e \in within'[l] : /\ Live(e)' /\ karenas'[e].owner = p
                                        /\ karenas'[e].uaddr <= karenas'[l].uaddr
    <3>1. /\ Live(l) /\ karenas[l].owner = p /\ karenas[l].size > 0
          /\ \E v \in maps : v.slot \in {l} \cup within[l] /\ Covers(v, p, karenas[l].uaddr, End(l))
          /\ \A e \in within[l] : Live(e) /\ karenas[e].owner = p /\ karenas[e].uaddr <= karenas[l].uaddr
      BY <1>8 DEF ArenasNest
    <3>2. PICK v \in maps : v.slot \in {l} \cup within[l] /\ Covers(v, p, karenas[l].uaddr, End(l))
      BY <3>1
    <3>3. v \in maps' /\ v.slot \in {l} \cup within'[l] /\ Covers(v, p, karenas[l].uaddr, End(l))'
      <4>1. PICK a : a = karenas[l].uaddr
        OBVIOUS
      <4>2. PICK b : b = End(l)
        OBVIOUS
      <4>3. Covers(v, p, a, b)' /\ v \in maps'
        BY <1>10, <3>2, <4>1, <4>2
      <4> QED
        BY <1>15, <3>2, <4>1, <4>2, <4>3 DEF Covers
    <3>4. Live(l)' /\ karenas'[l].owner = p /\ karenas'[l].size > 0
      BY <1>15, <3>1 DEF Live
    <3>5. \A e \in within'[l] : Live(e)' /\ karenas'[e].owner = p /\ karenas'[e].uaddr <= karenas'[l].uaddr
      BY <1>15, <3>1 DEF Live
    <3> QED
      BY <3>3, <3>4, <3>5
  <2>2. /\ Live(i)' /\ karenas'[i].owner = p /\ karenas'[i].size > 0
        /\ \E v \in maps' : v.slot \in {i} \cup within'[i] /\ Covers(v, p, karenas[i].uaddr, End(i))'
        /\ \A e \in within'[i] : Live(e)' /\ karenas'[e].owner = p /\ karenas'[e].uaddr <= karenas'[i].uaddr
    <3>1. Live(i)'
      BY <1>7, <1>12 DEF Live
    <3>2. Covers(w, p, karenas[i].uaddr, End(i))'
      BY <1>7, <1>14 DEF Covers
    <3> QED
      BY <1>6, <1>7, <1>14, <3>1, <3>2
  <2>3. ASSUME NEW l \in held'[p], NEW m \in held'[p], l # m
        PROVE  \/ Outside(karenas[l].uaddr, End(l), m)'
               \/ m \in within'[l] /\ InUsed(karenas[l].uaddr, End(l), m)'
               \/ l \in within'[m] /\ InUsed(karenas[m].uaddr, End(m), l)'
    <3>1. CASE l \in held[p] /\ m \in held[p]
      <4>1. \/ Outside(karenas[l].uaddr, End(l), m)
            \/ m \in within[l] /\ InUsed(karenas[l].uaddr, End(l), m)
            \/ l \in within[m] /\ InUsed(karenas[m].uaddr, End(m), l)
        BY <1>8, <2>3, <3>1 DEF ArenasNest
      <4> QED
        BY <1>15, <3>1, <4>1 DEF Outside, InUsed, End
    <3>2. CASE l = i /\ m \in held[p]
      <4>1. karenas'[m] = karenas[m] /\ (karenas[m].uaddr + karenas[m].size <= lo \/ karenas[m].uaddr >= lo + s)
        BY <1>15, <3>2
      <4> QED
        BY <1>7, <3>2, <4>1 DEF Outside
    <3>3. CASE l \in held[p] /\ m = i
      <4>1. karenas'[l] = karenas[l] /\ End(l)' = End(l) /\ (End(l) <= lo \/ karenas[l].uaddr >= lo + s)
        BY <1>15, <3>3
      <4> QED
        BY <1>7, <3>3, <4>1 DEF Outside
    <3> QED
      BY <1>19, <2>3, <3>1, <3>2, <3>3
  <2> QED
    BY <1>19, <2>1, <2>2, <2>3 DEF ArenasNest
<1>17. BlocksNest(p)'
  <2>1. ASSUME NEW b \in blocks', b.proc = p
        PROVE  /\ b.lo < b.hi /\ \E v \in maps' : Covers(v, p, b.lo, b.hi)'
               /\ \A l \in held'[p] : Outside(b.lo, b.hi, l)' \/ InUsed(b.lo, b.hi, l)'
               /\ \A d \in blocks' : d.proc = p /\ d # b => b.hi <= d.lo \/ d.hi <= b.lo
    <3>1. b \in blocks /\ blocks' = blocks
      BY <1>8
    <3>2. /\ b.lo < b.hi /\ \E v \in maps : Covers(v, p, b.lo, b.hi)
          /\ \A l \in held[p] : Outside(b.lo, b.hi, l) \/ InUsed(b.lo, b.hi, l)
          /\ \A d \in blocks : d.proc = p /\ d # b => b.hi <= d.lo \/ d.hi <= b.lo
      BY <1>8, <2>1, <3>1 DEF BlocksNest
    <3>3. \E v \in maps' : Covers(v, p, b.lo, b.hi)'
      BY <1>10, <3>2
    <3>4. ASSUME NEW l \in held'[p]
          PROVE  Outside(b.lo, b.hi, l)' \/ InUsed(b.lo, b.hi, l)'
      <4>1. CASE l \in held[p]
        BY <1>15, <3>2, <4>1 DEF Outside, InUsed
      <4>2. CASE l = i
        <5>1. b.hi <= lo \/ b.lo >= lo + s
          BY <1>11, <3>1, <3>2, BlockFacts
        <5> QED
          BY <1>7, <4>2, <5>1 DEF Outside
      <4> QED
        BY <1>19, <4>1, <4>2
    <3> QED
      BY <3>1, <3>2, <3>3, <3>4
  <2> QED
    BY <2>1 DEF BlocksNest
<1>18. BootstrapNests(p)'
  BY <1>7 DEF BootstrapNests
<1> QED
  BY <1>7, <1>16, <1>17, <1>18 DEF Nested

(* No other handler is in the middle of a slot found when none was busy    *)
(* with it.                                                                *)
LEMMA NotBusy ==
  ASSUME KaTypeOK, NEW p \in Procs, NEW i \in Slots, i \notin Busy(p)
  PROVE  \A q \in Procs : q # p => proc[q].slot # i
<1> SUFFICES ASSUME NEW q \in Procs, q # p, proc[q].slot = i PROVE FALSE
  OBVIOUS
<1>1. proc[q].at = "idle"
  BY DEF Busy
<1>2. proc[q].slot = NoSlot
  BY <1>1, StageFacts DEF Stage
<1> QED
  BY <1>2, NoSlotNot

(* A step of process p that leaves the slots of the others alone.          *)
LEMMA HandlersStep ==
  ASSUME KaTypeOK, NEW p \in Procs, Handlers, OneProc(p), ~oops, Handling(p)',
         \A q \in Procs : q # p /\ proc[q].slot \in Slots =>
           karenas'[proc[q].slot] = karenas[proc[q].slot],
         \A q \in Procs : q # p /\ proc[q].slot = proc'[p].slot => proc'[p].slot = NoSlot,
         \A i \in Slots : karenas'[i].uaddr = 1 =>
           \/ karenas[i].uaddr = 1 /\ ~(proc[p].at \in {"create", "bootstrap"} /\ proc[p].slot = i)
           \/ proc'[p].at \in {"create", "bootstrap"} /\ proc'[p].slot = i,
         oops' => proc'[p].at = "vmalloc"
  PROVE  Handlers'
<1>1. \A q \in Procs : q # p => proc'[q] = proc[q]
  BY DEF OneProc
<1>2. \A q, r \in Procs : q # r /\ proc'[q].slot = proc'[r].slot => proc'[q].slot = NoSlot
  BY <1>1 DEF Handlers
<1>3. ASSUME NEW q \in Procs PROVE Handling(q)'
  <2>1. CASE q = p
    BY <2>1
  <2>2. CASE q # p
    <3>1. Handling(q) /\ proc'[q] = proc[q]
      BY <1>1, <2>2 DEF Handlers
    <3>2. CASE proc[q].slot \in Slots
      <4>1. karenas'[proc[q].slot] = karenas[proc[q].slot]
        BY <2>2, <3>2
      <4> QED
        BY <3>1, <4>1 DEF Handling
    <3>3. CASE proc[q].slot \notin Slots
      <4>1. Stage(q) /\ proc[q].slot \in Slots \cup {NoSlot}
        BY StageFacts
      <4>2. proc[q].at \notin {"create", "vmalloc", "mmap", "bootstrap", "destroy"} /\ proc[q].slot = NoSlot
        BY <3>3, <4>1 DEF Stage
      <4> QED
        BY <3>1, <4>2 DEF Handling
    <3> QED
      BY <3>2, <3>3
  <2> QED
    BY <2>1, <2>2
<1>4. ASSUME NEW i \in Slots, karenas'[i].uaddr = 1
      PROVE  \E q \in Procs : proc'[q].at \in {"create", "bootstrap"} /\ proc'[q].slot = i
  <2>1. CASE karenas[i].uaddr = 1 /\ ~(proc[p].at \in {"create", "bootstrap"} /\ proc[p].slot = i)
    <3>1. PICK q \in Procs : proc[q].at \in {"create", "bootstrap"} /\ proc[q].slot = i
      BY <2>1 DEF Handlers
    <3> QED
      BY <1>1, <2>1, <3>1
  <2>2. CASE proc'[p].at \in {"create", "bootstrap"} /\ proc'[p].slot = i
    BY <2>2
  <2> QED
    BY <1>4, <2>1, <2>2
<1> QED
  BY <1>2, <1>3, <1>4 DEF Handlers

(* A step that allocates nothing keeps the memory where it is, if what is  *)
(* still to be freed was so before.                                        *)
LEMMA RegionsSame ==
  ASSUME RegionsKept, UNCHANGED made,
         \A i \in Slots : Keeps(i)' =>
           /\ Keeps(i) /\ karenas'[i].kaddr = karenas[i].kaddr
           /\ karenas'[i].owner \in {karenas[i].owner, NoProc} /\ karenas[i].kaddr \in regions',
         \A i \in Slots : Live(i)' => karenas'[i].owner # NoProc
  PROVE  RegionsKept'
BY DEF RegionsKept

(* What the other processes have is left alone.                            *)
LEMMA OthersNest ==
  ASSUME KaTypeOK, NEW p \in Procs, OneProc(p), \A q \in Procs : Nested(q),
         \A q \in Procs : q # p => held'[q] = held[q],
         \A i \in Slots : Live(i) /\ karenas[i].owner # p =>
           karenas'[i] = karenas[i] /\ within'[i] = within[i],
         \A v \in maps : v.proc # p => v \in maps',
         \A b \in blocks' : b.proc # p => b \in blocks
  PROVE  \A q \in Procs : q # p => Nested(q)'
<1> SUFFICES ASSUME NEW q \in Procs, q # p PROVE Nested(q)'
  OBVIOUS
<1>1. Nested(q) /\ proc'[q] = proc[q] /\ held'[q] = held[q]
  BY DEF OneProc
<1>2. proc'[q].at = "release" => held[q] = {} /\ \A b \in blocks : b.proc # q
  BY <1>1 DEF Nested
<1>3. Untouched(q)
  BY <1>1, <1>2 DEF Untouched
<1> QED
  BY <1>1, <1>3, UntouchedNests

(* A process without a mapping has no arena and no memory.                 *)
LEMMA NoMapsEmpty ==
  ASSUME NEW p \in Procs, Nested(p), \A v \in maps : v.proc # p
  PROVE  held[p] = {} /\ \A b \in blocks : b.proc # p
BY DEF Nested, ArenasNest, BlocksNest, Covers

(* A step of a handler that takes nothing and gives nothing up.            *)
LEMMA QuietNests ==
  ASSUME KaTypeOK, KaTypeOK', NEW p \in Procs, OneProc(p), \A q \in Procs : Nested(q),
         UNCHANGED <<maps, held, within, blocks>>, proc'[p].at # "bootstrap",
         \A i \in Slots : Live(i) /\ (karenas[i].owner # p \/ proc[p].at # "release") =>
           karenas'[i] = karenas[i]
  PROVE  \A q \in Procs : Nested(q)'
<1>1. \A q \in Procs : q # p => Nested(q)'
  BY OthersNest
<1>2. Nested(p)'
  <2>1. CASE proc[p].at = "release"
    BY <2>1, NothingNests DEF Nested
  <2>2. CASE proc[p].at # "release"
    <3>1. proc'[p].at = "release" => \A v \in maps : v.proc # p
      BY DEF KaTypeOK, ProcTypeOK, Stage
    <3>2. proc'[p].at = "release" => held[p] = {} /\ \A b \in blocks : b.proc # p
      BY <3>1, NoMapsEmpty
    <3>3. Untouched(p)
      BY <2>2, <3>2 DEF Untouched
    <3> QED
      BY <3>3, UntouchedNests
  <2> QED
    BY <2>1, <2>2
<1> QED
  BY <1>1, <1>2

(* No other handler is in the middle of the slot of a process.             *)
LEMMA MySlot ==
  ASSUME Handlers, NEW p \in Procs, NEW i \in Slots, i = proc[p].slot
  PROVE  \A q \in Procs : q # p => proc[q].slot # i
BY NoSlotNot DEF Handlers

(* No handler is in the middle of an arena that can be used.               *)
LEMMA LiveNotBusy ==
  ASSUME KaTypeOK, Handlers, NEW i \in Slots, Live(i)
  PROVE  \A q \in Procs : proc[q].slot # i
<1> SUFFICES ASSUME NEW q \in Procs, proc[q].slot = i PROVE FALSE
  OBVIOUS
<1>1. Handling(q) /\ Stage(q) /\ proc[q].at \in Labels
  BY StageFacts DEF Handlers
<1>2. karenas[i].uaddr > 1 /\ ~(1 > 1) /\ ~(0 > 1) /\ proc[q].slot # NoSlot
  BY NoSlotNot DEF Live
<1> QED
  BY <1>1, <1>2 DEF Handling, Stage, Labels

(* A slot no step of a handler is about still has its memory to be freed.  *)
LEMMA KeepsSame ==
  ASSUME NEW p \in Procs, OneProc(p), NEW j \in Slots,
         karenas'[j].uaddr = karenas[j].uaddr, karenas'[j].bootstrapped = karenas[j].bootstrapped,
         proc[p].slot # j, proc'[p].slot # j
  PROVE  Keeps(j)' <=> Keeps(j)
<1>1. \A q \in Procs : q # p => proc'[q] = proc[q]
  BY DEF OneProc
<1>2. (\E q \in Procs : proc'[q].at \in {"mmap", "destroy", "release"} /\ proc'[q].slot = j)
      <=> \E q \in Procs : proc[q].at \in {"mmap", "destroy", "release"} /\ proc[q].slot = j
  BY <1>1
<1> QED
  BY <1>2 DEF Keeps, Live

(* A step of process p on slot i, and at most on the positions of others.  *)
OnSlot(p, i) ==
  /\ OneProc(p) /\ i \in Slots
  /\ \A j \in Slots : j # i => SameShape(j) /\ karenas'[j].kaddr = karenas[j].kaddr
  /\ \A j \in Slots : j # i /\ ~Live(j) => karenas'[j] = karenas[j]
  /\ \A q \in Procs : q # p => proc[q].slot # i
  /\ proc[p].slot \in {i, NoSlot} /\ proc'[p].slot \in {i, NoSlot}

(* A step on one slot keeps handlers and memory apart.                     *)
LEMMA SlotStep ==
  ASSUME KaTypeOK, Handlers, RegionsKept, NEW p \in Procs, NEW i \in Slots, OnSlot(p, i),
         ~oops, oops' => proc'[p].at = "vmalloc", Handling(p)',
         karenas'[i].uaddr = 1 => proc'[p].at \in {"create", "bootstrap"} /\ proc'[p].slot = i,
         UNCHANGED made,
         Keeps(i)' => /\ Keeps(i) /\ karenas'[i].kaddr = karenas[i].kaddr
                      /\ karenas'[i].owner \in {karenas[i].owner, NoProc} /\ karenas[i].kaddr \in regions',
         \A j \in Slots : j # i /\ Keeps(j) => karenas[j].kaddr \in regions',
         Live(i)' => karenas'[i].owner # NoProc
  PROVE  /\ Handlers' /\ RegionsKept'
         /\ \A j \in Slots : j # i => (Keeps(j)' <=> Keeps(j))
<1>1. /\ \A j \in Slots : j # i => SameShape(j) /\ karenas'[j].kaddr = karenas[j].kaddr
      /\ OneProc(p)
  BY DEF OnSlot
<1>2. \A j \in Slots : j # i => proc[p].slot # j /\ proc'[p].slot # j
  BY NoSlotNot DEF OnSlot
<1>3. \A j \in Slots : j # i => (Keeps(j)' <=> Keeps(j))
  BY <1>1, <1>2, KeepsSame DEF SameShape
<1>4. RegionsKept'
  <2>1. \A j \in Slots : Keeps(j)' =>
           /\ Keeps(j) /\ karenas'[j].kaddr = karenas[j].kaddr
           /\ karenas'[j].owner \in {karenas[j].owner, NoProc} /\ karenas[j].kaddr \in regions'
    BY <1>1, <1>3 DEF SameShape
  <2>2. \A j \in Slots : Live(j)' => karenas'[j].owner # NoProc
    BY <1>1 DEF SameShape, Live, RegionsKept
  <2> QED
    BY <2>1, <2>2, RegionsSame
<1>5. Handlers'
  <2>1. \A q \in Procs : q # p /\ proc[q].slot \in Slots =>
           karenas'[proc[q].slot] = karenas[proc[q].slot]
    BY LiveNotBusy DEF OnSlot
  <2>2. \A q \in Procs : q # p /\ proc[q].slot = proc'[p].slot => proc'[p].slot = NoSlot
    BY DEF OnSlot
  <2>3. \A j \in Slots : karenas'[j].uaddr = 1 =>
           \/ karenas[j].uaddr = 1 /\ ~(proc[p].at \in {"create", "bootstrap"} /\ proc[p].slot = j)
           \/ proc'[p].at \in {"create", "bootstrap"} /\ proc'[p].slot = j
    BY <1>1, <1>2 DEF SameShape
  <2> QED
    BY <1>1, <2>1, <2>2, <2>3, HandlersStep
<1> QED
  BY <1>3, <1>4, <1>5

(* A step of process p that changes neither the table nor a slot's handler.*)
LEMMA IdleStep ==
  ASSUME KaTypeOK, Handlers, RegionsKept, NEW p \in Procs, OneProc(p), UNCHANGED <<karenas, regions, made>>,
         ~oops, ~oops', Handling(p)', proc[p].slot = NoSlot, proc'[p].slot = NoSlot
  PROVE  /\ Handlers' /\ RegionsKept'
         /\ \A j \in Slots : Keeps(j)' <=> Keeps(j)
<1>1. \A j \in Slots : Keeps(j)' <=> Keeps(j)
  BY NoSlotNot, KeepsSame
<1>2. RegionsKept'
  BY <1>1, RegionsSame DEF RegionsKept, Live
<1>3. \A j \in Slots : karenas'[j].uaddr = 1 =>
         \/ karenas[j].uaddr = 1 /\ ~(proc[p].at \in {"create", "bootstrap"} /\ proc[p].slot = j)
         \/ proc'[p].at \in {"create", "bootstrap"} /\ proc'[p].slot = j
  BY NoSlotNot
<1>4. Handlers'
  BY <1>3, HandlersStep
<1> QED
  BY <1>1, <1>2, <1>4

(* No memory is lost in a step of process p.                               *)
LEMMA LostStep ==
  ASSUME KaTypeOK, KaTypeOK', Handlers, NothingLost, NEW p \in Procs, OneProc(p),
         \A r \in regions' : \E j \in Slots : Keeps(j)' /\ karenas'[j].kaddr = r,
         \A v \in maps : v.proc # p => v \in maps',
         \A j \in Slots : Live(j)' =>
           \/ Live(j) /\ karenas[j].owner # p /\ karenas'[j].owner = karenas[j].owner
              /\ karenas'[j].bootstrapped = karenas[j].bootstrapped
           \/ \E v \in maps' : v.proc = karenas'[j].owner
           \/ karenas'[j].owner = p /\ proc'[p].at = "release" /\ proc'[p].from <= j /\ ~karenas'[j].bootstrapped,
         \A q \in Procs : q # p /\ proc[q].slot \in Slots =>
           karenas'[proc[q].slot].bootstrapped = karenas[proc[q].slot].bootstrapped,
         proc'[p].at = "release" /\ proc'[p].slot # NoSlot => ~karenas'[proc'[p].slot].bootstrapped
  PROVE  NothingLost'
<1>1. \A q \in Procs : q # p => proc'[q] = proc[q]
  BY DEF OneProc
<1>2. ASSUME NEW j \in Slots, Live(j)'
      PROVE  \/ \E v \in maps' : v.proc = karenas'[j].owner
             \/ \E q \in Procs : /\ karenas'[j].owner = q /\ proc'[q].at = "release" /\ proc'[q].from <= j
                                 /\ ~karenas'[j].bootstrapped
  <2>1. CASE Live(j) /\ karenas[j].owner # p /\ karenas'[j].owner = karenas[j].owner
              /\ karenas'[j].bootstrapped = karenas[j].bootstrapped
    <3>1. CASE \E v \in maps : v.proc = karenas[j].owner
      BY <2>1, <3>1
    <3>2. CASE \E q \in Procs : /\ karenas[j].owner = q /\ proc[q].at = "release" /\ proc[q].from <= j
                                /\ ~karenas[j].bootstrapped
      BY <1>1, <2>1, <3>2
    <3> QED
      BY <2>1, <3>1, <3>2 DEF NothingLost
  <2> QED
    BY <1>2, <2>1
<1>3. ASSUME NEW q \in Procs, proc'[q].at = "release", proc'[q].slot # NoSlot
      PROVE  ~karenas'[proc'[q].slot].bootstrapped
  <2>1. CASE q = p
    BY <1>3, <2>1
  <2>2. CASE q # p
    <3>1. proc'[q] = proc[q] /\ proc[q].slot \in Slots \cup {NoSlot}
      BY <1>1, <2>2, StageFacts
    <3> QED
      BY <1>3, <2>2, <3>1 DEF NothingLost
  <2> QED
    BY <2>1, <2>2
<1> QED
  BY <1>2, <1>3 DEF NothingLost

(* Memory that stays in its slot is not lost.                              *)
LEMMA RegionsFound ==
  ASSUME NothingLost, regions' \subseteq regions,
         \A j \in Slots : Keeps(j) /\ karenas[j].kaddr \in regions' =>
           Keeps(j)' /\ karenas'[j].kaddr = karenas[j].kaddr
  PROVE  \A r \in regions' : \E j \in Slots : Keeps(j)' /\ karenas'[j].kaddr = r
BY DEF NothingLost

(* What every step does to the invariant.                                  *)
StepKeeps == Safe' /\ (NothingLost /\ causes' = {} => NothingLost')

(* A step on slot i of a process that is not in dev_release.               *)
LEMMA LostOnSlot ==
  ASSUME KaTypeOK, KaTypeOK', Handlers, NothingLost, NEW p \in Procs, NEW i \in Slots, OnSlot(p, i),
         proc'[p].at # "release", proc[p].at # "release", UNCHANGED maps,
         regions' \subseteq regions \/ (Keeps(i)' /\ regions' \subseteq regions \cup {karenas'[i].kaddr}),
         \A j \in Slots : j # i => (Keeps(j)' <=> Keeps(j)),
         Keeps(i) /\ karenas[i].kaddr \in regions' => Keeps(i)' /\ karenas'[i].kaddr = karenas[i].kaddr,
         Live(i)' => \E v \in maps : v.proc = karenas'[i].owner
  PROVE  NothingLost'
<1>1. /\ OneProc(p)
      /\ \A j \in Slots : j # i => SameShape(j) /\ karenas'[j].kaddr = karenas[j].kaddr
      /\ \A q \in Procs : q # p => proc[q].slot # i
  BY DEF OnSlot
<1>2. \A r \in regions' : \E j \in Slots : Keeps(j)' /\ karenas'[j].kaddr = r
  <2> SUFFICES ASSUME NEW r \in regions' PROVE \E j \in Slots : Keeps(j)' /\ karenas'[j].kaddr = r
    OBVIOUS
  <2>1. CASE r \in regions
    <3>1. PICK j \in Slots : Keeps(j) /\ karenas[j].kaddr = r
      BY <2>1 DEF NothingLost
    <3>2. CASE j = i
      BY <3>1, <3>2
    <3>3. CASE j # i
      BY <1>1, <3>1, <3>3
    <3> QED
      BY <3>2, <3>3
  <2>2. CASE r \notin regions
    <3>1. Keeps(i)' /\ karenas'[i].kaddr = r
      BY <2>2
    <3> QED
      BY <3>1
  <2> QED
    BY <2>1, <2>2
<1>3. ASSUME NEW j \in Slots, Live(j)'
      PROVE  \/ Live(j) /\ karenas[j].owner # p /\ karenas'[j].owner = karenas[j].owner
                /\ karenas'[j].bootstrapped = karenas[j].bootstrapped
             \/ \E v \in maps' : v.proc = karenas'[j].owner
  <2>1. CASE j = i
    BY <1>3, <2>1
  <2>2. CASE j # i
    <3>1. /\ Live(j) /\ karenas'[j].owner = karenas[j].owner
          /\ karenas'[j].bootstrapped = karenas[j].bootstrapped
      BY <1>1, <1>3, <2>2 DEF SameShape, Live
    <3>2. CASE karenas[j].owner # p
      BY <3>1, <3>2
    <3>3. CASE karenas[j].owner = p
      <4>1. \/ \E v \in maps : v.proc = p
            \/ \E q \in Procs : p = q /\ proc[q].at = "release"
        BY <3>1, <3>3 DEF NothingLost
      <4> QED
        BY <3>1, <3>3, <4>1
    <3> QED
      BY <3>2, <3>3
  <2> QED
    BY <2>1, <2>2
<1>4. \A q \in Procs : q # p /\ proc[q].slot \in Slots =>
         karenas'[proc[q].slot].bootstrapped = karenas[proc[q].slot].bootstrapped
  BY <1>1 DEF SameShape
<1> QED
  BY <1>1, <1>2, <1>3, <1>4, LostStep

(* Every action keeps what a race alone could disturb, and loses no        *)
(* memory. ka_create looks for a slot.                                     *)
LEMMA CreateFindsSafe ==
  ASSUME KaTypeOK, Safe, NEW p \in Procs, NEW size \in Sizes, CreateFindsSlot(p, size), "raced" \notin causes'
  PROVE  StepKeeps
<1>1. /\ KaTypeOK'
      /\ \/ /\ UNCHANGED karenas
            /\ ProcNow(p, "close", proc[p].file, NoSlot, size, proc[p].from, proc[p].addr)
         \/ \E i \in Slots :
            /\ ProcNow(p, "create", proc[p].file, i, size, proc[p].from, proc[p].addr)
            /\ karenas[i].uaddr = 0
            /\ SlotNow(i, 1, karenas[i].cur, karenas[i].size, karenas[i].kaddr, karenas[i].owner)
            /\ karenas'[i].bootstrapped = karenas[i].bootstrapped
            /\ i \in Busy(p) => "raced" \in causes'
  BY CreateFindsEffect
<1>2. /\ ~oops /\ UNCHANGED <<regions, made, maps, held, within, blocks, oops>>
      /\ proc[p].at = "idle" /\ proc[p].slot = NoSlot
  <2>1. proc[p].at = "idle"
    BY DEF CreateFindsSlot, At
  <2>2. proc[p].slot = NoSlot
    BY <2>1, StageFacts DEF Stage
  <2> QED
    BY <2>1, <2>2 DEF CreateFindsSlot, At
<1>3. Handlers /\ RegionsKept /\ \A q \in Procs : Nested(q)
  BY DEF Safe
<1>4. CASE /\ UNCHANGED karenas
           /\ ProcNow(p, "close", proc[p].file, NoSlot, size, proc[p].from, proc[p].addr)
  <2>1. OneProc(p) /\ proc'[p].at = "close" /\ proc'[p].slot = NoSlot
    BY <1>4 DEF ProcNow, Holds
  <2>2. Handling(p)'
    BY <2>1 DEF Handling
  <2>3. Handlers' /\ RegionsKept' /\ \A j \in Slots : Keeps(j)' <=> Keeps(j)
    BY <1>2, <1>3, <1>4, <2>1, <2>2, IdleStep
  <2>4. \A q \in Procs : Nested(q)'
    BY <1>1, <1>2, <1>3, <1>4, <2>1, QuietNests
  <2>5. ASSUME NothingLost PROVE NothingLost'
    BY <1>2, <1>4, <2>1, <2>3, <2>5 DEF NothingLost, OneProc, Live
  <2> QED
    BY <2>3, <2>4, <2>5 DEF StepKeeps, Safe
<1>5. CASE \E i \in Slots :
            /\ ProcNow(p, "create", proc[p].file, i, size, proc[p].from, proc[p].addr)
            /\ karenas[i].uaddr = 0
            /\ SlotNow(i, 1, karenas[i].cur, karenas[i].size, karenas[i].kaddr, karenas[i].owner)
            /\ karenas'[i].bootstrapped = karenas[i].bootstrapped
            /\ i \in Busy(p) => "raced" \in causes'
  <2>1. PICK i \in Slots :
            /\ ProcNow(p, "create", proc[p].file, i, size, proc[p].from, proc[p].addr)
            /\ karenas[i].uaddr = 0
            /\ SlotNow(i, 1, karenas[i].cur, karenas[i].size, karenas[i].kaddr, karenas[i].owner)
            /\ karenas'[i].bootstrapped = karenas[i].bootstrapped
            /\ i \in Busy(p) => "raced" \in causes'
    BY <1>5
  <2>2. OneProc(p) /\ proc'[p].at = "create" /\ proc'[p].slot = i
    BY <2>1 DEF ProcNow, Holds
  <2>3. \A q \in Procs : q # p => proc[q].slot # i
    BY <2>1, NotBusy
  <2>4. karenas'[i].uaddr = 1 /\ \A j \in Slots : j # i => karenas'[j] = karenas[j]
    BY <2>1 DEF SlotNow, Has
  <2>5. OnSlot(p, i)
    BY <1>2, <2>2, <2>3, <2>4 DEF OnSlot, SameShape
  <2>6. Handling(p)'
    BY <2>2, <2>4 DEF Handling
  <2>7. ~Keeps(i)' /\ ~Live(i)' /\ ~Live(i) /\ ~Keeps(i)
    <3>1. ~Live(i)' /\ ~Live(i)
      BY <2>1, <2>4 DEF Live
    <3> QED
      BY <1>2, <2>2, <2>3, <3>1, NoSlotNot DEF Keeps, OneProc
  <2>8. \A j \in Slots : Keeps(j) => karenas[j].kaddr \in regions'
    BY <1>2, <1>3 DEF RegionsKept
  <2>9. Handlers' /\ RegionsKept' /\ \A j \in Slots : j # i => (Keeps(j)' <=> Keeps(j))
    BY <1>2, <1>3, <2>2, <2>5, <2>6, <2>7, <2>8, SlotStep
  <2>10. \A q \in Procs : Nested(q)'
    <3>1. \A j \in Slots : Live(j) => karenas'[j] = karenas[j]
      BY <2>4, <2>7
    <3>2. proc'[p].at # "bootstrap"
      BY <2>2
    <3> QED
      BY <1>1, <1>2, <1>3, <2>2, <3>1, <3>2, QuietNests
  <2>11. ASSUME NothingLost PROVE NothingLost'
    BY <1>1, <1>2, <1>3, <2>2, <2>5, <2>7, <2>9, <2>11, LostOnSlot
  <2> QED
    BY <2>9, <2>10, <2>11 DEF StepKeeps, Safe
<1> QED
  BY <1>1, <1>4, <1>5

(* A step that changes nothing but where a process without a slot is, and  *)
(* does not begin or end dev_release.                                      *)
LEMMA LostIdle ==
  ASSUME NothingLost, NEW p \in Procs, OneProc(p), UNCHANGED <<karenas, regions, maps>>,
         \A j \in Slots : Keeps(j)' <=> Keeps(j), proc'[p].slot = NoSlot, proc[p].at # "release"
  PROVE  NothingLost'
<1>1. \A q \in Procs : q # p => proc'[q] = proc[q]
  BY DEF OneProc
<1>2. \A q \in Procs : proc[q].at = "release" => proc'[q] = proc[q]
  BY <1>1
<1> QED
  BY <1>1, <1>2 DEF NothingLost, Live

(* The device is opened.                                                   *)
LEMMA DevOpenSafe ==
  ASSUME KaTypeOK, Safe, NEW p \in Procs, dev_open(p)
  PROVE  StepKeeps
<1>1. KaTypeOK' /\ ProcNow(p, "idle", "open", NoSlot, proc[p].size, proc[p].from, proc[p].addr)
  BY DevOpenEffect
<1>2. OneProc(p) /\ proc'[p].at = "idle" /\ proc'[p].slot = NoSlot
  BY <1>1 DEF ProcNow, Holds
<1>3. /\ ~oops /\ ~oops' /\ UNCHANGED <<karenas, regions, made, maps, held, within, blocks>>
      /\ proc[p].at = "idle" /\ proc[p].slot = NoSlot
  <2>1. proc[p].at = "idle"
    BY DEF dev_open, At
  <2>2. proc[p].slot = NoSlot
    BY <2>1, StageFacts DEF Stage
  <2> QED
    BY <2>1, <2>2 DEF dev_open, At
<1>4. Handlers /\ RegionsKept /\ \A q \in Procs : Nested(q)
  BY DEF Safe
<1>5. Handling(p)'
  BY <1>2 DEF Handling
<1>6. Handlers' /\ RegionsKept' /\ \A j \in Slots : Keeps(j)' <=> Keeps(j)
  BY <1>2, <1>3, <1>4, <1>5, IdleStep
<1>7. \A q \in Procs : Nested(q)'
  BY <1>1, <1>2, <1>3, <1>4, QuietNests
<1>8. ASSUME NothingLost PROVE NothingLost'
  BY <1>2, <1>3, <1>6, <1>8, LostIdle
<1> QED
  BY <1>6, <1>7, <1>8 DEF StepKeeps, Safe

(* vmalloc fails.                                                          *)
LEMMA OutOfMemorySafe ==
  ASSUME KaTypeOK, Safe, NEW p \in Procs, CreateOutOfMemory(p)
  PROVE  StepKeeps
<1>1. /\ proc[p].at = "vmalloc" /\ ~oops /\ oops' = TRUE
      /\ UNCHANGED <<karenas, regions, made, maps, proc, held, within, blocks>>
  BY DEF CreateOutOfMemory, At
<1>2. KaTypeOK'
  BY OutOfMemoryEffect
<1>3. Handlers'
  BY <1>1 DEF Safe, Handlers, Handling
<1>4. RegionsKept' /\ (NothingLost => NothingLost')
  BY <1>1 DEF Safe, RegionsKept, Keeps, Live, NothingLost
<1>5. \A q \in Procs : Nested(q)'
  <2>1. OneProc(p) /\ proc'[p].at # "bootstrap"
    BY <1>1 DEF OneProc, KaTypeOK, ProcTypeOK
  <2> QED
    BY <1>1, <1>2, <2>1, QuietNests DEF Safe
<1> QED
  BY <1>3, <1>4, <1>5 DEF StepKeeps, Safe

(* ka_create fills the slot in.                                            *)
LEMMA CreateFillsSafe ==
  ASSUME KaTypeOK, Safe, NEW p \in Procs, CreateFillsSlot(p)
  PROVE  StepKeeps
<1>1. PICK i : i = proc[p].slot
  OBVIOUS
<1>2. PICK z : z = PAGE_ALIGN(proc[p].size)
  OBVIOUS
<1>3. /\ KaTypeOK'
      /\ z \in 0 .. Span - 2 /\ i \in Slots
      /\ ProcNow(p, "vmalloc", proc[p].file, i, z, proc[p].from, proc[p].addr)
      /\ SlotNow(i, 0, 0, z, karenas[i].kaddr, p) /\ karenas'[i].bootstrapped = FALSE
  BY <1>1, <1>2, CreateFillsEffect
<1>4. /\ ~oops /\ proc[p].at = "create" /\ UNCHANGED <<regions, made, maps, held, within, blocks>>
      /\ oops' = (z = 0)
  BY <1>2 DEF CreateFillsSlot, At
<1>5. /\ OneProc(p) /\ proc'[p].at = "vmalloc" /\ proc'[p].slot = i /\ proc'[p].size = z
      /\ karenas'[i].uaddr = 0 /\ karenas'[i].cur = 0 /\ karenas'[i].size = z /\ karenas'[i].owner = p
      /\ \A j \in Slots : j # i => karenas'[j] = karenas[j]
  BY <1>3 DEF ProcNow, Holds, SlotNow, Has
<1>6. Handlers /\ RegionsKept /\ (\A q \in Procs : Nested(q)) /\ Handling(p)
  BY DEF Safe, Handlers
<1>7. \A q \in Procs : q # p => proc[q].slot # i
  BY <1>1, <1>3, <1>6, MySlot
<1>8. OnSlot(p, i)
  BY <1>1, <1>3, <1>5, <1>7 DEF OnSlot, SameShape
<1>9. Handling(p)'
  <2>1. z > 0 \/ oops'
    <3>1. z = 0 => oops'
      BY <1>4, Zenon
    <3>2. z \in Nat
      BY <1>3, PageFacts
    <3> QED
      BY <3>1, <3>2
  <2> QED
    BY <1>3, <1>5, <2>1 DEF Handling
<1>10. ~Keeps(i)' /\ ~Live(i)' /\ ~Live(i) /\ ~Keeps(i)
  <2>1. ~Live(i)' /\ ~Live(i)
    BY <1>1, <1>4, <1>5, <1>6 DEF Live, Handling
  <2> QED
    BY <1>1, <1>4, <1>5, <1>7, <2>1 DEF Keeps, OneProc
<1>11. \A j \in Slots : Keeps(j) => karenas[j].kaddr \in regions'
  BY <1>4, <1>6 DEF RegionsKept
<1>12. Handlers' /\ RegionsKept' /\ \A j \in Slots : j # i => (Keeps(j)' <=> Keeps(j))
  BY <1>3, <1>4, <1>5, <1>6, <1>8, <1>9, <1>10, <1>11, SlotStep
<1>13. \A q \in Procs : Nested(q)'
  <2>1. \A j \in Slots : Live(j) => karenas'[j] = karenas[j]
    BY <1>5, <1>10
  <2>2. proc'[p].at # "bootstrap"
    BY <1>5
  <2> QED
    BY <1>3, <1>4, <1>5, <1>6, <2>1, <2>2, QuietNests
<1>14. ASSUME NothingLost PROVE NothingLost'
  BY <1>3, <1>4, <1>5, <1>6, <1>8, <1>10, <1>12, <1>14, LostOnSlot
<1> QED
  BY <1>12, <1>13, <1>14 DEF StepKeeps, Safe

(* ka_create allocates memory no slot has.                                 *)
LEMMA CreateAllocatesSafe ==
  ASSUME KaTypeOK, Safe, NEW p \in Procs, CreateAllocates(p)
  PROVE  StepKeeps
<1>1. PICK i : i = proc[p].slot
  OBVIOUS
<1>2. PICK n : n = Len(made) + 1
  OBVIOUS
<1>3. /\ KaTypeOK' /\ i \in Slots /\ n \in Nat
      /\ ProcNow(p, "mmap", proc[p].file, i, proc[p].size, proc[p].from, proc[p].addr)
      /\ SlotNow(i, karenas[i].uaddr, karenas[i].cur, karenas[i].size, n, karenas[i].owner)
      /\ karenas'[i].bootstrapped = karenas[i].bootstrapped
      /\ regions' = regions \cup {n} /\ made'[n] = p /\ Len(made') = n
      /\ \A m \in 1 .. Len(made) : made'[m] = made[m]
  BY <1>1, <1>2, CreateAllocatesEffect
<1>4. /\ ~oops /\ ~oops' /\ proc[p].at = "vmalloc" /\ UNCHANGED <<maps, held, within, blocks>>
  BY DEF CreateAllocates, At
<1>5. /\ OneProc(p) /\ proc'[p].at = "mmap" /\ proc'[p].slot = i /\ proc'[p].size = proc[p].size
      /\ karenas'[i].uaddr = karenas[i].uaddr /\ karenas'[i].cur = karenas[i].cur
      /\ karenas'[i].size = karenas[i].size /\ karenas'[i].owner = karenas[i].owner
      /\ karenas'[i].kaddr = n
      /\ \A j \in Slots : j # i => karenas'[j] = karenas[j]
  BY <1>3 DEF ProcNow, Holds, SlotNow, Has
<1>6. Handlers /\ RegionsKept /\ (\A q \in Procs : Nested(q)) /\ Handling(p)
  BY DEF Safe, Handlers
<1>7. \A q \in Procs : q # p => proc[q].slot # i
  BY <1>1, <1>3, <1>6, MySlot
<1>8. /\ karenas[i].uaddr = 0 /\ karenas[i].size = proc[p].size /\ karenas[i].owner = p
      /\ karenas[i].cur = 0 /\ ~karenas[i].bootstrapped /\ karenas[i].size > 0
  BY <1>1, <1>4, <1>6 DEF Handling
<1>9. ~Live(i)' /\ ~Live(i) /\ ~Keeps(i) /\ Keeps(i)'
  <2>1. ~Live(i)' /\ ~Live(i)
    BY <1>5, <1>8 DEF Live
  <2>2. ~Keeps(i)
    BY <1>1, <1>4, <1>7, <2>1 DEF Keeps
  <2> QED
    BY <1>3, <1>5, <1>8, <2>1, <2>2 DEF Keeps
<1>10. \A j \in Slots : j # i => (Keeps(j)' <=> Keeps(j))
  BY <1>1, <1>5, KeepsSame
<1>11. ASSUME NEW j \in Slots, Keeps(j)
       PROVE  /\ j # i /\ karenas[j].kaddr \in regions /\ karenas[j].kaddr # n
              /\ karenas'[j] = karenas[j]
              /\ karenas[j].owner # NoProc => made'[karenas[j].kaddr] = karenas[j].owner
  <2>1. j # i /\ karenas[j].kaddr \in regions
    BY <1>6, <1>9, <1>11 DEF RegionsKept
  <2>2. karenas[j].kaddr \in 1 .. Len(made) /\ Len(made) \in Nat
    <3>1. regions \subseteq 1 .. Len(made)
      BY DEF KaTypeOK, OtherTypeOK
    <3> QED
      BY <2>1, <3>1, TableFacts
  <2>3. karenas[j].owner # NoProc => made[karenas[j].kaddr] = karenas[j].owner
    BY <1>6, <1>11 DEF RegionsKept
  <2>4. karenas[j].kaddr # n
    BY <1>2, <2>2
  <2> QED
    BY <1>3, <1>5, <2>1, <2>2, <2>3, <2>4
<1>12. RegionsKept'
  <2>1. ASSUME NEW j \in Slots, Keeps(j)'
        PROVE  /\ karenas'[j].kaddr \in regions'
               /\ karenas'[j].owner # NoProc => made'[karenas'[j].kaddr] = karenas'[j].owner
    <3>1. CASE j = i
      BY <1>3, <1>5, <1>8, <3>1
    <3>2. CASE j # i
      BY <1>3, <1>10, <1>11, <2>1, <3>2
    <3> QED
      BY <3>1, <3>2
  <2>2. ASSUME NEW j \in Slots, NEW l \in Slots, Keeps(j)', Keeps(l)', karenas'[j].kaddr = karenas'[l].kaddr
        PROVE  j = l
    <3>1. CASE j = i \/ l = i
      BY <1>5, <1>10, <1>11, <2>2, <3>1
    <3>2. CASE j # i /\ l # i
      BY <1>6, <1>10, <1>11, <2>2, <3>2 DEF RegionsKept
    <3> QED
      BY <3>1, <3>2
  <2>3. \A j \in Slots : Live(j)' => karenas'[j].owner # NoProc
    BY <1>5, <1>6, <1>9 DEF RegionsKept, Live
  <2> QED
    BY <2>1, <2>2, <2>3 DEF RegionsKept
<1>13. Handlers'
  <2>1. Handling(p)'
    BY <1>3, <1>5, <1>8 DEF Handling
  <2>2. \A q \in Procs : q # p /\ proc[q].slot \in Slots =>
           karenas'[proc[q].slot] = karenas[proc[q].slot]
    BY <1>5, <1>7
  <2>3. \A q \in Procs : q # p /\ proc[q].slot = proc'[p].slot => proc'[p].slot = NoSlot
    BY <1>5, <1>7
  <2>4. \A j \in Slots : karenas'[j].uaddr = 1 =>
           \/ karenas[j].uaddr = 1 /\ ~(proc[p].at \in {"create", "bootstrap"} /\ proc[p].slot = j)
           \/ proc'[p].at \in {"create", "bootstrap"} /\ proc'[p].slot = j
    BY <1>4, <1>5, <1>8
  <2> QED
    BY <1>4, <1>5, <1>6, <2>1, <2>2, <2>3, <2>4, HandlersStep
<1>14. \A q \in Procs : Nested(q)'
  <2>1. \A j \in Slots : Live(j) => karenas'[j] = karenas[j]
    BY <1>5, <1>9
  <2>2. proc'[p].at # "bootstrap"
    BY <1>5
  <2> QED
    BY <1>3, <1>4, <1>5, <1>6, <2>1, <2>2, QuietNests
<1>15. ASSUME NothingLost PROVE NothingLost'
  <2>1. OnSlot(p, i)
    BY <1>1, <1>3, <1>5, <1>7 DEF OnSlot, SameShape
  <2>2. Keeps(i)' /\ regions' \subseteq regions \cup {karenas'[i].kaddr}
    BY <1>3, <1>5, <1>9
  <2> QED
    BY <1>3, <1>4, <1>5, <1>6, <1>9, <1>10, <1>15, <2>1, <2>2, LostOnSlot
<1> QED
  BY <1>12, <1>13, <1>14, <1>15 DEF StepKeeps, Safe

(* A ka_create that failed closes the device.                              *)
LEMMA CreateFailsSafe ==
  ASSUME KaTypeOK, Safe, NEW p \in Procs, CreateFails(p)
  PROVE  StepKeeps
<1>1. /\ KaTypeOK'
      /\ \/ ProcNow(p, "idle", "closed", NoSlot, 0, NoSlot, 0)
         \/ ProcNow(p, "release", "closed", NoSlot, 0, 0, 0)
  BY CreateFailsEffect
<1>2. /\ ~oops /\ ~oops' /\ UNCHANGED <<karenas, regions, made, maps, held, within, blocks>>
      /\ proc[p].at = "close"
  BY DEF CreateFails, At
<1>3. Handlers /\ RegionsKept /\ (\A q \in Procs : Nested(q)) /\ proc[p].slot = NoSlot
  BY <1>2 DEF Safe, Handlers, Handling
<1>4. OneProc(p) /\ proc'[p].at \in {"idle", "release"} /\ proc'[p].slot = NoSlot
  BY <1>1 DEF ProcNow, Holds
<1>5. Handling(p)'
  BY <1>4 DEF Handling
<1>6. Handlers' /\ RegionsKept' /\ \A j \in Slots : Keeps(j)' <=> Keeps(j)
  BY <1>2, <1>3, <1>4, <1>5, IdleStep
<1>7. \A q \in Procs : Nested(q)'
  BY <1>1, <1>2, <1>3, <1>4, QuietNests
<1>8. ASSUME NothingLost PROVE NothingLost'
  BY <1>2, <1>4, <1>6, <1>8, LostIdle
<1> QED
  BY <1>6, <1>7, <1>8 DEF StepKeeps, Safe

(* karena_mmap maps the slot.                                              *)
LEMMA MmapSafe ==
  ASSUME KaTypeOK, Safe, NEW p \in Procs, karena_mmap(p), "raced" \notin causes'
  PROVE  StepKeeps
<1>1. PICK i : i = proc[p].slot
  OBVIOUS
<1>2. Handlers /\ RegionsKept /\ (\A q \in Procs : Nested(q)) /\ Handling(p)
  BY DEF Safe, Handlers
<1>3. KaTypeOK' /\ MmapDone(p, i)
  BY <1>1, <1>2, MmapMaps
<1>4. /\ i \in Slots /\ ~Live(i)
      /\ karenas[i].uaddr = 0 /\ karenas[i].cur = 0 /\ karenas[i].owner = p
      /\ karenas[i].size \in Nat /\ karenas[i].size > 0
      /\ ~karenas[i].bootstrapped /\ ~karenas'[i].bootstrapped
      /\ ProcNow(p, "idle", proc[p].file, NoSlot, 0, NoSlot, 0)
      /\ HeldNow(p, held[p] \cup {i}) /\ WithinNow(i, {})
      /\ \E n \in Nat \ {0} :
           /\ Maps(p, i, n)
           /\ SlotNow(i, n * Span, 0, karenas[i].size, karenas[i].kaddr, p)
  BY <1>3 DEF MmapDone
<1>5. PICK n \in Nat \ {0} :
           /\ Maps(p, i, n)
           /\ SlotNow(i, n * Span, 0, karenas[i].size, karenas[i].kaddr, p)
  BY <1>4
<1>6. /\ ~oops /\ ~oops' /\ proc[p].at = "mmap" /\ UNCHANGED <<regions, made, blocks>>
  BY DEF karena_mmap, At
<1>7. /\ OneProc(p) /\ proc'[p].at = "idle" /\ proc'[p].slot = NoSlot
      /\ karenas'[i].uaddr = n * Span /\ karenas'[i].kaddr = karenas[i].kaddr /\ karenas'[i].owner = p
      /\ \A j \in Slots : j # i => karenas'[j] = karenas[j]
  BY <1>4, <1>5 DEF ProcNow, Holds, SlotNow, Has
<1>8. \A q \in Procs : q # p => proc[q].slot # i
  BY <1>1, <1>2, <1>4, MySlot
<1>9. OnSlot(p, i)
  BY <1>1, <1>4, <1>7, <1>8 DEF OnSlot, SameShape
<1>10. n * Span \in Nat /\ n * Span >= 2
  <2>1. 0 * Span = 0 /\ 0 < n
    BY PageFacts
  <2>2. 0 * Span + Span <= n * Span /\ n * Span \in Nat
    BY <2>1, SpanApart
  <2> QED
    BY <2>1, <2>2, PageFacts
<1>11. Live(i)' /\ karenas'[i].uaddr # 1
  BY <1>7, <1>10 DEF Live
<1>12. Handling(p)'
  BY <1>7 DEF Handling
<1>13. Keeps(i)
  BY <1>1, <1>4, <1>6 DEF Keeps
<1>14. karenas[i].kaddr \in regions' /\ \A j \in Slots : Keeps(j) => karenas[j].kaddr \in regions'
  BY <1>2, <1>4, <1>6, <1>13 DEF RegionsKept
<1>15. p # NoProc
  BY KaAssumption
<1>16. Handlers' /\ RegionsKept' /\ \A j \in Slots : j # i => (Keeps(j)' <=> Keeps(j))
  BY <1>2, <1>4, <1>6, <1>7, <1>9, <1>11, <1>12, <1>13, <1>14, <1>15, SlotStep
<1>17. \A q \in Procs : Nested(q)'
  <2>1. Nested(p)'
    BY <1>2, MmapNests
  <2>2. \A j \in Slots : Live(j) /\ karenas[j].owner # p => karenas'[j] = karenas[j] /\ within'[j] = within[j]
    BY <1>4, <1>7 DEF WithinNow
  <2>3. \A q \in Procs : q # p => held'[q] = held[q]
    BY <1>4 DEF HeldNow
  <2>4. (\A v \in maps : v.proc # p => v \in maps') /\ (\A b \in blocks' : b.proc # p => b \in blocks)
    BY <1>5, <1>6 DEF Maps
  <2>5. \A q \in Procs : q # p => Nested(q)'
    BY <1>2, <1>7, <2>2, <2>3, <2>4, OthersNest
  <2> QED
    BY <2>1, <2>5
<1>18. ASSUME NothingLost PROVE NothingLost'
  <2>1. PICK w : w = [vma |-> n, proc |-> p, slot |-> i]
    OBVIOUS
  <2>2. w \in maps' /\ w.proc = p /\ maps \subseteq maps'
    BY <1>5, <2>1 DEF Maps
  <2>3. Keeps(i)'
    BY <1>4, <1>11 DEF Keeps
  <2>4. \A r \in regions' : \E j \in Slots : Keeps(j)' /\ karenas'[j].kaddr = r
    <3>1. \A j \in Slots : Keeps(j) => Keeps(j)' /\ karenas'[j].kaddr = karenas[j].kaddr
      BY <1>7, <1>16, <2>3
    <3>2. regions' \subseteq regions
      BY <1>6
    <3> QED
      BY <1>18, <3>1, <3>2, RegionsFound
  <2>5. ASSUME NEW j \in Slots, Live(j)'
        PROVE  \/ Live(j) /\ karenas[j].owner # p /\ karenas'[j].owner = karenas[j].owner
                  /\ karenas'[j].bootstrapped = karenas[j].bootstrapped
               \/ \E v \in maps' : v.proc = karenas'[j].owner
    <3>1. CASE karenas'[j].owner = p
      BY <2>2, <3>1
    <3>2. CASE karenas'[j].owner # p
      <4>1. j # i /\ karenas'[j] = karenas[j]
        BY <1>7, <3>2
      <4> QED
        BY <2>5, <3>2, <4>1 DEF Live
    <3> QED
      BY <3>1, <3>2
  <2>6. \A q \in Procs : q # p /\ proc[q].slot \in Slots =>
           karenas'[proc[q].slot].bootstrapped = karenas[proc[q].slot].bootstrapped
    BY <1>7, <1>8
  <2>7. proc'[p].at # "release" /\ \A v \in maps : v.proc # p => v \in maps'
    BY <1>7, <2>2
  <2> QED
    BY <1>2, <1>3, <1>7, <1>18, <2>4, <2>5, <2>6, <2>7, LostStep
<1> QED
  BY <1>16, <1>17, <1>18 DEF StepKeeps, Safe

(* The arenas in use are used through a mapping.                           *)
LEMMA HeldMapped ==
  ASSUME KaTypeOK, NEW p \in Procs, Nested(p), NEW i \in held[p]
  PROVE  /\ i \in Slots /\ Live(i) /\ karenas[i].owner = p
         /\ \E v \in maps : v.proc = p
<1>1. ArenasNest(p)
  BY DEF Nested
<1>2. i \in Slots /\ Live(i) /\ karenas[i].owner = p
  BY <1>1, HeldFacts
<1>3. \E v \in maps : v.proc = p
  BY <1>1 DEF ArenasNest, Covers
<1> QED
  BY <1>2, <1>3

(* The position of an arena in use moves.                                  *)
LEMMA MovedSafe ==
  ASSUME KaTypeOK, KaTypeOK', Safe, NEW p \in Procs, NEW i \in held[p], NEW c,
         SlotNow(i, karenas[i].uaddr, c, karenas[i].size, karenas[i].kaddr, karenas[i].owner),
         karenas'[i].bootstrapped = karenas[i].bootstrapped, ~oops,
         UNCHANGED <<regions, made, maps, proc, within, oops>>, proc[p].at = "idle",
         \A q \in Procs : q # p => held'[q] = held[q],
         \A b \in blocks' : b.proc # p => b \in blocks, Nested(p)'
  PROVE  StepKeeps
<1>1. Handlers /\ RegionsKept /\ \A q \in Procs : Nested(q)
  BY DEF Safe
<1>2. i \in Slots /\ Live(i) /\ karenas[i].owner = p /\ \E v \in maps : v.proc = p
  BY <1>1, HeldMapped
<1>3. (\A j \in Slots : SameShape(j) /\ (j # i => karenas'[j] = karenas[j]))
      /\ karenas'[i].kaddr = karenas[i].kaddr
  <2>1. \A j \in Slots : SameShape(j) /\ (j # i => karenas'[j] = karenas[j])
    BY <1>2, MovedShapes
  <2> QED
    BY <2>1 DEF SlotNow, Has
<1>4. \A q \in Procs : proc[q].slot # i
  BY <1>1, <1>2, LiveNotBusy
<1>5. OneProc(p) /\ proc[p].slot = NoSlot /\ proc'[p].slot = NoSlot /\ proc'[p].at = "idle"
  <2>1. proc[p].slot = NoSlot
    BY StageFacts DEF Stage
  <2> QED
    BY <2>1 DEF OneProc, KaTypeOK, ProcTypeOK
<1>6. OnSlot(p, i)
  BY <1>2, <1>3, <1>4, <1>5 DEF OnSlot
<1>7. Handling(p)'
  BY <1>5 DEF Handling
<1>8. \A j \in Slots : Keeps(j)' <=> Keeps(j)
  BY <1>3, <1>5, NoSlotNot, KeepsSame DEF SameShape
<1>9. karenas'[i].uaddr # 1 /\ karenas'[i].owner = p /\ p # NoProc
  BY <1>2, <1>3, KaAssumption DEF SameShape, Live
<1>10. \A j \in Slots : Keeps(j) => karenas[j].kaddr \in regions'
  BY <1>1 DEF RegionsKept
<1>11. Handlers' /\ RegionsKept'
  BY <1>1, <1>2, <1>3, <1>6, <1>7, <1>8, <1>9, <1>10, SlotStep
<1>12. \A q \in Procs : Nested(q)'
  <2>1. \A j \in Slots : Live(j) /\ karenas[j].owner # p => karenas'[j] = karenas[j] /\ within'[j] = within[j]
    BY <1>2, <1>3
  <2>2. \A v \in maps : v.proc # p => v \in maps'
    OBVIOUS
  <2>3. \A q \in Procs : q # p => Nested(q)'
    BY <1>1, <1>5, <2>1, <2>2, OthersNest
  <2> QED
    BY <2>3
<1>13. ASSUME NothingLost PROVE NothingLost'
  <2>1. regions' \subseteq regions
    OBVIOUS
  <2> QED
    BY <1>1, <1>2, <1>3, <1>5, <1>6, <1>8, <1>9, <1>13, <2>1, LostOnSlot
<1> QED
  BY <1>11, <1>12, <1>13 DEF StepKeeps, Safe

(* ka_alloc and ka_reserve.                                                *)
LEMMA TakesSafe ==
  ASSUME KaTypeOK, Safe, NEW p \in Procs, NEW i \in Slots, NEW size, Takes(p, i, size)
  PROVE  StepKeeps
<1>1. i \in held[p] /\ proc[p].at = "idle" /\ ~oops
  BY MayFacts DEF Takes
<1>2. PICK c : c = karenas[i].cur + size
  OBVIOUS
<1>3. /\ KaTypeOK' /\ SlotNow(i, karenas[i].uaddr, c, karenas[i].size, karenas[i].kaddr, karenas[i].owner)
      /\ karenas'[i].bootstrapped = karenas[i].bootstrapped
  BY <1>2, TakesEffect
<1>4. UNCHANGED <<regions, made, maps, proc, held, within, oops>>
  BY DEF Takes
<1>5. \A b \in blocks' : b.proc # p => b \in blocks
  BY DEF Takes, NewBlock
<1>6. Nested(p)'
  BY TakesNests DEF Safe
<1> QED
  BY <1>1, <1>3, <1>4, <1>5, <1>6, MovedSafe

(* ka_seek and ka_pop.                                                     *)
LEMMA MovesBackSafe ==
  ASSUME KaTypeOK, Safe, NEW p \in Procs, NEW i \in Slots, NEW pos, MovesBack(p, i, pos)
  PROVE  StepKeeps
<1>1. i \in held[p] /\ proc[p].at = "idle" /\ ~oops
  BY MayFacts DEF MovesBack
<1>2. /\ KaTypeOK' /\ SlotNow(i, karenas[i].uaddr, pos, karenas[i].size, karenas[i].kaddr, karenas[i].owner)
      /\ karenas'[i].bootstrapped = karenas[i].bootstrapped
      /\ blocks' = KeptBlocks(p, i, pos) /\ \A q \in Procs : q # p => held'[q] = held[q]
  BY MovesBackEffect
<1>3. UNCHANGED <<regions, made, maps, proc, within, oops>>
  BY DEF MovesBack
<1>4. \A b \in blocks' : b.proc # p => b \in blocks
  BY <1>2 DEF KeptBlocks
<1>5. Nested(p)'
  BY MovesBackNests DEF Safe
<1> QED
  BY <1>1, <1>2, <1>3, <1>4, <1>5, MovedSafe

(* ka_bootstrap takes its memory and looks for a slot.                     *)
LEMMA BootstrapFindsSafe ==
  ASSUME KaTypeOK, Safe, NEW p \in Procs, NEW i \in Slots, NEW size \in Sizes,
         BootstrapFindsSlot(p, i, size), "raced" \notin causes'
  PROVE  StepKeeps
<1>1. PICK c : c = karenas[i].cur + size
  OBVIOUS
<1>2. i \in held[p] /\ proc[p].at = "idle" /\ proc[p].slot = NoSlot /\ ~oops
  BY MayFacts DEF BootstrapFindsSlot
<1>3. UNCHANGED <<regions, made, maps, held, within, blocks, oops>>
  BY DEF BootstrapFindsSlot
<1>4. /\ KaTypeOK'
      /\ \/ /\ SlotNow(i, karenas[i].uaddr, c, karenas[i].size, karenas[i].kaddr, karenas[i].owner)
            /\ karenas'[i].bootstrapped = karenas[i].bootstrapped
            /\ UNCHANGED proc
         \/ \E j \in Slots :
            /\ karenas[j].uaddr = 0 /\ karenas' \in [Slots -> Slot]
            /\ j # i =>
                 /\ Has(karenas'[i], karenas[i].uaddr, c, karenas[i].size, karenas[i].kaddr, karenas[i].owner)
                 /\ karenas'[i].bootstrapped = karenas[i].bootstrapped
                 /\ Has(karenas'[j], 1, karenas[j].cur, karenas[j].size, karenas[j].kaddr, karenas[j].owner)
                 /\ karenas'[j].bootstrapped = karenas[j].bootstrapped
            /\ ProcNow(p, "bootstrap", proc[p].file, j, size, i, karenas[i].uaddr + karenas[i].cur)
            /\ \A l \in Slots : l # i /\ l # j => karenas'[l] = karenas[l]
            /\ j \in Busy(p) => "raced" \in causes'
  BY <1>1, BootstrapFindsEffect
<1>5. Handlers /\ RegionsKept /\ \A q \in Procs : Nested(q)
  BY DEF Safe
<1>6. Nested(p)'
  BY <1>5, BootstrapFindsNests
<1>7. Live(i) /\ karenas[i].owner = p
  BY <1>2, <1>5, HeldMapped
<1>8. CASE /\ SlotNow(i, karenas[i].uaddr, c, karenas[i].size, karenas[i].kaddr, karenas[i].owner)
           /\ karenas'[i].bootstrapped = karenas[i].bootstrapped
           /\ UNCHANGED proc
  BY <1>2, <1>3, <1>4, <1>6, <1>8, MovedSafe
<1>9. ASSUME NEW j \in Slots,
             karenas[j].uaddr = 0, karenas' \in [Slots -> Slot],
             j # i =>
                 /\ Has(karenas'[i], karenas[i].uaddr, c, karenas[i].size, karenas[i].kaddr, karenas[i].owner)
                 /\ karenas'[i].bootstrapped = karenas[i].bootstrapped
                 /\ Has(karenas'[j], 1, karenas[j].cur, karenas[j].size, karenas[j].kaddr, karenas[j].owner)
                 /\ karenas'[j].bootstrapped = karenas[j].bootstrapped,
             ProcNow(p, "bootstrap", proc[p].file, j, size, i, karenas[i].uaddr + karenas[i].cur),
             \A l \in Slots : l # i /\ l # j => karenas'[l] = karenas[l],
             j \in Busy(p) => "raced" \in causes'
      PROVE  StepKeeps
  <2>1. j # i /\ ~Live(j)
    BY <1>7, <1>9 DEF Live
  <2>2. OneProc(p) /\ proc'[p].at = "bootstrap" /\ proc'[p].slot = j
    BY <1>9 DEF ProcNow, Holds
  <2>3. \A q \in Procs : q # p => proc[q].slot # j
    BY <1>9, NotBusy
  <2>4. /\ karenas'[j].uaddr = 1 /\ SameShape(i) /\ karenas'[i].kaddr = karenas[i].kaddr
    BY <1>9, <2>1 DEF Has, SameShape
  <2>5. \A l \in Slots : l # j => SameShape(l) /\ karenas'[l].kaddr = karenas[l].kaddr
    BY <1>9, <2>4 DEF SameShape
  <2>6. \A l \in Slots : l # j /\ ~Live(l) => karenas'[l] = karenas[l]
    BY <1>7, <1>9
  <2>7. OnSlot(p, j)
    BY <1>2, <2>2, <2>3, <2>5, <2>6 DEF OnSlot
  <2>8. Handling(p)'
    BY <2>2, <2>4 DEF Handling
  <2>9. ~Keeps(j)' /\ ~Live(j)' /\ ~Keeps(j)
    <3>1. ~Live(j)'
      BY <2>4 DEF Live
    <3> QED
      BY <1>2, <2>1, <2>2, <2>3, <3>1, NoSlotNot DEF Keeps, OneProc
  <2>10. \A l \in Slots : Keeps(l) => karenas[l].kaddr \in regions'
    BY <1>3, <1>5 DEF RegionsKept
  <2>11. Handlers' /\ RegionsKept' /\ \A l \in Slots : l # j => (Keeps(l)' <=> Keeps(l))
    BY <1>2, <1>3, <1>5, <2>2, <2>7, <2>8, <2>9, <2>10, SlotStep
  <2>12. \A q \in Procs : Nested(q)'
    <3>1. \A l \in Slots : Live(l) /\ karenas[l].owner # p => karenas'[l] = karenas[l] /\ within'[l] = within[l]
      BY <1>3, <1>7, <1>9, <2>1
    <3>2. (\A v \in maps : v.proc # p => v \in maps') /\ (\A b \in blocks' : b.proc # p => b \in blocks)
      BY <1>3
    <3>3. \A q \in Procs : q # p => Nested(q)'
      BY <1>3, <1>5, <2>2, <3>1, <3>2, OthersNest
    <3> QED
      BY <1>6, <3>3
  <2>13. ASSUME NothingLost PROVE NothingLost'
    BY <1>2, <1>3, <1>4, <1>5, <2>2, <2>7, <2>9, <2>11, <2>13, LostOnSlot
  <2> QED
    BY <2>11, <2>12, <2>13 DEF StepKeeps, Safe
<1> QED
  BY <1>4, <1>8, <1>9

(* ka_bootstrap fills the slot in.                                         *)
LEMMA BootstrapFillsSafe ==
  ASSUME KaTypeOK, Safe, NEW p \in Procs, BootstrapFillsSlot(p)
  PROVE  StepKeeps
<1>1. PICK i : i = proc[p].from
  OBVIOUS
<1>2. PICK j : j = proc[p].slot
  OBVIOUS
<1>3. /\ KaTypeOK' /\ i \in Slots /\ j \in Slots
      /\ ProcNow(p, "idle", proc[p].file, NoSlot, 0, NoSlot, 0)
      /\ SlotNow(j, proc[p].addr, 0, proc[p].size, karenas[i].kaddr, karenas[i].owner)
      /\ karenas'[j].bootstrapped = TRUE
      /\ \A q \in Procs : q # p => held'[q] = held[q]
      /\ WithinNow(j, {i} \cup within[i])
  BY <1>1, <1>2, BootstrapFillsEffect
<1>4. /\ ~oops /\ ~oops' /\ proc[p].at = "bootstrap" /\ UNCHANGED <<regions, made, maps, blocks>>
  BY DEF BootstrapFillsSlot, At
<1>5. Handlers /\ RegionsKept /\ (\A q \in Procs : Nested(q)) /\ Handling(p)
  BY DEF Safe, Handlers
<1>6. /\ OneProc(p) /\ proc'[p].at = "idle" /\ proc'[p].slot = NoSlot
      /\ karenas'[j].uaddr = proc[p].addr /\ karenas'[j].owner = karenas[i].owner
      /\ \A l \in Slots : l # j => karenas'[l] = karenas[l]
  BY <1>3 DEF ProcNow, Holds, SlotNow, Has
<1>7. /\ i \in held[p] /\ InUsed(proc[p].addr, proc[p].addr + proc[p].size, i)
  BY <1>1, <1>4, <1>5 DEF Nested, BootstrapNests
<1>8. Live(i) /\ karenas[i].owner = p /\ \E v \in maps : v.proc = p
  BY <1>5, <1>7, HeldMapped
<1>9. karenas'[j].uaddr > 1 /\ karenas'[j].uaddr # 1
  <2>1. proc[p].addr >= karenas[i].uaddr /\ karenas[i].uaddr > 1
    BY <1>7, <1>8 DEF InUsed, Live
  <2>2. proc[p].addr \in Nat /\ karenas[i].uaddr \in Nat
    BY <1>3, StageFacts, TableFacts
  <2> QED
    BY <1>6, <2>1, <2>2
<1>10. \A q \in Procs : q # p => proc[q].slot # j
  BY <1>2, <1>3, <1>5, MySlot
<1>11. OnSlot(p, j)
  BY <1>2, <1>3, <1>6, <1>10 DEF OnSlot, SameShape
<1>12. Handling(p)'
  BY <1>6 DEF Handling
<1>13. ~Keeps(j)' /\ ~Live(j) /\ ~Keeps(j)
  <2>1. ~Live(j)
    BY <1>2, <1>4, <1>5 DEF Live, Handling
  <2>2. ~Keeps(j)
    BY <1>2, <1>4, <1>10, <2>1 DEF Keeps
  <2> QED
    BY <1>3, <2>1, <2>2 DEF Keeps
<1>14. \A l \in Slots : Keeps(l) => karenas[l].kaddr \in regions'
  BY <1>4, <1>5 DEF RegionsKept
<1>15. karenas'[j].owner = p /\ p # NoProc
  BY <1>6, <1>8, KaAssumption
<1>16. Handlers' /\ RegionsKept' /\ \A l \in Slots : l # j => (Keeps(l)' <=> Keeps(l))
  BY <1>3, <1>4, <1>5, <1>9, <1>11, <1>12, <1>13, <1>14, <1>15, SlotStep
<1>17. \A q \in Procs : Nested(q)'
  <2>1. Nested(p)'
    BY <1>5, BootstrapFillsNests
  <2>2. \A l \in Slots : Live(l) /\ karenas[l].owner # p => karenas'[l] = karenas[l] /\ within'[l] = within[l]
    BY <1>3, <1>6, <1>13 DEF WithinNow
  <2>3. (\A v \in maps : v.proc # p => v \in maps') /\ (\A b \in blocks' : b.proc # p => b \in blocks)
    BY <1>4
  <2>4. \A q \in Procs : q # p => Nested(q)'
    BY <1>3, <1>5, <1>6, <2>2, <2>3, OthersNest
  <2> QED
    BY <2>1, <2>4
<1>18. ASSUME NothingLost PROVE NothingLost'
  <2>1. \E v \in maps : v.proc = karenas'[j].owner
    BY <1>8, <1>15
  <2> QED
    BY <1>3, <1>4, <1>5, <1>6, <1>11, <1>13, <1>16, <1>18, <2>1, LostOnSlot
<1> QED
  BY <1>16, <1>17, <1>18 DEF StepKeeps, Safe

(* ka_destroy clears the slot: the memory is still to be freed by this     *)
(* process.                                                                *)
LEMMA DestroyClearsSafe ==
  ASSUME KaTypeOK, Safe, NEW p \in Procs, NEW i \in Slots, DestroyClears(p, i)
  PROVE  StepKeeps
<1>1. /\ KaTypeOK'
      /\ ProcNow(p, "destroy", proc[p].file, i, proc[p].size, proc[p].from, proc[p].addr)
      /\ SlotNow(i, 0, 0, 0, karenas[i].kaddr, NoProc)
      /\ karenas'[i].bootstrapped = karenas[i].bootstrapped
      /\ \A q \in Procs : q # p => held'[q] = held[q]
  BY DestroyClearsEffect
<1>2. i \in held[p] /\ proc[p].at = "idle" /\ proc[p].slot = NoSlot /\ ~oops
  BY MayFacts DEF DestroyClears
<1>3. ~oops' /\ UNCHANGED <<regions, made, maps, within>> /\ blocks' = KeptBlocks(p, i, 0)
  BY <1>2 DEF DestroyClears
<1>4. Handlers /\ RegionsKept /\ \A q \in Procs : Nested(q)
  BY DEF Safe
<1>5. Live(i) /\ karenas[i].owner = p /\ \E v \in maps : v.proc = p
  BY <1>2, <1>4, HeldMapped
<1>6. /\ OneProc(p) /\ proc'[p].at = "destroy" /\ proc'[p].slot = i
      /\ karenas'[i].uaddr = 0 /\ karenas'[i].owner = NoProc /\ karenas'[i].kaddr = karenas[i].kaddr
      /\ \A l \in Slots : l # i => karenas'[l] = karenas[l]
  BY <1>1 DEF ProcNow, Holds, SlotNow, Has
<1>7. \A q \in Procs : proc[q].slot # i
  BY <1>4, <1>5, LiveNotBusy
<1>8. OnSlot(p, i)
  BY <1>2, <1>6, <1>7 DEF OnSlot, SameShape
<1>9. Handling(p)'
  BY <1>6 DEF Handling
<1>10. ~Live(i)' /\ (Keeps(i)' <=> Keeps(i))
  <2>1. ~Live(i)'
    BY <1>6 DEF Live
  <2> QED
    BY <1>1, <1>5, <1>6, <2>1 DEF Keeps
<1>11. \A l \in Slots : Keeps(l) => karenas[l].kaddr \in regions'
  BY <1>3, <1>4 DEF RegionsKept
<1>12. Handlers' /\ RegionsKept' /\ \A l \in Slots : l # i => (Keeps(l)' <=> Keeps(l))
  BY <1>2, <1>3, <1>4, <1>6, <1>8, <1>9, <1>10, <1>11, SlotStep
<1>13. \A q \in Procs : Nested(q)'
  <2>1. Nested(p)'
    BY <1>4, DestroyNests
  <2>2. \A l \in Slots : Live(l) /\ karenas[l].owner # p => karenas'[l] = karenas[l] /\ within'[l] = within[l]
    BY <1>3, <1>5, <1>6
  <2>3. (\A v \in maps : v.proc # p => v \in maps') /\ (\A b \in blocks' : b.proc # p => b \in blocks)
    BY <1>3 DEF KeptBlocks
  <2>4. \A q \in Procs : q # p => Nested(q)'
    BY <1>1, <1>4, <1>6, <2>2, <2>3, OthersNest
  <2> QED
    BY <2>1, <2>4
<1>14. ASSUME NothingLost PROVE NothingLost'
  <2>1. regions' \subseteq regions
    BY <1>3
  <2> QED
    BY <1>1, <1>2, <1>3, <1>4, <1>6, <1>8, <1>10, <1>12, <1>14, <2>1, LostOnSlot
<1> QED
  BY <1>12, <1>13, <1>14 DEF StepKeeps, Safe

(* ka_destroy frees the memory, which no other slot has.                   *)
LEMMA DestroyFreesSafe ==
  ASSUME KaTypeOK, Safe, NEW p \in Procs, DestroyFrees(p)
  PROVE  StepKeeps
<1>1. PICK i : i = proc[p].slot
  OBVIOUS
<1>2. /\ KaTypeOK' /\ i \in Slots
      /\ ProcNow(p, "idle", proc[p].file, NoSlot, 0, NoSlot, 0)
      /\ SlotNow(i, karenas[i].uaddr, karenas[i].cur, karenas[i].size, karenas[i].kaddr, karenas[i].owner)
      /\ karenas'[i].bootstrapped = FALSE
  BY <1>1, DestroyFreesEffect
<1>3. /\ ~oops /\ proc[p].at = "destroy" /\ UNCHANGED <<made, maps, held, within, blocks>>
      /\ IF karenas[i].bootstrapped THEN UNCHANGED <<regions, oops>> ELSE Vfree(karenas[i].kaddr)
  BY <1>1 DEF DestroyFrees, At
<1>4. Handlers /\ RegionsKept /\ (\A q \in Procs : Nested(q)) /\ Handling(p)
  BY DEF Safe, Handlers
<1>5. /\ OneProc(p) /\ proc'[p].at = "idle" /\ proc'[p].slot = NoSlot
      /\ karenas'[i].uaddr = karenas[i].uaddr /\ \A l \in Slots : l # i => karenas'[l] = karenas[l]
  BY <1>2 DEF ProcNow, Holds, SlotNow, Has
<1>6. \A q \in Procs : q # p => proc[q].slot # i
  BY <1>1, <1>2, <1>4, MySlot
<1>7. OnSlot(p, i)
  BY <1>1, <1>2, <1>5, <1>6 DEF OnSlot, SameShape
<1>8. karenas[i].uaddr = 0 /\ ~Live(i) /\ ~Live(i)'
  BY <1>1, <1>3, <1>4, <1>5 DEF Handling, Live
<1>9. ~Keeps(i)' /\ (~karenas[i].bootstrapped => Keeps(i))
  <2>1. ~Keeps(i)'
    BY <1>2, <1>5, <1>6, <1>8, NoSlotNot DEF Keeps, OneProc
  <2> QED
    BY <1>1, <1>3, <2>1 DEF Keeps
<1>10. /\ ~oops' /\ regions' \subseteq regions /\ (Keeps(i) => karenas[i].kaddr \notin regions')
       /\ \A l \in Slots : l # i /\ Keeps(l) => karenas[l].kaddr \in regions'
  <2>1. CASE karenas[i].bootstrapped
    <3>1. UNCHANGED <<regions, oops>> /\ ~Keeps(i)
      BY <1>3, <2>1 DEF Keeps
    <3> QED
      BY <1>3, <1>4, <3>1 DEF RegionsKept
  <2>2. CASE ~karenas[i].bootstrapped
    <3>1. karenas[i].kaddr \in regions /\ \A l \in Slots : l # i /\ Keeps(l) =>
            karenas[l].kaddr \in regions /\ karenas[l].kaddr # karenas[i].kaddr
      BY <1>2, <1>4, <1>9, <2>2 DEF RegionsKept
    <3>2. Vfree(karenas[i].kaddr)
      BY <1>3, <2>2
    <3>3. ~oops' /\ regions' = regions \ {karenas[i].kaddr}
      BY <1>3, <3>1, <3>2 DEF Vfree
    <3> QED
      BY <3>1, <3>3
  <2> QED
    BY <2>1, <2>2
<1>11. Handling(p)'
  BY <1>5 DEF Handling
<1>12. Handlers' /\ RegionsKept' /\ \A l \in Slots : l # i => (Keeps(l)' <=> Keeps(l))
  BY <1>2, <1>3, <1>4, <1>5, <1>7, <1>8, <1>9, <1>10, <1>11, SlotStep
<1>13. \A q \in Procs : Nested(q)'
  <2>1. \A l \in Slots : Live(l) => karenas'[l] = karenas[l]
    BY <1>5, <1>8
  <2>2. proc'[p].at # "bootstrap"
    BY <1>5
  <2> QED
    BY <1>2, <1>3, <1>4, <1>5, <2>1, <2>2, QuietNests
<1>14. ASSUME NothingLost PROVE NothingLost'
  BY <1>2, <1>3, <1>4, <1>5, <1>7, <1>8, <1>10, <1>12, <1>14, LostOnSlot
<1> QED
  BY <1>12, <1>13, <1>14 DEF StepKeeps, Safe

(* What is left to a process in dev_release is what the loop has yet to    *)
(* come to.                                                                *)
LEMMA LeftOver ==
  ASSUME KaTypeOK, NothingLost, NEW p \in Procs, proc[p].at = "release",
         NEW j \in Slots, Live(j), karenas[j].owner = p
  PROVE  proc[p].from <= j /\ ~karenas[j].bootstrapped
<1>1. \A v \in maps : v.proc # p
  BY StageFacts DEF Stage
<1> QED
  BY <1>1 DEF NothingLost

(* dev_release clears a slot of its process, or goes on.                   *)
LEMMA ReleaseClearsSafe ==
  ASSUME KaTypeOK, Safe, NEW p \in Procs, ReleaseClears(p), "raced" \notin causes'
  PROVE  StepKeeps
<1>1. PICK i : i = proc[p].from
  OBVIOUS
<1>2. /\ KaTypeOK' /\ i \in 0 .. SlotCount
      /\ \/ /\ i = SlotCount /\ UNCHANGED <<karenas, causes>>
            /\ ProcNow(p, "idle", proc[p].file, NoSlot, proc[p].size, NoSlot, proc[p].addr)
         \/ /\ i \in Slots /\ ~Owned(p, i) /\ UNCHANGED <<karenas, causes>>
            /\ ProcNow(p, "release", proc[p].file, NoSlot, proc[p].size, i + 1, proc[p].addr)
         \/ /\ (i \in Busy(p) => "raced" \in causes')
            /\ causes \subseteq causes' /\ causes' \subseteq causes \cup {"raced"}
            /\ i \in Slots /\ Owned(p, i)
            /\ ProcNow(p, "release", proc[p].file, i, proc[p].size, i, proc[p].addr)
            /\ SlotNow(i, 0, 0, 0, karenas[i].kaddr, NoProc)
            /\ karenas'[i].bootstrapped = karenas[i].bootstrapped
  BY <1>1, ReleaseClearsEffect
<1>3. /\ proc[p].at = "release" /\ proc[p].slot = NoSlot /\ ~oops /\ ~oops'
      /\ UNCHANGED <<regions, made, maps, held, within, blocks>>
  BY DEF ReleaseClears, At
<1>4. Handlers /\ RegionsKept /\ \A q \in Procs : Nested(q)
  BY DEF Safe
<1>5. ASSUME UNCHANGED karenas, OneProc(p), proc'[p].slot = NoSlot,
             \/ i = SlotCount /\ proc'[p].at = "idle"
             \/ i \in Slots /\ ~Owned(p, i) /\ proc'[p].at = "release" /\ proc'[p].from = i + 1
      PROVE  StepKeeps
  <2>1. Handling(p)'
    BY <1>5 DEF Handling
  <2>2. Handlers' /\ RegionsKept' /\ \A j \in Slots : Keeps(j)' <=> Keeps(j)
    BY <1>3, <1>4, <1>5, <2>1, IdleStep
  <2>3. proc'[p].at # "bootstrap"
    BY <1>5
  <2>4. \A q \in Procs : Nested(q)'
    BY <1>2, <1>3, <1>4, <1>5, <2>3, QuietNests
  <2>5. ASSUME NothingLost PROVE NothingLost'
    <3>1. \A r \in regions' : \E j \in Slots : Keeps(j)' /\ karenas'[j].kaddr = r
      BY <1>3, <1>5, <2>2, <2>5 DEF NothingLost
    <3>2. ASSUME NEW j \in Slots, Live(j)', karenas[j].owner = p
          PROVE  karenas'[j].owner = p /\ proc'[p].at = "release" /\ proc'[p].from <= j /\ ~karenas'[j].bootstrapped
      <4>1. Live(j) /\ karenas[j].uaddr # 0
        BY <1>5, <3>2 DEF Live
      <4>2. i <= j /\ ~karenas[j].bootstrapped
        BY <1>1, <1>3, <2>5, <3>2, <4>1, LeftOver
      <4>3. j \in 0 .. SlotCount - 1 /\ SlotCount \in Nat
        BY NoSlotNot
      <4>4. i # SlotCount
        BY <4>2, <4>3
      <4>5. j # i
        BY <1>5, <3>2, <4>1, <4>4 DEF Owned
      <4>6. i + 1 <= j
        BY <1>2, <4>2, <4>3, <4>5
      <4> QED
        BY <1>5, <3>2, <4>2, <4>4, <4>6
    <3>3. \A j \in Slots : Live(j)' => Live(j)
      BY <1>5 DEF Live
    <3> QED
      BY <1>2, <1>3, <1>4, <1>5, <2>5, <3>1, <3>2, <3>3, LostStep
  <2> QED
    BY <2>2, <2>4, <2>5 DEF StepKeeps, Safe
<1>6. CASE /\ i = SlotCount /\ UNCHANGED <<karenas, causes>>
           /\ ProcNow(p, "idle", proc[p].file, NoSlot, proc[p].size, NoSlot, proc[p].addr)
  <2>1. OneProc(p) /\ proc'[p].slot = NoSlot /\ proc'[p].at = "idle"
    BY <1>6 DEF ProcNow, Holds
  <2> QED
    BY <1>5, <1>6, <2>1
<1>7. CASE /\ i \in Slots /\ ~Owned(p, i) /\ UNCHANGED <<karenas, causes>>
           /\ ProcNow(p, "release", proc[p].file, NoSlot, proc[p].size, i + 1, proc[p].addr)
  <2>1. OneProc(p) /\ proc'[p].slot = NoSlot /\ proc'[p].at = "release" /\ proc'[p].from = i + 1
    BY <1>7 DEF ProcNow, Holds
  <2> QED
    BY <1>5, <1>7, <2>1
<1>8. CASE /\ (i \in Busy(p) => "raced" \in causes')
           /\ causes \subseteq causes' /\ causes' \subseteq causes \cup {"raced"}
           /\ i \in Slots /\ Owned(p, i)
           /\ ProcNow(p, "release", proc[p].file, i, proc[p].size, i, proc[p].addr)
           /\ SlotNow(i, 0, 0, 0, karenas[i].kaddr, NoProc)
           /\ karenas'[i].bootstrapped = karenas[i].bootstrapped
  <2>1. i \in Slots /\ karenas[i].uaddr # 0 /\ karenas[i].owner = p /\ i \notin Busy(p)
    BY <1>8 DEF Owned
  <2>2. \A q \in Procs : q # p => proc[q].slot # i
    BY <2>1, NotBusy
  <2>3. Live(i)
    <3>1. karenas[i].uaddr # 1
      BY <1>3, <1>4, <2>1, <2>2 DEF Handlers
    <3>2. karenas[i].uaddr \in Nat
      BY <2>1, TableFacts
    <3> QED
      BY <2>1, <3>1, <3>2 DEF Live
  <2>4. /\ OneProc(p) /\ proc'[p].at = "release" /\ proc'[p].slot = i /\ proc'[p].from = i
        /\ karenas'[i].uaddr = 0 /\ karenas'[i].owner = NoProc /\ karenas'[i].kaddr = karenas[i].kaddr
        /\ \A l \in Slots : l # i => karenas'[l] = karenas[l]
    BY <1>8 DEF ProcNow, Holds, SlotNow, Has
  <2>5. OnSlot(p, i)
    BY <1>3, <2>1, <2>2, <2>4 DEF OnSlot, SameShape
  <2>6. Handling(p)'
    BY <2>4 DEF Handling
  <2>7. ~Live(i)' /\ (Keeps(i)' <=> Keeps(i))
    <3>1. ~Live(i)'
      BY <2>4 DEF Live
    <3> QED
      BY <1>8, <2>3, <2>4, <3>1 DEF Keeps
  <2>8. \A l \in Slots : Keeps(l) => karenas[l].kaddr \in regions'
    BY <1>3, <1>4 DEF RegionsKept
  <2>9. Handlers' /\ RegionsKept' /\ \A l \in Slots : l # i => (Keeps(l)' <=> Keeps(l))
    BY <1>3, <1>4, <2>1, <2>4, <2>5, <2>6, <2>7, <2>8, SlotStep
  <2>10. \A q \in Procs : Nested(q)'
    <3>1. \A l \in Slots : Live(l) /\ (karenas[l].owner # p \/ proc[p].at # "release") => karenas'[l] = karenas[l]
      BY <1>3, <2>1, <2>4
    <3>2. proc'[p].at # "bootstrap"
      BY <2>4
    <3> QED
      BY <1>2, <1>3, <1>4, <2>4, <3>1, <3>2, QuietNests
  <2>11. ASSUME NothingLost PROVE NothingLost'
    <3>1. \A l \in Slots : Keeps(l) => Keeps(l)' /\ karenas'[l].kaddr = karenas[l].kaddr
      BY <2>4, <2>7, <2>9
    <3>2. \A r \in regions' : \E j \in Slots : Keeps(j)' /\ karenas'[j].kaddr = r
      BY <1>3, <2>11, <3>1 DEF NothingLost
    <3>3. ASSUME NEW j \in Slots, Live(j)'
          PROVE  \/ Live(j) /\ karenas[j].owner # p /\ karenas'[j].owner = karenas[j].owner
                    /\ karenas'[j].bootstrapped = karenas[j].bootstrapped
                 \/ karenas'[j].owner = p /\ proc'[p].at = "release" /\ proc'[p].from <= j /\ ~karenas'[j].bootstrapped
      <4>1. j # i /\ karenas'[j] = karenas[j]
        BY <2>4, <2>7, <3>3
      <4>2. Live(j)
        BY <3>3, <4>1 DEF Live
      <4>3. CASE karenas[j].owner = p
        BY <1>1, <1>3, <2>4, <2>11, <4>1, <4>2, <4>3, LeftOver
      <4>4. CASE karenas[j].owner # p
        BY <4>1, <4>2, <4>4
      <4> QED
        BY <4>3, <4>4
    <3>4. ~karenas'[i].bootstrapped
      BY <1>3, <1>8, <2>1, <2>3, <2>11, LeftOver
    <3>5. \A q \in Procs : q # p /\ proc[q].slot \in Slots =>
             karenas'[proc[q].slot].bootstrapped = karenas[proc[q].slot].bootstrapped
      BY <2>2, <2>4
    <3>6. \A v \in maps : v.proc # p => v \in maps'
      BY <1>3
    <3> QED
      BY <1>2, <1>4, <2>4, <2>11, <3>2, <3>3, <3>4, <3>5, <3>6, LostStep
  <2> QED
    BY <2>9, <2>10, <2>11 DEF StepKeeps, Safe
<1> QED
  BY <1>2, <1>6, <1>7, <1>8

(* dev_release frees the memory of the slot; without another cause no      *)
(* arena it meets is bootstrapped.                                         *)
LEMMA ReleaseFreesSafe ==
  ASSUME KaTypeOK, Safe, NEW p \in Procs, ReleaseFrees(p)
  PROVE  StepKeeps
<1>1. PICK i : i = proc[p].slot
  OBVIOUS
<1>2. /\ KaTypeOK' /\ i \in Slots /\ i = proc[p].from
      /\ \/ /\ karenas[i].bootstrapped /\ UNCHANGED <<regions, oops>>
            /\ ProcNow(p, "idle", proc[p].file, NoSlot, 0, NoSlot, 0)
            /\ SlotNow(i, karenas[i].uaddr, karenas[i].cur, karenas[i].size,
                       karenas[i].kaddr, karenas[i].owner)
            /\ karenas'[i].bootstrapped = FALSE
         \/ /\ ~karenas[i].bootstrapped /\ Vfree(karenas[i].kaddr)
            /\ ProcNow(p, "release", proc[p].file, NoSlot, proc[p].size, i + 1, proc[p].addr)
            /\ SlotNow(i, karenas[i].uaddr, karenas[i].cur, karenas[i].size, 0, karenas[i].owner)
            /\ karenas'[i].bootstrapped = FALSE
  BY <1>1, ReleaseFreesEffect
<1>3. /\ ~oops /\ proc[p].at = "release" /\ proc[p].slot = i /\ proc[p].slot # NoSlot
      /\ UNCHANGED <<made, maps, held, within, blocks>>
  BY <1>1 DEF ReleaseFrees, At
<1>4. Handlers /\ RegionsKept /\ (\A q \in Procs : Nested(q)) /\ Handling(p)
  BY DEF Safe, Handlers
<1>5. \A q \in Procs : q # p => proc[q].slot # i
  BY <1>1, <1>2, <1>4, MySlot
<1>6. karenas[i].uaddr = 0 /\ ~Live(i)
  BY <1>3, <1>4 DEF Handling, Live
<1>7. /\ OneProc(p) /\ proc'[p].slot = NoSlot
      /\ karenas'[i].uaddr = karenas[i].uaddr /\ \A l \in Slots : l # i => karenas'[l] = karenas[l]
      /\ \/ karenas[i].bootstrapped /\ proc'[p].at = "idle"
         \/ ~karenas[i].bootstrapped /\ proc'[p].at = "release" /\ proc'[p].from = i + 1
  <2>1. CASE karenas[i].bootstrapped
    BY <1>2, <2>1 DEF ProcNow, Holds, SlotNow, Has
  <2>2. CASE ~karenas[i].bootstrapped
    BY <1>2, <2>2 DEF ProcNow, Holds, SlotNow, Has
  <2> QED
    BY <2>1, <2>2
<1>8. OnSlot(p, i)
  BY <1>2, <1>3, <1>5, <1>7 DEF OnSlot, SameShape
<1>9. ~Live(i)' /\ ~Keeps(i)' /\ (~karenas[i].bootstrapped => Keeps(i))
  <2>1. ~Live(i)'
    BY <1>6, <1>7 DEF Live
  <2>2. ~Keeps(i)'
    BY <1>2, <1>5, <1>7, <2>1, NoSlotNot DEF Keeps, OneProc
  <2> QED
    BY <1>3, <2>1, <2>2 DEF Keeps
<1>10. /\ ~oops' /\ regions' \subseteq regions /\ (Keeps(i) => karenas[i].kaddr \notin regions')
       /\ \A l \in Slots : l # i /\ Keeps(l) => karenas[l].kaddr \in regions'
  <2>1. CASE karenas[i].bootstrapped
    <3>1. UNCHANGED <<regions, oops>> /\ ~Keeps(i)
      BY <1>2, <2>1 DEF Keeps
    <3> QED
      BY <1>3, <1>4, <3>1 DEF RegionsKept
  <2>2. CASE ~karenas[i].bootstrapped
    <3>1. karenas[i].kaddr \in regions /\ \A l \in Slots : l # i /\ Keeps(l) =>
            karenas[l].kaddr \in regions /\ karenas[l].kaddr # karenas[i].kaddr
      BY <1>2, <1>4, <1>9, <2>2 DEF RegionsKept
    <3>2. Vfree(karenas[i].kaddr)
      BY <1>2, <2>2
    <3>3. ~oops' /\ regions' = regions \ {karenas[i].kaddr}
      BY <1>3, <3>1, <3>2 DEF Vfree
    <3> QED
      BY <3>1, <3>3
  <2> QED
    BY <2>1, <2>2
<1>11. Handling(p)'
  BY <1>7 DEF Handling
<1>12. Handlers' /\ RegionsKept' /\ \A l \in Slots : l # i => (Keeps(l)' <=> Keeps(l))
  <2>1. karenas'[i].uaddr # 1 /\ ~oops'
    BY <1>6, <1>7, <1>10
  <2>2. \A l \in Slots : l # i /\ Keeps(l) => karenas[l].kaddr \in regions'
    BY <1>10
  <2> QED
    BY <1>2, <1>3, <1>4, <1>8, <1>9, <1>11, <2>1, <2>2, SlotStep
<1>13. \A q \in Procs : Nested(q)'
  <2>1. \A l \in Slots : Live(l) => karenas'[l] = karenas[l]
    BY <1>6, <1>7
  <2>2. proc'[p].at # "bootstrap"
    BY <1>7
  <2> QED
    BY <1>2, <1>3, <1>4, <1>7, <2>1, <2>2, QuietNests
<1>14. ASSUME NothingLost PROVE NothingLost'
  <2>1. ~karenas[i].bootstrapped /\ proc'[p].at = "release" /\ proc'[p].from = i + 1
    <3>1. ~karenas[i].bootstrapped
      BY <1>3, <1>14 DEF NothingLost
    <3> QED
      BY <1>7, <3>1
  <2>2. \A j \in Slots : Keeps(j) /\ karenas[j].kaddr \in regions' =>
          Keeps(j)' /\ karenas'[j].kaddr = karenas[j].kaddr
    BY <1>7, <1>10, <1>12
  <2>3. \A r \in regions' : \E j \in Slots : Keeps(j)' /\ karenas'[j].kaddr = r
    BY <1>10, <1>14, <2>2, RegionsFound
  <2>4. ASSUME NEW j \in Slots, Live(j)'
        PROVE  \/ Live(j) /\ karenas[j].owner # p /\ karenas'[j].owner = karenas[j].owner
                  /\ karenas'[j].bootstrapped = karenas[j].bootstrapped
               \/ karenas'[j].owner = p /\ proc'[p].at = "release" /\ proc'[p].from <= j /\ ~karenas'[j].bootstrapped
    <3>1. j # i /\ karenas'[j] = karenas[j]
      BY <1>7, <1>9, <2>4
    <3>2. Live(j)
      BY <2>4, <3>1 DEF Live
    <3>3. CASE karenas[j].owner = p
      <4>1. i <= j /\ ~karenas[j].bootstrapped
        BY <1>2, <1>3, <1>14, <3>2, <3>3, LeftOver
      <4>2. i \in Int /\ j \in Int
        BY <1>2, NoSlotNot
      <4>3. i + 1 <= j
        BY <3>1, <4>1, <4>2
      <4> QED
        BY <2>1, <3>1, <3>3, <4>1, <4>3
    <3>4. CASE karenas[j].owner # p
      BY <3>1, <3>2, <3>4
    <3> QED
      BY <3>3, <3>4
  <2>5. \A q \in Procs : q # p /\ proc[q].slot \in Slots =>
           karenas'[proc[q].slot].bootstrapped = karenas[proc[q].slot].bootstrapped
    BY <1>5, <1>7
  <2>6. \A v \in maps : v.proc # p => v \in maps'
    BY <1>3
  <2> QED
    BY <1>2, <1>4, <1>7, <1>14, <2>3, <2>4, <2>5, <2>6, LostStep
<1> QED
  BY <1>12, <1>13, <1>14 DEF StepKeeps, Safe

(* A process ends: its arenas are left to dev_release.                     *)
LEMMA ProcessExitsSafe ==
  ASSUME KaTypeOK, Safe, NEW p \in Procs, ProcessExits(p)
  PROVE  StepKeeps
<1>1. /\ KaTypeOK'
      /\ \/ ProcNow(p, "release", "closed", NoSlot, 0, 0, 0)
         \/ /\ ProcNow(p, "idle", "closed", NoSlot, 0, NoSlot, 0) /\ proc[p].file # "open"
            /\ \A v \in maps : v.proc # p
      /\ held'[p] = {} /\ \A q \in Procs : q # p => held'[q] = held[q]
  BY ProcessExitsEffect
<1>2. /\ ~oops /\ ~oops' /\ proc[p].at \in {"idle", "mmap"}
      /\ UNCHANGED <<karenas, regions, made, within>>
      /\ maps' = {v \in maps : v.proc # p} /\ blocks' = {b \in blocks : b.proc # p}
  BY DEF ProcessExits
<1>3. Handlers /\ RegionsKept /\ \A q \in Procs : Nested(q)
  BY DEF Safe
<1>4. /\ OneProc(p) /\ proc'[p].slot = NoSlot
      /\ \/ proc'[p].at = "release" /\ proc'[p].from = 0
         \/ proc'[p].at = "idle" /\ \A v \in maps : v.proc # p
  <2>1. CASE ProcNow(p, "release", "closed", NoSlot, 0, 0, 0)
    BY <2>1 DEF ProcNow, Holds
  <2>2. CASE ProcNow(p, "idle", "closed", NoSlot, 0, NoSlot, 0) /\ \A v \in maps : v.proc # p
    BY <2>2 DEF ProcNow, Holds
  <2> QED
    BY <1>1, <2>1, <2>2
<1>5. Handling(p)'
  BY <1>4 DEF Handling
<1>6. Handlers'
  <2>1. \A j \in Slots : karenas'[j].uaddr = 1 =>
           karenas[j].uaddr = 1 /\ ~(proc[p].at \in {"create", "bootstrap"} /\ proc[p].slot = j)
    BY <1>2
  <2> QED
    BY <1>2, <1>3, <1>4, <1>5, <2>1, HandlersStep
<1>7. \A j \in Slots : Keeps(j)' => Keeps(j)
  BY <1>2, <1>4, NoSlotNot DEF Keeps, Live, OneProc
<1>8. RegionsKept'
  <2>1. \A j \in Slots : Keeps(j) => karenas[j].kaddr \in regions'
    BY <1>2, <1>3 DEF RegionsKept
  <2>2. \A j \in Slots : Live(j)' => karenas'[j].owner # NoProc
    BY <1>2, <1>3 DEF RegionsKept, Live
  <2> QED
    BY <1>2, <1>3, <1>7, <2>1, <2>2, RegionsSame
<1>9. \A q \in Procs : Nested(q)'
  <2>1. Nested(p)'
    BY <1>1, <1>2, <1>4, NothingNests
  <2>2. \A j \in Slots : karenas'[j] = karenas[j] /\ within'[j] = within[j]
    BY <1>2
  <2>3. (\A v \in maps : v.proc # p => v \in maps') /\ (\A b \in blocks' : b.proc # p => b \in blocks)
    BY <1>2
  <2>4. \A q \in Procs : q # p => Nested(q)'
    BY <1>1, <1>3, <1>4, <2>2, <2>3, OthersNest
  <2> QED
    BY <2>1, <2>4
<1>10. ASSUME NothingLost, causes' = {} PROVE NothingLost'
  <2>1. /\ proc[p].at # "mmap"
        /\ \A j \in Slots : karenas[j].owner = p => ~karenas[j].bootstrapped
    BY <1>10 DEF ProcessExits
  <2>2. proc[p].slot = NoSlot /\ proc[p].at = "idle"
    BY <1>2, <2>1, StageFacts DEF Stage
  <2>3. \A j \in Slots : Keeps(j) => Keeps(j)'
    BY <1>2, <1>4, <2>2, NoSlotNot, KeepsSame
  <2>4. \A r \in regions' : \E j \in Slots : Keeps(j)' /\ karenas'[j].kaddr = r
    BY <1>2, <1>10, <2>3 DEF NothingLost
  <2>5. ASSUME NEW j \in Slots, Live(j)'
        PROVE  \/ Live(j) /\ karenas[j].owner # p /\ karenas'[j].owner = karenas[j].owner
                  /\ karenas'[j].bootstrapped = karenas[j].bootstrapped
               \/ karenas'[j].owner = p /\ proc'[p].at = "release" /\ proc'[p].from <= j /\ ~karenas'[j].bootstrapped
    <3>1. Live(j)
      BY <1>2, <2>5 DEF Live
    <3>2. CASE karenas[j].owner = p
      <4>1. \E v \in maps : v.proc = p
        BY <2>2, <1>10, <3>1, <3>2 DEF NothingLost
      <4>2. proc'[p].at = "release" /\ proc'[p].from = 0
        BY <1>4, <4>1
      <4>3. 0 <= j
        BY NoSlotNot
      <4> QED
        BY <1>2, <2>1, <3>2, <4>2, <4>3
    <3>3. CASE karenas[j].owner # p
      BY <1>2, <3>1, <3>3
    <3> QED
      BY <3>2, <3>3
  <2>6. \A v \in maps : v.proc # p => v \in maps'
    BY <1>2
  <2> QED
    BY <1>1, <1>2, <1>3, <1>4, <1>10, <2>4, <2>5, <2>6, LostStep
<1> QED
  BY <1>6, <1>8, <1>9, <1>10 DEF StepKeeps, Safe

(* Nothing but the registration changes.                                   *)
LEMMA StutterSafe ==
  ASSUME KaTypeOK, Safe, UNCHANGED kaVars
  PROVE  StepKeeps
<1>1. UNCHANGED <<karenas, regions, made, maps, proc, held, within, blocks, oops>>
  BY DEF kaVars
<1>2. Handlers'
  BY <1>1 DEF Safe, Handlers, Handling
<1>3. RegionsKept' /\ (NothingLost => NothingLost')
  BY <1>1 DEF Safe, RegionsKept, NothingLost, Keeps, Live
<1>4. ASSUME NEW q \in Procs PROVE Nested(q)'
  <2>1. Nested(q)
    BY DEF Safe
  <2>2. Untouched(q)
    BY <1>1, <2>1 DEF Untouched, Nested
  <2> QED
    BY <2>1, <2>2, UntouchedNests
<1> QED
  BY <1>2, <1>3, <1>4 DEF StepKeeps, Safe

(* The module is unloaded only when no memory is left in the table.        *)
LEMMA UnloadsSafe ==
  ASSUME KaTypeOK, Safe, ModuleUnloads
  PROVE  StepKeeps
<1>1. /\ KaTypeOK'
      /\ \A i \in Slots : Has(karenas'[i], 0, 0, 0, 0, NoProc) /\ karenas'[i].bootstrapped = FALSE
  BY UnloadsEffect
<1>2. /\ maps = {} /\ \A p \in Procs : proc[p].at = "idle"
      /\ UNCHANGED <<regions, made, maps, proc, held, within, blocks, oops>>
  BY DEF ModuleUnloads
<1>3. Handlers /\ RegionsKept /\ \A q \in Procs : Nested(q)
  BY DEF Safe
<1>4. \A p \in Procs : proc'[p].at = "idle" /\ proc'[p].slot = NoSlot
  BY <1>2, StageFacts DEF Stage
<1>5. \A i \in Slots : karenas'[i].uaddr = 0 /\ ~Live(i)' /\ ~Keeps(i)'
  BY <1>1, <1>4 DEF Has, Live, Keeps
<1>6. ~oops'
  BY <1>2, <1>3 DEF Handlers
<1>7. Handlers'
  BY <1>4, <1>5, <1>6 DEF Handlers, Handling
<1>8. RegionsKept'
  BY <1>5 DEF RegionsKept
<1>9. ASSUME NEW q \in Procs PROVE Nested(q)'
  <2>1. held[q] = {} /\ \A b \in blocks : b.proc # q
    BY <1>2, <1>3, NoMapsEmpty
  <2> QED
    BY <1>2, <1>4, <2>1, NothingNests
<1>10. ASSUME NothingLost PROVE NothingLost'
  <2>1. \A i \in Slots : ~Live(i)
    BY <1>2, <1>10 DEF NothingLost
  <2>2. \A i \in Slots : ~Keeps(i)
    BY <1>2, <2>1 DEF Keeps
  <2>3. regions' = {}
    BY <1>2, <1>10, <2>2 DEF NothingLost
  <2> QED
    BY <1>4, <1>5, <2>3 DEF NothingLost
<1> QED
  BY <1>7, <1>8, <1>9, <1>10 DEF StepKeeps, Safe

(* What every step of the module and the processes does.                   *)
StepGood ==
  /\ KaTypeOK' /\ causes \subseteq causes'
  /\ Safe /\ "raced" \notin causes' => StepKeeps

(* The calls on an arena.                                                  *)
LEMMA CallsGood ==
  ASSUME KaTypeOK, NEW p \in Procs, NEW i \in Slots, NEW size \in Sizes,
         \/ ka_alloc(p, i, size) \/ ka_reserve(p, i, size)
         \/ ka_seek(p, i, size) \/ ka_pop(p, i, size)
  PROVE  StepGood \/ UNCHANGED vars
<1>1. PICK pos : pos = karenas[i].cur - size
  OBVIOUS
<1>2. Takes(p, i, size) \/ MovesBack(p, i, size) \/ MovesBack(p, i, pos) \/ UNCHANGED vars
  BY <1>1, CallsAre
<1>3. PICK c : c = karenas[i].cur + size
  OBVIOUS
<1>4. ASSUME Takes(p, i, size) PROVE StepGood
  <2>1. KaTypeOK'
    BY <1>3, <1>4, TakesEffect
  <2>2. causes \subseteq causes'
    BY <1>4 DEF Takes
  <2> QED
    BY <1>4, <2>1, <2>2, TakesSafe DEF StepGood
<1>5. ASSUME NEW n, MovesBack(p, i, n) PROVE StepGood
  <2>1. KaTypeOK'
    BY <1>5, MovesBackEffect
  <2>2. causes \subseteq causes'
    BY <1>5 DEF MovesBack
  <2> QED
    BY <1>5, <2>1, <2>2, MovesBackSafe DEF StepGood
<1> QED
  BY <1>2, <1>4, <1>5

(* The steps of ka_create.                                                 *)
LEMMA CreateGood ==
  ASSUME KaTypeOK, NEW p \in Procs,
         \/ dev_open(p) \/ CreateFillsSlot(p) \/ CreateAllocates(p) \/ CreateOutOfMemory(p)
         \/ karena_mmap(p) \/ CreateFails(p) \/ \E size \in Sizes : CreateFindsSlot(p, size)
  PROVE  StepGood
<1>1. CASE dev_open(p)
  <2>1. KaTypeOK' /\ causes \subseteq causes'
    BY <1>1, DevOpenEffect DEF dev_open
  <2> QED
    BY <1>1, <2>1, DevOpenSafe DEF StepGood
<1>2. CASE CreateFillsSlot(p)
  <2>1. PICK i, z : i = proc[p].slot /\ z = PAGE_ALIGN(proc[p].size)
    OBVIOUS
  <2>2. KaTypeOK' /\ causes \subseteq causes'
    BY <1>2, <2>1, CreateFillsEffect DEF CreateFillsSlot
  <2> QED
    BY <1>2, <2>2, CreateFillsSafe DEF StepGood
<1>3. CASE CreateAllocates(p)
  <2>1. PICK i, n : i = proc[p].slot /\ n = Len(made) + 1
    OBVIOUS
  <2>2. KaTypeOK' /\ causes \subseteq causes'
    BY <1>3, <2>1, CreateAllocatesEffect DEF CreateAllocates
  <2> QED
    BY <1>3, <2>2, CreateAllocatesSafe DEF StepGood
<1>4. CASE CreateOutOfMemory(p)
  <2>1. KaTypeOK' /\ causes \subseteq causes'
    BY <1>4, OutOfMemoryEffect DEF CreateOutOfMemory
  <2> QED
    BY <1>4, <2>1, OutOfMemorySafe DEF StepGood
<1>5. CASE karena_mmap(p)
  <2>1. PICK i : i = proc[p].slot
    OBVIOUS
  <2>2. KaTypeOK'
    BY <1>5, <2>1, MmapEffect
  <2>3. causes \subseteq causes'
    BY <1>5 DEF karena_mmap, Raced
  <2> QED
    BY <1>5, <2>2, <2>3, MmapSafe DEF StepGood
<1>6. CASE CreateFails(p)
  BY <1>6, CreateFailsEffect, CreateFailsSafe DEF StepGood
<1>7. ASSUME NEW size \in Sizes, CreateFindsSlot(p, size) PROVE StepGood
  <2>1. KaTypeOK'
    BY <1>7, CreateFindsEffect
  <2>2. causes \subseteq causes'
    BY <1>7 DEF CreateFindsSlot, Raced
  <2> QED
    BY <1>7, <2>1, <2>2, CreateFindsSafe DEF StepGood
<1> QED
  BY <1>1, <1>2, <1>3, <1>4, <1>5, <1>6, <1>7

(* The steps of ka_bootstrap, of ka_destroy and of the end of a process.   *)
LEMMA OthersGood ==
  ASSUME KaTypeOK, NEW p \in Procs,
         \/ BootstrapFillsSlot(p) \/ DestroyFrees(p)
         \/ ProcessExits(p) \/ ReleaseClears(p) \/ ReleaseFrees(p)
         \/ \E i \in Slots : DestroyClears(p, i) \/ \E size \in Sizes : BootstrapFindsSlot(p, i, size)
  PROVE  StepGood
<1>1. CASE BootstrapFillsSlot(p)
  <2>1. PICK i, j : i = proc[p].from /\ j = proc[p].slot
    OBVIOUS
  <2>2. KaTypeOK' /\ causes \subseteq causes'
    BY <1>1, <2>1, BootstrapFillsEffect DEF BootstrapFillsSlot
  <2> QED
    BY <1>1, <2>2, BootstrapFillsSafe DEF StepGood
<1>2. CASE DestroyFrees(p)
  <2>1. PICK i : i = proc[p].slot
    OBVIOUS
  <2>2. KaTypeOK' /\ causes \subseteq causes'
    BY <1>2, <2>1, DestroyFreesEffect DEF DestroyFrees
  <2> QED
    BY <1>2, <2>2, DestroyFreesSafe DEF StepGood
<1>3. CASE ProcessExits(p)
  BY <1>3, ProcessExitsEffect, ProcessExitsSafe DEF StepGood
<1>4. CASE ReleaseClears(p)
  <2>1. PICK i : i = proc[p].from
    OBVIOUS
  <2>2. KaTypeOK'
    BY <1>4, <2>1, ReleaseClearsEffect
  <2>3. causes \subseteq causes'
    BY <1>4 DEF ReleaseClears, Raced
  <2> QED
    BY <1>4, <2>2, <2>3, ReleaseClearsSafe DEF StepGood
<1>5. CASE ReleaseFrees(p)
  <2>1. PICK i : i = proc[p].slot
    OBVIOUS
  <2>2. KaTypeOK' /\ causes \subseteq causes'
    BY <1>5, <2>1, ReleaseFreesEffect DEF ReleaseFrees
  <2> QED
    BY <1>5, <2>2, ReleaseFreesSafe DEF StepGood
<1>6. ASSUME NEW i \in Slots, DestroyClears(p, i) PROVE StepGood
  <2>1. KaTypeOK' /\ causes \subseteq causes'
    BY <1>6, DestroyClearsEffect DEF DestroyClears
  <2> QED
    BY <1>6, <2>1, DestroyClearsSafe DEF StepGood
<1>7. ASSUME NEW i \in Slots, NEW size \in Sizes, BootstrapFindsSlot(p, i, size) PROVE StepGood
  <2>1. PICK c : c = karenas[i].cur + size
    OBVIOUS
  <2>2. KaTypeOK'
    BY <1>7, <2>1, BootstrapFindsEffect
  <2>3. causes \subseteq causes'
    BY <1>7 DEF BootstrapFindsSlot, Raced
  <2> QED
    BY <1>7, <2>2, <2>3, BootstrapFindsSafe DEF StepGood
<1> QED
  BY <1>1, <1>2, <1>3, <1>4, <1>5, <1>6, <1>7

(* Every step.                                                             *)
LEMMA NextGood == KaTypeOK /\ [Next]_vars => StepGood
<1> SUFFICES ASSUME KaTypeOK, [Next]_vars PROVE StepGood
  OBVIOUS
<1>1. CASE UNCHANGED vars
  <2>1. KaTypeOK'
    BY <1>1 DEF vars, kaVars, KaTypeOK, TableTypeOK, MapsTypeOK, ProcTypeOK, Stage, OtherTypeOK
  <2>2. UNCHANGED kaVars /\ causes \subseteq causes'
    BY <1>1 DEF vars, kaVars
  <2> QED
    BY <2>1, <2>2, StutterSafe DEF StepGood
<1>2. CASE ModuleLoads
  <2>1. KaTypeOK'
    BY <1>2, LoadsEffect
  <2>2. UNCHANGED kaVars /\ causes \subseteq causes'
    BY <1>2 DEF ModuleLoads, kaVars
  <2> QED
    BY <2>1, <2>2, StutterSafe DEF StepGood
<1>3. CASE ModuleUnloads
  <2>1. KaTypeOK' /\ causes \subseteq causes'
    BY <1>3, UnloadsEffect DEF ModuleUnloads
  <2> QED
    BY <1>3, <2>1, UnloadsSafe DEF StepGood
<1>4. ASSUME NEW p \in Procs,
             \/ dev_open(p) \/ CreateFillsSlot(p) \/ CreateAllocates(p) \/ CreateOutOfMemory(p)
             \/ karena_mmap(p) \/ CreateFails(p) \/ \E size \in Sizes : CreateFindsSlot(p, size)
      PROVE  StepGood
  BY <1>4, CreateGood
<1>5. ASSUME NEW p \in Procs,
             \/ BootstrapFillsSlot(p) \/ DestroyFrees(p)
             \/ ProcessExits(p) \/ ReleaseClears(p) \/ ReleaseFrees(p)
             \/ \E i \in Slots : DestroyClears(p, i) \/ \E size \in Sizes : BootstrapFindsSlot(p, i, size)
      PROVE  StepGood
  BY <1>5, OthersGood
<1>6. ASSUME NEW p \in Procs, NEW i \in Slots, NEW size \in Sizes,
             \/ ka_alloc(p, i, size) \/ ka_reserve(p, i, size)
             \/ ka_seek(p, i, size) \/ ka_pop(p, i, size)
      PROVE  StepGood
  BY <1>1, <1>6, CallsGood
<1> QED
  BY <1>1, <1>2, <1>3, <1>4, <1>5, <1>6 DEF Next

-----------------------------------------------------------------------------
(* Mapping v shows the arena its process has in the slot.                  *)
Current(v) ==
  /\ karenas[v.slot].uaddr = v.vma * Span /\ karenas[v.slot].owner = v.proc
  /\ ~karenas[v.slot].bootstrapped
SameOwner(j) ==
  /\ karenas'[j].uaddr = karenas[j].uaddr /\ karenas'[j].owner = karenas[j].owner
  /\ karenas'[j].bootstrapped = karenas[j].bootstrapped
Leftover == leftover \subseteq {v.vma : v \in maps}

(* The slot of such a mapping is in use.                                   *)
LEMMA CurrentLive ==
  ASSUME KaTypeOK, MapsCurrent, NEW v \in maps, v.vma \notin leftover
  PROVE  v.slot \in Slots /\ Live(v.slot) /\ Covers(v, v.proc, v.vma * Span, v.vma * Span)
<1>1. Current(v) /\ v.slot \in Slots /\ v.vma \in Nat \ {0}
  BY DEF MapsCurrent, Current, KaTypeOK, MapsTypeOK
<1>2. karenas[v.slot].size \in Nat /\ karenas[v.slot].uaddr \in Nat
  BY <1>1, TableFacts
<1>3. PICK u : u = v.vma * Span
  OBVIOUS
<1>4. u \in Nat
  BY <1>1, <1>2, <1>3 DEF Current
<1>5. u <= u /\ u <= u + karenas[v.slot].size
  BY <1>2, <1>4
<1>6. Covers(v, v.proc, v.vma * Span, v.vma * Span)
  BY <1>1, <1>3, <1>5 DEF Covers, Current
<1> QED
  BY <1>6, MappedLive

(* A step that adds no mapping, and leaves the slots of those it keeps.    *)
LEMMA CurrentStays ==
  ASSUME MapsCurrent, maps' \subseteq maps,
         \A v \in maps' : v.vma \notin leftover' => v.vma \notin leftover /\ SameOwner(v.slot)
  PROVE  MapsCurrent'
<1> SUFFICES ASSUME NEW v \in maps', v.vma \notin leftover'
             PROVE  Current(v)'
  BY DEF MapsCurrent, Current
<1>1. Current(v) /\ SameOwner(v.slot)
  BY DEF MapsCurrent, Current
<1> QED
  BY <1>1 DEF Current, SameOwner

(* A step on a slot that is not in use.                                    *)
LEMMA CurrentDead ==
  ASSUME KaTypeOK, MapsCurrent, Leftover, UNCHANGED <<maps, leftover>>,
         \A j \in Slots : Live(j) => SameOwner(j)
  PROVE  MapsCurrent' /\ Leftover'
<1>1. \A v \in maps' : v.vma \notin leftover' => v.vma \notin leftover /\ SameOwner(v.slot)
  BY CurrentLive
<1> QED
  BY <1>1, CurrentStays DEF Leftover

(* Slots marked by a handler are not in use.                               *)
LEMMA MarkedDead ==
  ASSUME NEW i \in Slots, karenas[i].uaddr \in {0, 1}
  PROVE  ~Live(i)
BY DEF Live

(* One slot changes that is not in use, or keeps who it belongs to.        *)
LEMMA CurrentSlot ==
  ASSUME KaTypeOK, MapsCurrent, Leftover, UNCHANGED <<maps, leftover>>, NEW i \in Slots,
         ~Live(i) \/ SameOwner(i), \A j \in Slots : j # i => karenas'[j] = karenas[j]
  PROVE  MapsCurrent' /\ Leftover'
<1>1. \A j \in Slots : Live(j) => SameOwner(j)
  BY DEF SameOwner
<1> QED
  BY <1>1, CurrentDead

StaysCurrent == Leftover' /\ (Safe /\ MapsCurrent /\ "raced" \notin causes' => MapsCurrent')

(* The calls on an arena change no owner.                                  *)
LEMMA CallsCurrent ==
  ASSUME KaTypeOK, Leftover, NEW p \in Procs, NEW i \in Slots, NEW size \in Sizes,
         \/ ka_alloc(p, i, size) \/ ka_reserve(p, i, size)
         \/ ka_seek(p, i, size) \/ ka_pop(p, i, size)
  PROVE  StaysCurrent \/ UNCHANGED vars
<1>1. PICK pos : pos = karenas[i].cur - size
  OBVIOUS
<1>2. Takes(p, i, size) \/ MovesBack(p, i, size) \/ MovesBack(p, i, pos) \/ UNCHANGED vars
  BY <1>1, CallsAre
<1>3. UNCHANGED <<maps, leftover>>
  BY DEF ka_alloc, ka_reserve, ka_seek, ka_pop
<1>4. Leftover'
  BY <1>3 DEF Leftover
<1>5. ASSUME NEW c,
             SlotNow(i, karenas[i].uaddr, c, karenas[i].size, karenas[i].kaddr, karenas[i].owner),
             karenas'[i].bootstrapped = karenas[i].bootstrapped
      PROVE  StaysCurrent
  <2>1. SameOwner(i) /\ \A j \in Slots : j # i => karenas'[j] = karenas[j]
    BY <1>5 DEF SameOwner, SlotNow, Has
  <2> QED
    BY <1>3, <1>4, <2>1, CurrentSlot DEF StaysCurrent
<1>6. ASSUME Takes(p, i, size) PROVE StaysCurrent
  <2>1. PICK c : c = karenas[i].cur + size
    OBVIOUS
  <2> QED
    BY <1>5, <1>6, <2>1, TakesEffect
<1>7. ASSUME NEW n, MovesBack(p, i, n) PROVE StaysCurrent
  BY <1>5, <1>7, MovesBackEffect
<1> QED
  BY <1>2, <1>6, <1>7

(* ka_create: the slot is open or marked until it is mapped.               *)
LEMMA CreateCurrent ==
  ASSUME KaTypeOK, Leftover, NEW p \in Procs,
         \/ dev_open(p) \/ CreateFillsSlot(p) \/ CreateAllocates(p) \/ CreateOutOfMemory(p)
         \/ CreateFails(p) \/ \E size \in Sizes : CreateFindsSlot(p, size)
  PROVE  StaysCurrent
<1>1. UNCHANGED <<maps, leftover>>
  BY DEF dev_open, CreateFillsSlot, CreateAllocates, CreateOutOfMemory, CreateFails, CreateFindsSlot
<1>2. Leftover'
  BY <1>1 DEF Leftover
<1> SUFFICES ASSUME Safe, MapsCurrent PROVE MapsCurrent'
  BY <1>2 DEF StaysCurrent
<1>3. Handling(p)
  BY DEF Safe, Handlers
<1>4. CASE UNCHANGED karenas
  <2>1. \A j \in Slots : Live(j) => SameOwner(j)
    BY <1>4 DEF SameOwner
  <2> QED
    BY <1>1, <2>1, CurrentDead
<1>5. CASE dev_open(p) \/ CreateOutOfMemory(p) \/ CreateFails(p)
  BY <1>4, <1>5 DEF dev_open, CreateOutOfMemory, CreateFails
<1>6. CASE CreateFillsSlot(p)
  <2>1. PICK i, z : i = proc[p].slot /\ z = PAGE_ALIGN(proc[p].size)
    OBVIOUS
  <2>2. SlotNow(i, 0, 0, z, karenas[i].kaddr, p)
    BY <1>6, <2>1, CreateFillsEffect
  <2>3. i \in Slots /\ karenas[i].uaddr = 1
    BY <1>3, <1>6, <2>1, <2>2 DEF CreateFillsSlot, At, Handling, SlotNow
  <2> QED
    BY <1>1, <2>2, <2>3, MarkedDead, CurrentSlot DEF SlotNow
<1>7. CASE CreateAllocates(p)
  <2>1. PICK i, n : i = proc[p].slot /\ n = Len(made) + 1
    OBVIOUS
  <2>2. SlotNow(i, karenas[i].uaddr, karenas[i].cur, karenas[i].size, n, karenas[i].owner)
        /\ karenas'[i].bootstrapped = karenas[i].bootstrapped
    BY <1>7, <2>1, CreateAllocatesEffect
  <2>3. SameOwner(i)
    BY <2>2 DEF SameOwner, SlotNow, Has
  <2> QED
    BY <1>1, <2>2, <2>3, CurrentSlot DEF SlotNow
<1>8. ASSUME NEW size \in Sizes, CreateFindsSlot(p, size) PROVE MapsCurrent'
  <2>1. ASSUME NEW i \in Slots, karenas[i].uaddr = 0,
               SlotNow(i, 1, karenas[i].cur, karenas[i].size, karenas[i].kaddr, karenas[i].owner)
        PROVE  MapsCurrent'
    BY <1>1, <2>1, MarkedDead, CurrentSlot DEF SlotNow
  <2> QED
    BY <1>4, <1>8, <2>1, CreateFindsEffect
<1> QED
  BY <1>5, <1>6, <1>7, <1>8

(* karena_mmap adds a mapping, of the slot that becomes its arena.         *)
LEMMA MmapCurrent ==
  ASSUME KaTypeOK, Leftover, NEW p \in Procs, karena_mmap(p)
  PROVE  StaysCurrent
<1>1. leftover' = leftover /\ maps \subseteq maps'
  BY DEF karena_mmap
<1>2. Leftover'
  BY <1>1 DEF Leftover
<1> SUFFICES ASSUME Safe, MapsCurrent, "raced" \notin causes' PROVE MapsCurrent'
  BY <1>2 DEF StaysCurrent
<1>3. PICK i : i = proc[p].slot
  OBVIOUS
<1>4. Handling(p)
  BY DEF Safe, Handlers
<1>5. MmapDone(p, i)
  BY <1>3, <1>4, MmapMaps
<1>6. i \in Slots /\ ~Live(i) /\ ~karenas'[i].bootstrapped
  BY <1>5 DEF MmapDone
<1>7. PICK n \in Nat \ {0} :
        /\ Maps(p, i, n)
        /\ SlotNow(i, n * Span, 0, karenas[i].size, karenas[i].kaddr, p)
  BY <1>5 DEF MmapDone
<1> SUFFICES ASSUME NEW v \in maps', v.vma \notin leftover'
             PROVE  Current(v)'
  BY DEF MapsCurrent, Current
<1>8. CASE v \in maps
  <2>1. v.slot \in Slots /\ Live(v.slot) /\ Current(v)
    BY <1>1, <1>8, CurrentLive DEF MapsCurrent, Current
  <2>2. karenas'[v.slot] = karenas[v.slot]
    BY <1>6, <1>7, <2>1 DEF SlotNow
  <2> QED
    BY <2>1, <2>2 DEF Current
<1>9. CASE v \notin maps
  <2>1. v.vma = n /\ v.proc = p /\ v.slot = i
    BY <1>7, <1>9 DEF Maps
  <2>2. karenas'[i].uaddr = n * Span /\ karenas'[i].owner = p
    BY <1>7 DEF SlotNow, Has
  <2> QED
    BY <1>6, <2>1, <2>2 DEF Current
<1> QED
  BY <1>8, <1>9

(* ka_bootstrap, and the handlers that free, work on a marked or an open   *)
(* slot.                                                                   *)
LEMMA HandledCurrent ==
  ASSUME KaTypeOK, Leftover, NEW p \in Procs,
         \/ BootstrapFillsSlot(p) \/ DestroyFrees(p) \/ ReleaseFrees(p)
  PROVE  StaysCurrent
<1>1. UNCHANGED <<maps, leftover>>
  BY DEF BootstrapFillsSlot, DestroyFrees, ReleaseFrees
<1>2. Leftover'
  BY <1>1 DEF Leftover
<1> SUFFICES ASSUME Safe, MapsCurrent PROVE MapsCurrent'
  BY <1>2 DEF StaysCurrent
<1>3. Handling(p)
  BY DEF Safe, Handlers
<1>4. PICK i : i = proc[p].slot
  OBVIOUS
<1>5. ASSUME NEW u, NEW c, NEW s, NEW a, NEW o, SlotNow(i, u, c, s, a, o), karenas[i].uaddr \in {0, 1}
      PROVE  MapsCurrent'
  BY <1>1, <1>5, MarkedDead, CurrentSlot DEF SlotNow
<1>6. CASE BootstrapFillsSlot(p)
  <2>1. PICK j : j = proc[p].from
    OBVIOUS
  <2>2. SlotNow(i, proc[p].addr, 0, proc[p].size, karenas[j].kaddr, karenas[j].owner)
    BY <1>4, <1>6, <2>1, BootstrapFillsEffect
  <2>3. karenas[i].uaddr = 1
    BY <1>3, <1>4, <1>6 DEF BootstrapFillsSlot, At, Handling
  <2> QED
    BY <1>5, <2>2, <2>3
<1>7. CASE DestroyFrees(p)
  <2>1. karenas[i].uaddr = 0
    BY <1>3, <1>4, <1>7 DEF DestroyFrees, At, Handling
  <2> QED
    BY <1>4, <1>5, <1>7, <2>1, DestroyFreesEffect
<1>8. CASE ReleaseFrees(p)
  <2>1. karenas[i].uaddr = 0
    BY <1>3, <1>4, <1>8 DEF ReleaseFrees, At, Handling
  <2> QED
    BY <1>4, <1>5, <1>8, <2>1, ReleaseFreesEffect
<1> QED
  BY <1>6, <1>7, <1>8

(* ka_bootstrap moves the position of one arena, and marks an open slot.   *)
LEMMA BootstrapCurrent ==
  ASSUME KaTypeOK, Leftover, NEW p \in Procs, NEW i \in Slots, NEW size \in Sizes,
         BootstrapFindsSlot(p, i, size)
  PROVE  StaysCurrent
<1>1. UNCHANGED <<maps, leftover>>
  BY DEF BootstrapFindsSlot
<1>2. Leftover'
  BY <1>1 DEF Leftover
<1> SUFFICES ASSUME MapsCurrent PROVE MapsCurrent'
  BY <1>2 DEF StaysCurrent
<1>3. PICK c : c = karenas[i].cur + size
  OBVIOUS
<1>4. CASE /\ SlotNow(i, karenas[i].uaddr, c, karenas[i].size, karenas[i].kaddr, karenas[i].owner)
           /\ karenas'[i].bootstrapped = karenas[i].bootstrapped
  <2>1. SameOwner(i) /\ \A j \in Slots : j # i => karenas'[j] = karenas[j]
    BY <1>4 DEF SameOwner, SlotNow, Has
  <2> QED
    BY <1>1, <2>1, CurrentSlot
<1>5. ASSUME NEW j \in Slots, karenas[j].uaddr = 0,
             j # i => /\ Has(karenas'[i], karenas[i].uaddr, c, karenas[i].size, karenas[i].kaddr,
                             karenas[i].owner)
                      /\ karenas'[i].bootstrapped = karenas[i].bootstrapped,
             \A l \in Slots : l # i /\ l # j => karenas'[l] = karenas[l]
      PROVE  MapsCurrent'
  <2>1. ~Live(j)
    BY <1>5, MarkedDead
  <2>2. j # i => SameOwner(i)
    BY <1>5 DEF SameOwner, Has
  <2>3. \A l \in Slots : Live(l) => SameOwner(l)
    BY <1>5, <2>1, <2>2 DEF SameOwner
  <2> QED
    BY <1>1, <2>3, CurrentDead
<1> QED
  BY <1>3, <1>4, <1>5, BootstrapFindsEffect

(* ka_destroy leaves the mappings of its arena over.                       *)
LEMMA DestroyCurrent ==
  ASSUME KaTypeOK, Leftover, NEW p \in Procs, NEW i \in Slots, DestroyClears(p, i)
  PROVE  StaysCurrent
<1>1. UNCHANGED maps /\ leftover' = leftover \cup {v.vma : v \in {w \in maps : w.proc = p /\ w.slot = i}}
  BY DEF DestroyClears
<1>2. Leftover'
  BY <1>1 DEF Leftover
<1> SUFFICES ASSUME Safe, MapsCurrent PROVE MapsCurrent'
  BY <1>2 DEF StaysCurrent
<1>3. karenas[i].owner = p
  <2>1. Nested(p) /\ i \in held[p]
    BY DEF Safe, DestroyClears, May
  <2> QED
    BY <2>1, HeldMapped
<1>4. \A j \in Slots : j # i => karenas'[j] = karenas[j]
  BY DestroyClearsEffect DEF SlotNow
<1>5. ASSUME NEW v \in maps', v.vma \notin leftover'
      PROVE  v.vma \notin leftover /\ SameOwner(v.slot)
  <2>1. v \in maps /\ v.vma \notin leftover /\ ~(v.proc = p /\ v.slot = i)
    BY <1>1, <1>5
  <2>2. Current(v) /\ v.slot \in Slots
    BY <2>1, CurrentLive DEF MapsCurrent, Current
  <2>3. v.slot # i
    BY <1>3, <2>1, <2>2 DEF Current
  <2> QED
    BY <1>4, <2>1, <2>2, <2>3 DEF SameOwner
<1> QED
  BY <1>1, <1>5, CurrentStays

(* A process takes its mappings with it.                                   *)
LEMMA ExitCurrent ==
  ASSUME KaTypeOK, Leftover, NEW p \in Procs, ProcessExits(p)
  PROVE  StaysCurrent
<1>1. /\ UNCHANGED karenas /\ maps' = {v \in maps : v.proc # p}
      /\ leftover' = leftover \ {v.vma : v \in {w \in maps : w.proc = p}}
  BY DEF ProcessExits
<1>2. \A v, w \in maps : v.vma = w.vma => v = w
  BY DEF KaTypeOK, MapsTypeOK
<1>3. Leftover'
  <2> SUFFICES ASSUME NEW x \in leftover' PROVE \E w \in maps' : x = w.vma
    BY DEF Leftover
  <2>1. PICK w \in maps : x = w.vma
    BY <1>1 DEF Leftover
  <2>2. w.proc # p
    BY <1>1, <2>1
  <2> QED
    BY <1>1, <2>1, <2>2
<1>4. ASSUME NEW v \in maps', v.vma \notin leftover'
      PROVE  v.vma \notin leftover /\ SameOwner(v.slot)
  <2>1. v \in maps /\ v.proc # p
    BY <1>1
  <2>2. \A w \in maps : w.proc = p => v.vma # w.vma
    BY <1>2, <2>1
  <2>3. v.vma \notin leftover
    BY <1>1, <1>4, <2>2
  <2> QED
    BY <1>1, <2>3 DEF SameOwner
<1>5. maps' \subseteq maps
  BY <1>1
<1>6. MapsCurrent => MapsCurrent'
  BY <1>4, <1>5, CurrentStays
<1> QED
  BY <1>3, <1>6 DEF StaysCurrent

(* dev_release clears the slots of a process that has no mappings.         *)
LEMMA ReleaseCurrent ==
  ASSUME KaTypeOK, Leftover, NEW p \in Procs, ReleaseClears(p)
  PROVE  StaysCurrent
<1>1. UNCHANGED <<maps, leftover>>
  BY DEF ReleaseClears
<1>2. Leftover'
  BY <1>1 DEF Leftover
<1> SUFFICES ASSUME MapsCurrent PROVE MapsCurrent'
  BY <1>2 DEF StaysCurrent
<1>3. \A v \in maps : v.proc # p
  <2>1. proc[p].at = "release" /\ Stage(p)
    BY StageFacts DEF ReleaseClears, At
  <2> QED
    BY <2>1 DEF Stage
<1>4. PICK i : i = proc[p].from
  OBVIOUS
<1>5. CASE UNCHANGED karenas
  <2>1. \A j \in Slots : Live(j) => SameOwner(j)
    BY <1>5 DEF SameOwner
  <2> QED
    BY <1>1, <2>1, CurrentDead
<1>6. CASE i \in Slots /\ Owned(p, i) /\ SlotNow(i, 0, 0, 0, karenas[i].kaddr, NoProc)
  <2>1. ASSUME NEW v \in maps', v.vma \notin leftover'
        PROVE  v.vma \notin leftover /\ SameOwner(v.slot)
    <3>1. v \in maps /\ v.vma \notin leftover /\ v.proc # p
      BY <1>1, <1>3, <2>1
    <3>2. Current(v) /\ v.slot \in Slots
      BY <3>1, CurrentLive DEF MapsCurrent, Current
    <3>3. v.slot # i
      BY <1>6, <3>1, <3>2 DEF Current, Owned
    <3>4. karenas'[v.slot] = karenas[v.slot]
      BY <1>6, <3>2, <3>3 DEF SlotNow
    <3> QED
      BY <3>1, <3>4 DEF SameOwner
  <2> QED
    BY <1>1, <2>1, CurrentStays
<1> QED
  BY <1>4, <1>5, <1>6, ReleaseClearsEffect

(* Every step.                                                             *)
LEMMA NextCurrent == KaTypeOK /\ Leftover /\ [Next]_vars => StaysCurrent
<1> SUFFICES ASSUME KaTypeOK, Leftover, [Next]_vars PROVE StaysCurrent
  OBVIOUS
<1>1. CASE UNCHANGED kaVars
  <2>1. UNCHANGED <<maps, leftover, karenas>>
    BY <1>1 DEF kaVars
  <2>2. Leftover' /\ (MapsCurrent => MapsCurrent')
    BY <2>1 DEF Leftover, MapsCurrent
  <2> QED
    BY <2>2 DEF StaysCurrent
<1>2. CASE UNCHANGED vars \/ ModuleLoads
  BY <1>1, <1>2 DEF vars, ModuleLoads
<1>3. CASE ModuleUnloads
  <2>1. UNCHANGED <<maps, leftover>> /\ maps = {}
    BY <1>3 DEF ModuleUnloads
  <2>2. Leftover' /\ MapsCurrent'
    BY <2>1 DEF Leftover, MapsCurrent
  <2> QED
    BY <2>2 DEF StaysCurrent
<1>4. ASSUME NEW p \in Procs,
             \/ dev_open(p) \/ CreateFillsSlot(p) \/ CreateAllocates(p) \/ CreateOutOfMemory(p)
             \/ karena_mmap(p) \/ CreateFails(p) \/ \E size \in Sizes : CreateFindsSlot(p, size)
      PROVE  StaysCurrent
  BY <1>4, CreateCurrent, MmapCurrent
<1>5. ASSUME NEW p \in Procs,
             \/ BootstrapFillsSlot(p) \/ DestroyFrees(p)
             \/ ProcessExits(p) \/ ReleaseClears(p) \/ ReleaseFrees(p)
             \/ \E i \in Slots : DestroyClears(p, i) \/ \E size \in Sizes : BootstrapFindsSlot(p, i, size)
      PROVE  StaysCurrent
  BY <1>5, HandledCurrent, BootstrapCurrent, DestroyCurrent, ExitCurrent, ReleaseCurrent
<1>6. ASSUME NEW p \in Procs, NEW i \in Slots, NEW size \in Sizes,
             \/ ka_alloc(p, i, size) \/ ka_reserve(p, i, size)
             \/ ka_seek(p, i, size) \/ ka_pop(p, i, size)
      PROVE  StaysCurrent
  BY <1>2, <1>6, CallsCurrent
<1> QED
  BY <1>2, <1>3, <1>4, <1>5, <1>6 DEF Next

(* The inductive invariant.                                                *)
KaInductive ==
  /\ KaTypeOK /\ Leftover
  /\ "raced" \notin causes => Safe /\ MapsCurrent
  /\ causes = {} => NothingLost

(* The inductive invariant holds in the first state.                       *)
LEMMA InitInductive == Init => KaInductive
<1> SUFFICES ASSUME Init PROVE KaInductive
  OBVIOUS
<1>1. KaTypeOK
  BY InitTypes
<1>2. /\ \A p \in Procs : proc[p].at = "idle" /\ proc[p].slot = NoSlot /\ held[p] = {}
      /\ \A i \in Slots : karenas[i].uaddr = 0
      /\ regions = {} /\ blocks = {} /\ ~oops /\ maps = {} /\ leftover = {}
  BY DEF Init, Idle, Open
<1>3. \A i \in Slots : ~Live(i) /\ ~Keeps(i)
  BY <1>2 DEF Live, Keeps
<1>4. Handlers /\ RegionsKept /\ NothingLost
  BY <1>2, <1>3 DEF Handlers, Handling, RegionsKept, NothingLost
<1>5. \A p \in Procs : Nested(p)
  BY <1>2 DEF Nested, ArenasNest, BlocksNest, BootstrapNests
<1>6. Leftover /\ MapsCurrent
  BY <1>2 DEF Leftover, MapsCurrent
<1> QED
  BY <1>1, <1>4, <1>5, <1>6 DEF KaInductive, Safe

(* Every step keeps it.                                                    *)
LEMMA NextInductive == KaInductive /\ [Next]_vars => KaInductive'
<1> SUFFICES ASSUME KaInductive, [Next]_vars PROVE KaInductive'
  OBVIOUS
<1>1. /\ KaTypeOK' /\ causes \subseteq causes'
      /\ Safe /\ "raced" \notin causes' => StepKeeps
  BY NextGood DEF KaInductive, StepGood
<1>2. ASSUME "raced" \notin causes' PROVE StepKeeps
  BY <1>1, <1>2 DEF KaInductive
<1>3. ASSUME causes' = {} PROVE NothingLost'
  <2>1. causes = {} /\ "raced" \notin causes'
    BY <1>1, <1>3
  <2> QED
    BY <1>2, <1>3, <2>1 DEF KaInductive, StepKeeps
<1>4. Leftover' /\ ("raced" \notin causes' => MapsCurrent')
  BY <1>1, NextCurrent DEF KaInductive, StaysCurrent
<1> QED
  BY <1>1, <1>2, <1>3, <1>4 DEF KaInductive, StepKeeps

(* A slot has one owner, and whoever holds its arena is that owner.        *)
LEMMA ExclusiveFollows == KaInductive => SlotsExclusive
<1> SUFFICES ASSUME KaInductive, "raced" \notin causes
             PROVE  /\ \A p, q \in Procs : p # q => held[p] \cap held[q] = {}
                    /\ \A p \in Procs : \A i \in held[p] : karenas[i].owner = p /\ karenas[i].uaddr # 0
                    /\ oops => \E p \in Procs : proc[p].at = "vmalloc"
  BY DEF SlotsExclusive
<1>1. KaTypeOK /\ Handlers /\ \A p \in Procs : Nested(p)
  BY DEF KaInductive, Safe
<1>2. \A p \in Procs : \A i \in held[p] : Live(i) /\ karenas[i].owner = p
  BY <1>1, HeldMapped
<1>3. \A p \in Procs : \A i \in held[p] : karenas[i].owner = p /\ karenas[i].uaddr # 0
  BY <1>2 DEF Live
<1>4. \A p, q \in Procs : p # q => held[p] \cap held[q] = {}
  BY <1>2
<1> QED
  BY <1>1, <1>3, <1>4 DEF Handlers

(* Memory that is in a slot to be freed has an owner who is still there.   *)
LEMMA FreesAllFollows == KaInductive => ReleaseFreesAll
<1> SUFFICES ASSUME KaInductive, causes = {},
                    \A p \in Procs : proc[p].at = "idle" /\ {v \in maps : v.proc = p} = {}
             PROVE  regions = {}
  BY DEF ReleaseFreesAll
<1>1. NothingLost /\ \A v \in maps : v.proc \in Procs
  BY DEF KaInductive, KaTypeOK, MapsTypeOK
<1>2. \A v \in maps : FALSE
  BY <1>1
<1>3. \A i \in Slots : ~Live(i)
  BY <1>1, <1>2 DEF NothingLost
<1>4. \A i \in Slots : ~Keeps(i)
  BY <1>3 DEF Keeps
<1> QED
  BY <1>1, <1>4 DEF NothingLost

(* The bytes from lo to hi - 1 of what the mapping v shows.                *)
Bytes(v, lo, hi) == {<<karenas[v.slot].kaddr, a - v.vma * Span>> : a \in lo .. hi - 1}

(* Touching a block goes through one mapping, and reaches a byte for every *)
(* address.                                                                *)
LEMMA ReachedIs ==
  ASSUME KaTypeOK, NEW b \in blocks, NEW v, b.lo < b.hi, Covers(v, b.proc, b.lo, b.hi)
  PROVE  Reached(b) = Bytes(v, b.lo, b.hi)
<1>1. b.lo \in Nat /\ b.hi \in Nat /\ b.proc \in Procs
  BY BlockFacts
<1>2. v \in maps /\ v.proc = b.proc /\ v.vma * Span <= b.lo /\ b.hi <= v.vma * Span + karenas[v.slot].size
  BY DEF Covers
<1>3. v.slot \in Slots /\ v.vma \in Nat \ {0} /\ v.vma * Span \in Nat
  BY MappedLive
<1>4. karenas[v.slot].size \in Nat /\ karenas[v.slot].size <= Span - 2 /\ Span \in Nat
  <2>1. PICK s : s = karenas[v.slot].size
    OBVIOUS
  <2>2. s \in 0 .. Span - 2 /\ Span \in Nat
    BY <1>3, <2>1, TableFacts, PageFacts
  <2>3. s \in Nat /\ s <= Span - 2
    BY <2>2
  <2> QED
    BY <2>1, <2>2, <2>3
<1>5. PICK u : u = v.vma * Span
  OBVIOUS
<1>6. u \in Nat /\ u <= b.lo /\ b.hi <= u + karenas[v.slot].size
  BY <1>2, <1>3, <1>5
<1>7. b.lo < u + Span
  BY <1>1, <1>4, <1>6
<1>8. b.lo \div Span = v.vma
  BY <1>1, <1>2, <1>3, <1>5, <1>7, SpanFacts
<1>9. {w \in maps : w.proc = b.proc /\ w.vma = b.lo \div Span} = {v}
  <2>1. \A w \in maps : w.vma = v.vma => w = v
    BY <1>2 DEF KaTypeOK, MapsTypeOK
  <2> QED
    BY <1>2, <1>8, <2>1
<1>10. ASSUME NEW a \in b.lo .. b.hi - 1
       PROVE  karena_vm_fault(v, a) = {<<karenas[v.slot].kaddr, a - v.vma * Span>>}
  <2>1. a \in Nat /\ a < u + karenas[v.slot].size
    BY <1>1, <1>4, <1>6
  <2>2. ~(a - u >= karenas[v.slot].size)
    BY <1>4, <1>6, <2>1
  <2> QED
    BY <1>5, <2>2 DEF karena_vm_fault
<1>11. Reached(b) = UNION {karena_vm_fault(v, a) : a \in b.lo .. b.hi - 1}
  <2>1. Reached(b) = UNION {karena_vm_fault(w, a) : w \in {v}, a \in b.lo .. b.hi - 1}
    BY <1>9 DEF Reached
  <2> QED
    BY <2>1
<1>12. ASSUME NEW x PROVE x \in Reached(b) <=> x \in Bytes(v, b.lo, b.hi)
  <2>1. x \in Reached(b) <=> \E a \in b.lo .. b.hi - 1 : x \in karena_vm_fault(v, a)
    BY <1>11
  <2>2. x \in Bytes(v, b.lo, b.hi)
          <=> \E a \in b.lo .. b.hi - 1 : x = <<karenas[v.slot].kaddr, a - v.vma * Span>>
    BY DEF Bytes
  <2> QED
    BY <1>10, <2>1, <2>2
<1> QED
  BY <1>12

(* As many bytes as addresses.                                             *)
LEMMA BytesCount ==
  ASSUME KaTypeOK, NEW v, v.vma * Span \in Nat, NEW lo \in Nat, NEW hi \in Nat, lo < hi
  PROVE  Cardinality(Bytes(v, lo, hi)) = hi - lo
<1>1. PICK u : u = v.vma * Span /\ u \in Nat
  OBVIOUS
<1>2. PICK k : k = karenas[v.slot].kaddr
  OBVIOUS
<1>3. PICK S : S = lo .. hi - 1
  OBVIOUS
<1>4. PICK T : T = Bytes(v, lo, hi)
  OBVIOUS
<1>5. PICK f : f = [a \in S |-> <<k, a - u>>]
  OBVIOUS
<1>6. \A a \in S : a \in Int
  BY <1>3
<1>7. T = {<<k, a - u>> : a \in S}
  BY <1>1, <1>2, <1>3, <1>4 DEF Bytes
<1>8. f \in [S -> T]
  BY <1>5, <1>7
<1>9. ASSUME NEW a \in S, NEW c \in S, f[a] = f[c] PROVE a = c
  <2>1. <<k, a - u>> = <<k, c - u>>
    BY <1>5, <1>9
  <2>2. a - u = c - u
    BY <2>1
  <2> QED
    BY <1>1, <1>6, <2>2
<1>10. \A t \in T : \E a \in S : f[a] = t
  BY <1>5, <1>7
<1>11. f \in Bijection(S, T)
  BY <1>8, <1>9, <1>10 DEF Bijection, Injection, Surjection, IsInjective
<1>12. IsFiniteSet(S) /\ Cardinality(S) = hi - lo
  <2>1. IsFiniteSet(S) /\ Cardinality(S) = (hi - 1) - lo + 1
    BY <1>3, FS_Interval
  <2> QED
    BY <2>1
<1>13. Cardinality(T) = Cardinality(S)
  BY <1>11, <1>12, FS_Bijection DEF ExistsBijection
<1> QED
  BY <1>4, <1>12, <1>13

(* A byte lies in memory that is allocated, for the process of the mapping.*)
LEMMA CoveredKept ==
  ASSUME KaTypeOK, RegionsKept, NEW p \in Procs, NEW v, NEW lo, NEW hi, Covers(v, p, lo, hi)
  PROVE  /\ v.slot \in Slots /\ Keeps(v.slot) /\ v.vma * Span \in Nat
         /\ karenas[v.slot].uaddr = v.vma * Span
         /\ karenas[v.slot].kaddr \in regions /\ made[karenas[v.slot].kaddr] = p
<1>1. v.slot \in Slots /\ Live(v.slot) /\ karenas[v.slot].owner = p /\ v.vma * Span \in Nat
  BY MappedLive
<1>2. Keeps(v.slot) /\ karenas[v.slot].uaddr = v.vma * Span
  BY <1>1 DEF Covers, Keeps
<1>3. p # NoProc
  BY KaAssumption
<1> QED
  BY <1>1, <1>2, <1>3 DEF RegionsKept

(* Two blocks of one process are disjoint ranges of one memory, blocks of  *)
(* two processes are in different memory.                                  *)
LEMMA BackedFollows == KaInductive => BlocksBacked
<1> SUFFICES ASSUME KaInductive, "raced" \notin causes, NEW b \in blocks
             PROVE  /\ Cardinality(Reached(b)) = b.hi - b.lo
                    /\ \A x \in Reached(b) : x[1] \in regions /\ made[x[1]] = b.proc
                    /\ \A c \in blocks : c # b => Reached(b) \cap Reached(c) = {}
  BY DEF BlocksBacked
<1>1. KaTypeOK /\ RegionsKept /\ \A p \in Procs : Nested(p)
  BY DEF KaInductive, Safe
<1>2. ASSUME NEW c \in blocks
      PROVE  /\ c.proc \in Procs /\ c.lo \in Nat /\ c.hi \in Nat /\ c.lo < c.hi
             /\ \E v \in maps : Covers(v, c.proc, c.lo, c.hi)
             /\ \A d \in blocks : d.proc = c.proc /\ d # c => c.hi <= d.lo \/ d.hi <= c.lo
  <2>1. c.proc \in Procs /\ c.lo \in Nat /\ c.hi \in Nat
    BY <1>1, BlockFacts
  <2>2. BlocksNest(c.proc)
    BY <1>1, <2>1 DEF Nested
  <2> QED
    BY <2>1, <2>2 DEF BlocksNest
<1>3. PICK v \in maps : Covers(v, b.proc, b.lo, b.hi)
  BY <1>2
<1>4. b.proc \in Procs /\ b.lo \in Nat /\ b.hi \in Nat /\ b.lo < b.hi
  BY <1>2
<1>5. Reached(b) = Bytes(v, b.lo, b.hi)
  BY <1>1, <1>3, <1>4, ReachedIs
<1>6. /\ v.slot \in Slots /\ Keeps(v.slot) /\ v.vma * Span \in Nat
      /\ karenas[v.slot].uaddr = v.vma * Span
      /\ karenas[v.slot].kaddr \in regions /\ made[karenas[v.slot].kaddr] = b.proc
  BY <1>1, <1>3, <1>4, CoveredKept
<1>7. Cardinality(Reached(b)) = b.hi - b.lo
  BY <1>1, <1>4, <1>5, <1>6, BytesCount
<1>8. \A x \in Reached(b) : x[1] \in regions /\ made[x[1]] = b.proc
  BY <1>5, <1>6 DEF Bytes
<1>9. ASSUME NEW c \in blocks, c # b, NEW x \in Reached(b), x \in Reached(c) PROVE FALSE
  <2>1. PICK w \in maps : Covers(w, c.proc, c.lo, c.hi)
    BY <1>2
  <2>2. c.proc \in Procs /\ c.lo \in Nat /\ c.hi \in Nat /\ c.lo < c.hi
    BY <1>2
  <2>3. Reached(c) = Bytes(w, c.lo, c.hi)
    BY <1>1, <2>1, <2>2, ReachedIs
  <2>4. /\ w.slot \in Slots /\ Keeps(w.slot) /\ w.vma * Span \in Nat
        /\ karenas[w.slot].uaddr = w.vma * Span
        /\ karenas[w.slot].kaddr \in regions /\ made[karenas[w.slot].kaddr] = c.proc
    BY <1>1, <2>1, <2>2, CoveredKept
  <2>5. PICK a \in b.lo .. b.hi - 1 : x = <<karenas[v.slot].kaddr, a - v.vma * Span>>
    BY <1>5, <1>9 DEF Bytes
  <2>6. PICK d \in c.lo .. c.hi - 1 : x = <<karenas[w.slot].kaddr, d - w.vma * Span>>
    BY <1>9, <2>3 DEF Bytes
  <2>7. karenas[v.slot].kaddr = karenas[w.slot].kaddr /\ a - v.vma * Span = d - w.vma * Span
    BY <2>5, <2>6
  <2>8. v.slot = w.slot
    BY <1>1, <1>6, <2>4, <2>7 DEF RegionsKept
  <2>9. PICK u \in Nat : u = v.vma * Span /\ u = w.vma * Span
    BY <1>6, <2>4, <2>8
  <2>10. a = d
    BY <1>4, <2>2, <2>7, <2>9
  <2>11. b.proc = c.proc
    BY <1>6, <2>4, <2>7
  <2>12. b.hi <= c.lo \/ c.hi <= b.lo
    BY <1>2, <1>9, <2>11
  <2> QED
    BY <1>4, <2>2, <2>10, <2>12
<1> QED
  BY <1>7, <1>8, <1>9

(* A mapping that is not left over reaches memory of its process.          *)
LEMMA OthersFollows == KaInductive => OthersKeepOut
<1> SUFFICES ASSUME KaInductive, "raced" \notin causes, NEW v \in maps, v.vma \notin leftover,
                    NEW a, NEW x \in karena_vm_fault(v, a)
             PROVE  x[1] \in regions /\ made[x[1]] = v.proc
  BY DEF OthersKeepOut
<1>1. KaTypeOK /\ RegionsKept /\ MapsCurrent
  BY DEF KaInductive, Safe
<1>2. v.proc \in Procs
  BY <1>1 DEF KaTypeOK, MapsTypeOK
<1>3. karenas[v.slot].kaddr \in regions /\ made[karenas[v.slot].kaddr] = v.proc
  BY <1>1, <1>2, CurrentLive, CoveredKept
<1>4. x[1] = karenas[v.slot].kaddr
  BY DEF karena_vm_fault
<1> QED
  BY <1>3, <1>4

(* What is inductive gives all of KaInv.                                   *)
LEMMA InvFollows == KaInductive => KaInv
BY ExclusiveFollows, BackedFollows, OthersFollows DEF KaInductive, Leftover, Safe, KaInv

(* The inductive invariant, for any processes, any table and any bounds.   *)
THEOREM KaInductiveInvariant == Spec => []KaInductive
BY InitInductive, NextInductive, PTL DEF Spec

(* KaInv: whatever the processes do, unless handlers raced for a slot, a   *)
(* slot belongs to one process, every byte a process has taken out of its  *)
(* arenas and not given up is in one of its mappings and backed by memory  *)
(* that was allocated for it, and a mapping reaches the memory of another  *)
(* process only if it is left over from an arena that was destroyed        *)
(* (find_open_slot, karena_mmap, karena_vm_fault, handle_arena_destroy,    *)
(* dev_release).                                                           *)
THEOREM KaInvariant == Spec => []KaInv
BY KaInductiveInvariant, InvFollows, PTL

(* ReleaseFreesAll: when every process is gone, dev_release has freed all  *)
(* memory, unless handlers raced, a process died before its mmap or left a *)
(* bootstrapped arena behind.                                              *)
THEOREM ReleaseFreesAllMemory == Spec => []ReleaseFreesAll
BY KaInductiveInvariant, FreesAllFollows, PTL
=============================================================================
