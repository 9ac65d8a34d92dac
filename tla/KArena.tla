------------------------------- MODULE KArena -------------------------------
(***************************************************************************)
(* The kernel arena module (src/modules/karena/karena.c) and the processes *)
(* that use it through src/allocators/karena.c.                            *)
(*                                                                         *)
(* The module keeps a table of slots that all processes share.  A handler  *)
(* runs without a lock except while it looks for an open slot, so one      *)
(* handler is as many actions as it has accesses another one can come      *)
(* between.  A process is one thread; it uses and destroys only the arenas *)
(* it holds and moves a position up only by taking memory.                 *)
(*                                                                         *)
(* An address is vma * Span + offset, with a number of its own for every   *)
(* mapping.  A process that closes the device after a failed ka_create     *)
(* keeps the closed descriptor, and all its later calls fail.              *)
(***************************************************************************)
EXTENDS KernelModule

CONSTANTS
  SlotCount,  \* the length of karenas[]
  NoProc      \* the owner of a slot nobody has

ASSUME KaAssumption == SlotCount \in Nat \ {0} /\ NoProc \notin Procs

Slots == 0 .. SlotCount - 1
NoSlot == -1

VARIABLES
  karenas,    \* the table of slots
  index,      \* current_arena_index, one for all open files
  regions,    \* the memory vmalloc has handed out and vfree not taken back
  made,       \* made[r]: the process region r was allocated for
  maps,       \* the mappings: [vma, proc, slot]
  leftover,   \* history: the mappings of arenas that their process has destroyed
  proc,       \* proc[p]: where p is, its file, and the locals of its call
  held,       \* the arenas a process holds, by slot
  within,     \* history: the arenas that the one in a slot was bootstrapped out of
  blocks,     \* the memory it has taken out of them: [proc, lo, hi]
  oops,       \* the kernel freed what was not allocated
  causes      \* what happened that the properties have to except

kaVars == <<karenas, index, regions, made, maps, leftover, proc, held, within, blocks, oops,
            causes>>
vars == <<registered, kaVars>>

Span == PAGE_ALIGN(MaxRequest) + 2

Open == [uaddr |-> 0, cur |-> 0, size |-> 0, bootstrapped |-> FALSE,
         kaddr |-> 0, owner |-> NoProc]
Idle == [at |-> "idle", file |-> "none", slot |-> NoSlot, size |-> 0, from |-> NoSlot,
         addr |-> 0]

Init ==
  /\ registered = {} /\ karenas = [i \in Slots |-> Open] /\ index = NoSlot
  /\ regions = {} /\ made = <<>> /\ maps = {} /\ leftover = {}
  /\ proc = [p \in Procs |-> Idle] /\ held = [p \in Procs |-> {}]
  /\ within = [i \in Slots |-> {}]
  /\ blocks = {} /\ oops = FALSE /\ causes = {}

-----------------------------------------------------------------------------
ModuleLoads == karena_init /\ UNCHANGED kaVars

(* The kernel does not unload a module with an open file.  The table is    *)
(* gone with the module.                                                   *)
ModuleUnloads ==
  /\ maps = {} /\ \A p \in Procs : proc[p].file # "open" /\ proc[p].at = "idle"
  /\ karena_exit
  /\ karenas' = [i \in Slots |-> Open] /\ index' = NoSlot
  /\ UNCHANGED <<regions, made, maps, leftover, proc, held, within, blocks, oops, causes>>

-----------------------------------------------------------------------------
At(p, label) == ~oops /\ proc[p].at = label
Goto(p, label) == proc' = [proc EXCEPT ![p].at = label]
Return(p) == proc' = [proc EXCEPT ![p] = [Idle EXCEPT !.file = proc[p].file]]

(* The slots a create, destroy, bootstrap or release is in the middle of.  *)
Busy(p) == {proc[q].slot : q \in {r \in Procs \ {p} : proc[r].at # "idle"}}
Raced(happened) == IF happened THEN causes \cup {"raced"} ELSE causes

(* find_open_slot: the first slot without an address, or -1.               *)
find_open_slot ==
  LET open == {i \in Slots : karenas[i].uaddr = 0}
  IN IF open = {} THEN NoSlot ELSE Min(open)

(* ka_create: open the device on the first call, then the ioctl.           *)
dev_open(p) ==
  /\ At(p, "idle") /\ proc[p].file = "none" /\ "cdev" \in registered
  /\ index' = NoSlot
  /\ proc' = [proc EXCEPT ![p].file = "open"]
  /\ UNCHANGED <<registered, karenas, regions, made, maps, leftover, held, within, blocks, oops, causes>>

CreateFindsSlot(p, size) ==
  /\ At(p, "idle") /\ proc[p].file = "open" /\ Len(made) < MaxRegions
  /\ LET i == find_open_slot
     IN /\ karenas' = IF i = NoSlot THEN karenas ELSE [karenas EXCEPT ![i].uaddr = 1]
        /\ proc' = [proc EXCEPT ![p].at = IF i = NoSlot THEN "close" ELSE "create",
                                ![p].slot = i, ![p].size = size]
        /\ causes' = Raced(i # NoSlot /\ i \in Busy(p))
  /\ UNCHANGED <<registered, index, regions, made, maps, leftover, held, within, blocks, oops>>

(* The mark is taken back and the slot filled in.  The kfree of a slot of  *)
(* the static table, for a size of 0 and when vmalloc fails, is the end of *)
(* the model.                                                              *)
CreateFillsSlot(p) ==
  /\ At(p, "create")
  /\ karenas' = [karenas EXCEPT ![proc[p].slot] =
                   [@ EXCEPT !.uaddr = 0, !.bootstrapped = FALSE, !.owner = p,
                             !.cur = 0, !.size = PAGE_ALIGN(proc[p].size)]]
  /\ index' = proc[p].slot
  /\ oops' = (PAGE_ALIGN(proc[p].size) = 0)
  /\ proc' = [proc EXCEPT ![p].at = "vmalloc", ![p].size = PAGE_ALIGN(@)]
  /\ UNCHANGED <<registered, regions, made, maps, leftover, held, within, blocks, causes>>

CreateAllocates(p) ==
  /\ At(p, "vmalloc")
  /\ made' = Append(made, p)
  /\ regions' = regions \cup {Len(made')}
  /\ karenas' = [karenas EXCEPT ![proc[p].slot].kaddr = Len(made')]
  /\ Goto(p, "mmap")
  /\ UNCHANGED <<registered, index, maps, leftover, held, within, blocks, oops, causes>>

CreateOutOfMemory(p) ==
  /\ At(p, "vmalloc")
  /\ oops' = TRUE
  /\ UNCHANGED <<registered, karenas, index, regions, made, maps, leftover, proc, held, within, blocks, causes>>

(* The slot mapped is the one created last, by whichever process; with no  *)
(* such slot the table is read in front of its start, and mmap fails if it *)
(* returns.                                                                *)
karena_mmap(p) ==
  LET k == karenas[index]
      vma == 1 + Max({v.vma : v \in maps} \cup {0})
      refused == index = NoSlot \/ k.uaddr # 0 \/ proc[p].size > k.size
  IN /\ At(p, "mmap")
     /\ causes' = Raced(index # proc[p].slot)
     /\ IF refused
        THEN /\ Goto(p, "close") /\ UNCHANGED <<karenas, maps, held, within>>
        ELSE /\ karenas' = [karenas EXCEPT ![index].uaddr = vma * Span]
             /\ maps' = maps \cup {[vma |-> vma, proc |-> p, slot |-> index]}
             /\ held' = [held EXCEPT ![p] = @ \cup {proc[p].slot}]
             /\ within' = [within EXCEPT ![proc[p].slot] = {}]
             /\ Return(p)
     /\ UNCHANGED <<registered, index, regions, made, leftover, blocks, oops>>

(* A failed ka_create closes the device.  A mapping keeps the file open.   *)
CreateFails(p) ==
  /\ At(p, "close")
  /\ causes' = IF proc[p].slot = NoSlot THEN causes ELSE causes \cup {"unmapped"}
  /\ LET mapped == \E v \in maps : v.proc = p
     IN proc' = [proc EXCEPT ![p] =
          IF mapped THEN [Idle EXCEPT !.file = "closed"]
                    ELSE [Idle EXCEPT !.file = "closed", !.at = "release", !.from = 0]]
  /\ UNCHANGED <<registered, karenas, index, regions, made, maps, leftover, held, within, blocks, oops>>

-----------------------------------------------------------------------------
(* The operations on an arena the process holds.                           *)

May(p, i) == At(p, "idle") /\ proc[p].file = "open" /\ i \in held[p]

(* When the arena in slot i moves to position pos, a process gives up the  *)
(* memory above it and the arenas bootstrapped out of that memory.         *)
Above(i, pos, lo, hi) == /\ hi > karenas[i].uaddr + pos
                         /\ lo < karenas[i].uaddr + karenas[i].size
Kept(p, i, pos) ==
  {j \in held[p] : i \in within[j] =>
                     karenas[j].uaddr + karenas[j].size <= karenas[i].uaddr + pos}
KeptBlocks(p, i, pos) == {b \in blocks : b.proc # p \/ ~Above(i, pos, b.lo, b.hi)}
GiveUp(p, i, pos) == /\ held' = [held EXCEPT ![p] = Kept(p, i, pos)]
                     /\ blocks' = KeptBlocks(p, i, pos)

(* Fault: room for one byte more than there is.                            *)
HasRoomOffByOne(i, size) == karenas[i].cur + size <= karenas[i].size + 1

(* The test of alloc and reserve.                                          *)
HasRoom(i, size) == karenas[i].cur + size <= karenas[i].size

handle_arena_alloc(i, size) ==
  HasRoom(i, size) /\ karenas' = [karenas EXCEPT ![i].cur = @ + size]

(* The size returned is smaller than the one asked for if there is no room.*)
handle_arena_reserve(i, size) ==
  karenas' = IF ~HasRoom(i, size) THEN karenas ELSE [karenas EXCEPT ![i].cur = @ + size]

handle_arena_seek(i, pos) == karenas' = [karenas EXCEPT ![i].cur = pos]

handle_arena_pop(i, size) ==
  karenas[i].cur >= size /\ karenas' = [karenas EXCEPT ![i].cur = @ - size]

NewBlock(p, i, size) ==
  LET lo == karenas[i].uaddr + karenas[i].cur
  IN blocks \cup {[proc |-> p, lo |-> lo, hi |-> lo + size]}

(* ka_alloc and ka_zalloc; without room they return NULL.                  *)
ka_alloc(p, i, size) ==
  /\ May(p, i) /\ size > 0
  /\ handle_arena_alloc(i, size) /\ blocks' = NewBlock(p, i, size)
  /\ UNCHANGED <<registered, index, regions, made, maps, leftover, proc, held, within, oops, causes>>

ka_reserve(p, i, size) ==
  /\ May(p, i) /\ size > 0
  /\ handle_arena_reserve(i, size)
  /\ blocks' = IF HasRoom(i, size) THEN NewBlock(p, i, size) ELSE blocks
  /\ UNCHANGED <<registered, index, regions, made, maps, leftover, proc, held, within, oops, causes>>

(* ka_seek and ka_free.  The handler takes any position: not to seek       *)
(* beyond what is allocated is up to the caller.                           *)
ka_seek(p, i, pos) ==
  /\ May(p, i) /\ pos <= karenas[i].cur
  /\ handle_arena_seek(i, pos) /\ GiveUp(p, i, pos)
  /\ UNCHANGED <<registered, index, regions, made, maps, leftover, proc, within, oops, causes>>

ka_pop(p, i, size) ==
  /\ May(p, i)
  /\ handle_arena_pop(i, size) /\ GiveUp(p, i, karenas[i].cur - size)
  /\ UNCHANGED <<registered, index, regions, made, maps, leftover, proc, within, oops, causes>>

(* The position is moved before the search for a slot, which may fail.     *)
BootstrapFindsSlot(p, i, size) ==
  /\ May(p, i) /\ size > 0 /\ karenas[i].size - karenas[i].cur >= size
  /\ LET j == find_open_slot
         moved == [karenas EXCEPT ![i].cur = @ + size]
     IN /\ karenas' = IF j = NoSlot THEN moved ELSE [moved EXCEPT ![j].uaddr = 1]
        /\ proc' = IF j = NoSlot THEN proc
                   ELSE [proc EXCEPT ![p].at = "bootstrap", ![p].slot = j,
                                     ![p].size = size, ![p].from = i,
                                     ![p].addr = karenas[i].uaddr + karenas[i].cur]
        /\ causes' = Raced(j # NoSlot /\ j \in Busy(p))
  /\ UNCHANGED <<registered, index, regions, made, maps, leftover, held, within, blocks, oops>>

BootstrapFillsSlot(p) ==
  /\ At(p, "bootstrap")
  /\ LET i == proc[p].from
     IN karenas' = [karenas EXCEPT ![proc[p].slot] =
          [uaddr |-> proc[p].addr, cur |-> 0,
           size |-> proc[p].size, bootstrapped |-> TRUE, kaddr |-> karenas[i].kaddr,
           owner |-> karenas[i].owner]]
  /\ held' = [held EXCEPT ![p] = @ \cup {proc[p].slot}]
  /\ within' = [within EXCEPT ![proc[p].slot] = {proc[p].from} \cup within[proc[p].from]]
  /\ Return(p)
  /\ UNCHANGED <<registered, index, regions, made, maps, leftover, blocks, oops, causes>>

(* Everything but the memory is cleared first: the slot is open before its *)
(* memory is freed.  ka_destroy never unmaps, the size it tests is not     *)
(* copied back to it.                                                      *)
Cleared(k) == [k EXCEPT !.uaddr = 0, !.cur = 0, !.size = 0, !.owner = NoProc]

DestroyClears(p, i) ==
  /\ May(p, i)
  /\ held' = [held EXCEPT ![p] = Kept(p, i, 0) \ {i}]
  /\ blocks' = KeptBlocks(p, i, 0)
  /\ karenas' = [karenas EXCEPT ![i] = Cleared(@)]
  /\ leftover' = leftover \cup {v.vma : v \in {w \in maps : w.proc = p /\ w.slot = i}}
  /\ proc' = [proc EXCEPT ![p].at = "destroy", ![p].slot = i]
  /\ UNCHANGED <<registered, index, regions, made, maps, within, oops, causes>>

Vfree(r) == /\ oops' = (oops \/ (r # 0 /\ r \notin regions))
            /\ regions' = regions \ {r}

(* Fault: the memory behind a bootstrapped arena is freed with it.         *)
DestroyFreesAlways(p) ==
  /\ At(p, "destroy")
  /\ LET i == proc[p].slot
     IN /\ karenas' = [karenas EXCEPT ![i].bootstrapped = FALSE]
        /\ Vfree(karenas[i].kaddr)
  /\ Return(p)
  /\ UNCHANGED <<registered, index, made, maps, leftover, held, within, blocks, causes>>

DestroyFrees(p) ==
  /\ At(p, "destroy")
  /\ LET i == proc[p].slot
     IN /\ karenas' = [karenas EXCEPT ![i].bootstrapped = FALSE]
        /\ IF karenas[i].bootstrapped THEN UNCHANGED <<regions, oops>>
                                      ELSE Vfree(karenas[i].kaddr)
  /\ Return(p)
  /\ UNCHANGED <<registered, index, made, maps, leftover, held, within, blocks, causes>>

-----------------------------------------------------------------------------
(* A process ends, or is killed in the middle of ka_create.  Its mappings  *)
(* go first, then the file.                                                *)
ProcessExits(p) ==
  /\ ~oops /\ proc[p].at \in {"idle", "mmap"} /\ proc[p].file # "none"
  /\ causes' = causes \cup {c \in {"unmapped", "bootstrapped"} :
                 \/ c = "unmapped" /\ proc[p].at = "mmap"
                 \/ c = "bootstrapped" /\ \E i \in Slots : /\ karenas[i].owner = p
                                                           /\ karenas[i].bootstrapped}
  /\ held' = [held EXCEPT ![p] = {}] /\ UNCHANGED within
  /\ blocks' = {b \in blocks : b.proc # p}
  /\ maps' = {v \in maps : v.proc # p}
  /\ leftover' = leftover \ {v.vma : v \in {w \in maps : w.proc = p}}
  /\ LET referenced == proc[p].file = "open" \/ \E v \in maps : v.proc = p
     IN proc' = [proc EXCEPT ![p] =
          IF referenced THEN [Idle EXCEPT !.file = "closed", !.at = "release", !.from = 0]
                        ELSE [Idle EXCEPT !.file = "closed"]]
  /\ UNCHANGED <<registered, karenas, index, regions, made, oops>>

(* The loop of dev_release: an arena is cleared, then its memory freed.    *)
Owned(p, i) == karenas[i].uaddr # 0 /\ karenas[i].owner = p

ReleaseClears(p) ==
  /\ At(p, "release") /\ proc[p].slot = NoSlot
  /\ LET i == proc[p].from
         ended == i = SlotCount
         own == ~ended /\ Owned(p, i)
     IN /\ karenas' = IF own THEN [karenas EXCEPT ![i] = Cleared(@)] ELSE karenas
        /\ proc' = [proc EXCEPT ![p].at = IF ended THEN "idle" ELSE @,
                                ![p].slot = IF own THEN i ELSE NoSlot,
                                ![p].from = IF ended THEN NoSlot ELSE IF own THEN @ ELSE @ + 1]
        /\ causes' = Raced(own /\ i \in Busy(p))
  /\ UNCHANGED <<registered, index, regions, made, maps, leftover, held, within, blocks, oops>>

(* Fault: the pointer is cleared and the memory kept.                      *)
ReleaseKeeps(p) ==
  /\ At(p, "release") /\ proc[p].slot # NoSlot
  /\ LET i == proc[p].slot
     IN /\ karenas' = [karenas EXCEPT ![i].bootstrapped = FALSE, ![i].kaddr = 0]
        /\ proc' = [proc EXCEPT ![p].slot = NoSlot, ![p].from = @ + 1]
  /\ UNCHANGED <<registered, index, regions, made, maps, leftover, held, within, blocks, oops, causes>>

(* A bootstrapped arena ends the loop, and the function.                   *)
ReleaseFrees(p) ==
  /\ At(p, "release") /\ proc[p].slot # NoSlot
  /\ LET i == proc[p].slot
     IN IF karenas[i].bootstrapped
        THEN /\ karenas' = [karenas EXCEPT ![i].bootstrapped = FALSE]
             /\ Return(p)
             /\ UNCHANGED <<regions, oops>>
        ELSE /\ karenas' = [karenas EXCEPT ![i].kaddr = 0]
             /\ proc' = [proc EXCEPT ![p].slot = NoSlot, ![p].from = @ + 1]
             /\ Vfree(karenas[i].kaddr)
  /\ UNCHANGED <<registered, index, made, maps, leftover, held, within, blocks, causes>>

-----------------------------------------------------------------------------
Next ==
  \/ ModuleLoads \/ ModuleUnloads
  \/ \E p \in Procs :
       \/ dev_open(p) \/ CreateFillsSlot(p) \/ CreateAllocates(p)
       \/ CreateOutOfMemory(p) \/ karena_mmap(p)
       \/ CreateFails(p) \/ BootstrapFillsSlot(p) \/ DestroyFrees(p)
       \/ ProcessExits(p) \/ ReleaseClears(p) \/ ReleaseFrees(p)
       \/ \E size \in Sizes : CreateFindsSlot(p, size)
       \/ \E i \in Slots :
            \/ DestroyClears(p, i)
            \/ \E size \in Sizes : \/ ka_alloc(p, i, size) \/ ka_reserve(p, i, size)
                                   \/ ka_seek(p, i, size) \/ ka_pop(p, i, size)
                                   \/ BootstrapFindsSlot(p, i, size)

Spec == Init /\ [][Next]_vars

-----------------------------------------------------------------------------
Slot == [uaddr : Nat, cur : Nat, size : 0 .. Span - 2, bootstrapped : BOOLEAN,
         kaddr : Nat, owner : Procs \cup {NoProc}]
Process == [at : {"idle", "create", "vmalloc", "mmap", "close", "bootstrap", "destroy", "release"},
            file : {"none", "open", "closed"}, slot : Slots \cup {NoSlot},
            size : 0 .. Span - 2, from : NoSlot .. SlotCount, addr : Nat]

(* A position never passes the end of its arena, a mapping has a number of *)
(* its own.                                                                *)
TableTypeOK ==
  /\ karenas \in [Slots -> Slot]
  /\ \A i \in Slots : karenas[i].cur <= karenas[i].size /\ karenas[i].kaddr <= Len(made)
MapsTypeOK ==
  /\ maps \subseteq [vma : Nat \ {0}, proc : Procs, slot : Slots] /\ IsFiniteSet(maps)
  /\ \A v, w \in maps : v.vma = w.vma => v = w

(* A handler has the locals it goes on with.                               *)
Stage(p) ==
  /\ proc[p].at = "idle" => proc[p].slot = NoSlot
  /\ proc[p].at \in {"create", "vmalloc", "mmap", "bootstrap", "destroy"} => proc[p].slot \in Slots
  /\ proc[p].at = "create" => proc[p].size \in Sizes
  /\ proc[p].at = "bootstrap" => proc[p].from \in Slots
  /\ proc[p].at = "release" => /\ proc[p].from \in 0 .. SlotCount
                              /\ proc[p].slot \in {NoSlot, proc[p].from}
                              /\ \A v \in maps : v.proc # p
ProcTypeOK == proc \in [Procs -> Process] /\ \A p \in Procs : Stage(p)

OtherTypeOK ==
  /\ registered \in {{}, Registered} /\ index \in Slots \cup {NoSlot} /\ oops \in BOOLEAN
  /\ made \in Seq(Procs) /\ regions \subseteq 1 .. Len(made)
  /\ held \in [Procs -> SUBSET Slots] /\ within \in [Slots -> SUBSET Slots]
  /\ blocks \subseteq [proc : Procs, lo : Nat, hi : Nat]
  /\ causes \subseteq {"raced", "unmapped", "bootstrapped"}

(* Every variable has its type.                                            *)
KaTypeOK == TableTypeOK /\ MapsTypeOK /\ ProcTypeOK /\ OtherTypeOK

(* The slot a handler is in the middle of is marked while it fills it, and *)
(* open again while it is still to be mapped or freed.                     *)
Handling(p) ==
  LET k == karenas[proc[p].slot]
  IN /\ proc[p].at \in {"create", "bootstrap"} => k.uaddr = 1
     /\ proc[p].at \in {"vmalloc", "mmap", "destroy"} => k.uaddr = 0
     /\ proc[p].at = "release" /\ proc[p].slot # NoSlot => k.uaddr = 0
     /\ proc[p].at = "close" => proc[p].slot = NoSlot
     /\ proc[p].at \in {"vmalloc", "mmap"} =>
          /\ k.size = proc[p].size /\ k.owner = p /\ k.cur = 0 /\ ~k.bootstrapped
          /\ k.size > 0 \/ oops

(* A slot is in the middle of one handler at most, and marked only by one. *)
Handlers ==
  /\ \A p, q \in Procs : p # q /\ proc[p].slot = proc[q].slot => proc[p].slot = NoSlot
  /\ \A p \in Procs : Handling(p)
  /\ \A i \in Slots : karenas[i].uaddr = 1 =>
       \E p \in Procs : proc[p].at \in {"create", "bootstrap"} /\ proc[p].slot = i
  /\ oops => \E p \in Procs : proc[p].at = "vmalloc"

(* The arenas a process could use, or still has to be freed.               *)
Live(i) == karenas[i].uaddr > 1
Keeps(i) ==
  /\ ~karenas[i].bootstrapped
  /\ Live(i) \/ \E p \in Procs : proc[p].at \in {"mmap", "destroy", "release"} /\ proc[p].slot = i

(* The memory of an arena that was not bootstrapped is allocated, for the  *)
(* owner of the slot, and is in no other slot to be freed.                 *)
RegionsKept ==
  /\ \A i \in Slots : Live(i) => karenas[i].owner # NoProc
  /\ \A i \in Slots : Keeps(i) =>
       /\ karenas[i].kaddr \in regions
       /\ karenas[i].owner # NoProc => made[karenas[i].kaddr] = karenas[i].owner
  /\ \A i, j \in Slots : Keeps(i) /\ Keeps(j) /\ karenas[i].kaddr = karenas[j].kaddr => i = j

(* Mapping v of p covers lo .. hi - 1, and its slot is still its own.      *)
Covers(v, p, lo, hi) ==
  /\ v \in maps /\ v.proc = p
  /\ karenas[v.slot].uaddr = v.vma * Span /\ karenas[v.slot].owner = p
  /\ ~karenas[v.slot].bootstrapped
  /\ v.vma * Span <= lo /\ hi <= v.vma * Span + karenas[v.slot].size

(* A range of addresses is disjoint from an arena, or in its used part.    *)
Outside(lo, hi, i) == hi <= karenas[i].uaddr \/ lo >= karenas[i].uaddr + karenas[i].size
InUsed(lo, hi, i) == karenas[i].uaddr <= lo /\ hi <= karenas[i].uaddr + karenas[i].cur

End(i) == karenas[i].uaddr + karenas[i].size

(* The arenas a process holds are its own, inside mappings of it, disjoint *)
(* or bootstrapped out of each other.                                      *)
ArenasNest(p) ==
  /\ \A i \in held[p] :
       /\ Live(i) /\ karenas[i].owner = p /\ karenas[i].size > 0
       /\ \E v \in maps : v.slot \in {i} \cup within[i] /\ Covers(v, p, karenas[i].uaddr, End(i))
       /\ \A e \in within[i] : /\ Live(e) /\ karenas[e].owner = p
                               /\ karenas[e].uaddr <= karenas[i].uaddr
  /\ \A i, j \in held[p] : i # j =>
       \/ Outside(karenas[i].uaddr, End(i), j)
       \/ j \in within[i] /\ InUsed(karenas[i].uaddr, End(i), j)
       \/ i \in within[j] /\ InUsed(karenas[j].uaddr, End(j), i)

(* Its blocks are inside its mappings, apart from each other and from what *)
(* its arenas have left.                                                   *)
BlocksNest(p) ==
  \A b \in blocks : b.proc = p =>
    /\ b.lo < b.hi /\ \E v \in maps : Covers(v, p, b.lo, b.hi)
    /\ \A i \in held[p] : Outside(b.lo, b.hi, i) \/ InUsed(b.lo, b.hi, i)
    /\ \A c \in blocks : c.proc = p /\ c # b => b.hi <= c.lo \/ c.hi <= b.lo

(* While an arena is bootstrapped, the memory for it is nobody else's.     *)
BootstrapNests(p) ==
  LET i == proc[p].from
      lo == proc[p].addr
      hi == proc[p].addr + proc[p].size
  IN proc[p].at = "bootstrap" =>
       /\ i \in held[p] /\ lo < hi /\ InUsed(lo, hi, i)
       /\ \E v \in maps : v.slot \in {i} \cup within[i] /\ Covers(v, p, lo, hi)
       /\ \A j \in held[p] \ {i} : Outside(lo, hi, j) \/ (j \in within[i] /\ InUsed(lo, hi, j))
       /\ \A b \in blocks : b.proc = p => b.hi <= lo \/ hi <= b.lo

Nested(p) ==
  /\ ArenasNest(p) /\ BlocksNest(p) /\ BootstrapNests(p)
  /\ proc[p].at = "release" => held[p] = {} /\ \A b \in blocks : b.proc # p

(* All memory is in a slot that will be freed: its owner is still there, or*)
(* dev_release has yet to come to it, and meets no bootstrapped arena.     *)
NothingLost ==
  /\ \A r \in regions : \E i \in Slots : Keeps(i) /\ karenas[i].kaddr = r
  /\ \A i \in Slots : Live(i) =>
       \/ \E v \in maps : v.proc = karenas[i].owner
       \/ \E p \in Procs : /\ karenas[i].owner = p /\ proc[p].at = "release" /\ proc[p].from <= i
                           /\ ~karenas[i].bootstrapped
  /\ \A p \in Procs : proc[p].at = "release" /\ proc[p].slot # NoSlot =>
       ~karenas[proc[p].slot].bootstrapped

(* karena_vm_fault: the byte of kernel memory behind an address of a       *)
(* mapping, as region and offset, or none (SIGBUS).                        *)
karena_vm_fault(v, addr) ==
  LET k == karenas[v.slot]
      offset == addr - v.vma * Span
  IN IF offset >= k.size THEN {} ELSE {<<k.kaddr, offset>>}

(* The memory that touching a block reaches.                               *)
Reached(b) ==
  UNION {karena_vm_fault(v, addr) : v \in {w \in maps : /\ w.proc = b.proc
                                                        /\ w.vma = b.lo \div Span},
                                    addr \in b.lo .. b.hi - 1}

(* Unless handlers raced for a slot, every byte a process has taken and    *)
(* not given up is in one of its mappings, and its touching it there       *)
(* reaches memory that is allocated, that was allocated for this process,  *)
(* and that no other block reaches through the mapping it is in.           *)
BlocksBacked ==
  "raced" \notin causes => \A b \in blocks :
    /\ Cardinality(Reached(b)) = b.hi - b.lo
    /\ \A x \in Reached(b) : x[1] \in regions /\ made[x[1]] = b.proc
    /\ \A c \in blocks : c # b => Reached(b) \cap Reached(c) = {}

(* A mapping reaches whatever is in its slot by now: ka_destroy leaves it  *)
(* in place, and the slot may go to another process.  Unless handlers      *)
(* raced, only mappings left over in this way reach memory of another      *)
(* process, or memory that is not allocated.  (Every touch is a fault      *)
(* here; a page that was touched before stays what it was.)                *)
OthersKeepOut ==
  "raced" \notin causes => \A v \in maps : v.vma \notin leftover =>
    \A addr \in v.vma * Span .. v.vma * Span + Span - 1 :
      \A x \in karena_vm_fault(v, addr) : x[1] \in regions /\ made[x[1]] = v.proc

(* Unless handlers raced for a slot, no arena is held by two processes and *)
(* no memory is freed twice, so the kernel stops only in a create of size  *)
(* 0 or without memory.                                                    *)
SlotsExclusive ==
  "raced" \notin causes =>
    /\ \A p, q \in Procs : p # q => held[p] \cap held[q] = {}
    /\ \A p \in Procs : \A i \in held[p] : karenas[i].owner = p /\ karenas[i].uaddr # 0
    /\ oops => \E p \in Procs : proc[p].at = "vmalloc"

(* When every process is gone, all memory has been freed, unless handlers  *)
(* raced, a process died between the ioctl and the mmap of ka_create, or   *)
(* one left a bootstrapped arena behind.                                   *)
ReleaseFreesAll ==
  (causes = {} /\ \A p \in Procs : proc[p].at = "idle" /\ proc[p].file # "open"
               /\ {v \in maps : v.proc = p} = {}) => regions = {}

(* A mapping that is not left over from a destroyed arena is that of the   *)
(* arena its process has in the slot.                                      *)
MapsCurrent == \A v \in maps : v.vma \notin leftover =>
  /\ karenas[v.slot].uaddr = v.vma * Span /\ karenas[v.slot].owner = v.proc
  /\ ~karenas[v.slot].bootstrapped

(* What the module promises to the processes as long as no handlers race:  *)
(* a slot belongs to one process, the memory taken is there and was        *)
(* allocated for it, and no mapping of another process reaches it but one  *)
(* left over from a destroyed arena (find_open_slot, karena_mmap,          *)
(* karena_vm_fault, handle_arena_destroy); with what it rests on.          *)
KaInv ==
  /\ KaTypeOK /\ leftover \subseteq {v.vma : v \in maps}
  /\ "raced" \notin causes => /\ Handlers /\ RegionsKept /\ MapsCurrent
                              /\ \A p \in Procs : Nested(p)
  /\ causes = {} => NothingLost
  /\ SlotsExclusive /\ BlocksBacked /\ OthersKeepOut
=============================================================================
