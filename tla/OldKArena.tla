----------------------------- MODULE OldKArena ------------------------------
(***************************************************************************)
(* The first kernel arena module (src/modules/oldkarena/okarena.c) and the *)
(* processes that use it through src/allocators/oldkarena.c.  An arena is  *)
(* a structure of its own that hangs off the mapping; what the processes   *)
(* share is the pointer to the structure created last, which karena_mmap   *)
(* maps.  The calls on an arena are as in KArena, and so is what a process *)
(* may ask for, but nobody tests for room in oka_alloc: a position may pass*)
(* the end of the memory.                                                  *)
(***************************************************************************)
EXTENDS KernelModule

VARIABLES
  infos,      \* the structures made: [size, cur, freed, for]
  mmapInfo,   \* karena.mmap_info, 0 for NULL
  vmas,       \* the mappings: [proc, info]
  okaProc,    \* where a process is: [at, file, info, size]
  okaBlocks,  \* the memory taken: [proc, info, by, lo, hi]
  okaCrashed, \* a structure was used after it was freed
  shared      \* history: the structures mapped by a process they were not made for

okaVars == <<infos, mmapInfo, vmas, okaProc, okaBlocks, okaCrashed, shared>>

(* A bound on positions, past the end of every memory.                     *)
OkaPosBound == PAGE_ALIGN(MaxRequest) + 1

OkaIdle == [at |-> "idle", file |-> "none", info |-> 0, size |-> 0]

OkaInit ==
  /\ infos = <<>> /\ mmapInfo = 0 /\ vmas = {} /\ okaBlocks = {}
  /\ okaProc = [p \in Procs |-> OkaIdle] /\ okaCrashed = FALSE /\ shared = {}

OkaModuleLoads == karena_init /\ UNCHANGED okaVars

OkaModuleUnloads ==
  /\ vmas = {} /\ \A p \in Procs : okaProc[p].file # "open"
  /\ karena_exit /\ mmapInfo' = 0
  /\ UNCHANGED <<infos, vmas, okaProc, okaBlocks, okaCrashed, shared>>

-----------------------------------------------------------------------------
OkaAt(p, label) == ~okaCrashed /\ okaProc[p].at = label

oka_create(p, size) ==
  /\ OkaAt(p, "idle") /\ registered = Registered /\ okaProc[p].file # "closed"
  /\ Len(infos) < MaxRegions
  /\ okaProc' = [okaProc EXCEPT ![p] = [at |-> "ioctl", file |-> "open", info |-> 0,
                                        size |-> PAGE_ALIGN(size)]]
  /\ UNCHANGED <<registered, infos, mmapInfo, vmas, okaBlocks, okaCrashed, shared>>

(* A failing vzalloc, or a size of 0, takes the structure back.            *)
OkaIoctlCreate(p) ==
  /\ OkaAt(p, "ioctl")
  /\ \/ /\ okaProc[p].size > 0
        /\ infos' = Append(infos, [size |-> okaProc[p].size, cur |-> 0,
                                   freed |-> FALSE, for |-> p])
        /\ mmapInfo' = Len(infos')
        /\ okaProc' = [okaProc EXCEPT ![p].at = "mmap", ![p].info = Len(infos')]
     \/ /\ okaProc' = [okaProc EXCEPT ![p] = [OkaIdle EXCEPT !.file = "closed"]]
        /\ UNCHANGED <<infos, mmapInfo>>
  /\ UNCHANGED <<registered, vmas, okaBlocks, okaCrashed, shared>>

(* The structure created last is mapped; it may have been freed since.     *)
OkaMmap(p) ==
  LET refused == mmapInfo = 0 \/ okaProc[p].size > infos[mmapInfo].size
      freed == mmapInfo # 0 /\ infos[mmapInfo].freed
  IN /\ OkaAt(p, "mmap")
     /\ okaCrashed' = freed
     /\ IF refused /\ ~freed
        THEN /\ okaProc' = [okaProc EXCEPT ![p] = [OkaIdle EXCEPT !.file = "closed"]]
             /\ UNCHANGED <<vmas, shared>>
        ELSE /\ okaProc' = [okaProc EXCEPT ![p] = [OkaIdle EXCEPT !.file = "open"]]
             /\ vmas' = vmas \cup {[proc |-> p, info |-> mmapInfo]}
             /\ shared' = IF infos[mmapInfo].for = p THEN shared ELSE shared \cup {mmapInfo}
     /\ UNCHANGED <<registered, infos, mmapInfo, okaBlocks>>

-----------------------------------------------------------------------------
(* The calls on a mapping the process has; find_vma finds it by its start. *)
(* Each uses the structure, freed or not: what comes of it then is the end *)
(* of the model.                                                           *)
OkaMay(p, v) == OkaAt(p, "idle") /\ okaProc[p].file = "open" /\ v \in vmas /\ v.proc = p
OkaUses(v) == okaCrashed' = infos[v.info].freed

(* Fault: the test of oka_reserve lets in one byte too many.               *)
OkaFitsOffByOne(i, size) == infos[i].cur + size <= infos[i].size + 1

OkaFits(i, size) == infos[i].cur + size <= infos[i].size

OkaBlock(v, by, size) ==
  [proc |-> v.proc, info |-> v.info, by |-> by,
   lo |-> infos[v.info].cur, hi |-> infos[v.info].cur + size]

(* Fault: the position is not moved past the block.                        *)
OkaTakeInPlace(v, by, size) ==
  /\ infos' = infos
  /\ okaBlocks' = okaBlocks \cup {OkaBlock(v, by, size)}

OkaTake(v, by, size) ==
  /\ infos' = [infos EXCEPT ![v.info].cur = @ + size]
  /\ okaBlocks' = okaBlocks \cup {OkaBlock(v, by, size)}

oka_alloc(p, v, size) ==
  /\ OkaMay(p, v) /\ size > 0 /\ infos[v.info].cur + size <= OkaPosBound
  /\ OkaUses(v) /\ OkaTake(v, "alloc", size)
  /\ UNCHANGED <<registered, mmapInfo, vmas, okaProc, shared>>

(* Without room the size returned is another one: what is left, or with a  *)
(* position past the end a wrapped difference.                             *)
oka_reserve(p, v, size) ==
  /\ OkaMay(p, v) /\ size > 0 /\ OkaUses(v)
  /\ IF OkaFits(v.info, size) THEN OkaTake(v, "reserve", size)
                              ELSE UNCHANGED <<infos, okaBlocks>>
  /\ UNCHANGED <<registered, mmapInfo, vmas, okaProc, shared>>

(* A process gives up the memory it has above the new position.            *)
OkaMoveTo(v, pos) ==
  /\ OkaUses(v)
  /\ infos' = [infos EXCEPT ![v.info].cur = pos]
  /\ okaBlocks' = {b \in okaBlocks : b.proc = v.proc /\ b.info = v.info => b.hi <= pos}

(* Also oka_free.                                                          *)
oka_seek(p, v, pos) ==
  /\ OkaMay(p, v) /\ pos <= infos[v.info].cur
  /\ OkaMoveTo(v, pos)
  /\ UNCHANGED <<registered, mmapInfo, vmas, okaProc, shared>>

oka_pop(p, v, size) ==
  /\ OkaMay(p, v) /\ infos[v.info].cur >= size
  /\ OkaMoveTo(v, infos[v.info].cur - size)
  /\ UNCHANGED <<registered, mmapInfo, vmas, okaProc, shared>>

(* The structure and its memory are freed and the mapping removed; the     *)
(* shared pointer is left as it is.                                        *)
oka_destroy(p, v) ==
  /\ OkaMay(p, v) /\ OkaUses(v)
  /\ infos' = [infos EXCEPT ![v.info].freed = TRUE]
  /\ okaBlocks' = {b \in okaBlocks : ~(b.proc = p /\ b.info = v.info)}
  /\ vmas' = vmas \ {v}
  /\ UNCHANGED <<registered, mmapInfo, okaProc, shared>>

(* dev_release does nothing.                                               *)
OkaProcessExits(p) ==
  /\ okaProc[p].at \in {"idle", "mmap"} /\ ~okaCrashed /\ okaProc[p].file # "none"
  /\ vmas' = {v \in vmas : v.proc # p}
  /\ okaBlocks' = {b \in okaBlocks : b.proc # p}
  /\ okaProc' = [okaProc EXCEPT ![p] = [OkaIdle EXCEPT !.file = "closed"]]
  /\ UNCHANGED <<registered, infos, mmapInfo, okaCrashed, shared>>

OkaNext ==
  \/ OkaModuleLoads \/ OkaModuleUnloads
  \/ \E p \in Procs :
       \/ OkaIoctlCreate(p) \/ OkaMmap(p) \/ OkaProcessExits(p)
       \/ \E size \in Sizes : oka_create(p, size)
       \/ \E v \in vmas :
            \/ oka_destroy(p, v)
            \/ \E size \in Sizes : \/ oka_alloc(p, v, size) \/ oka_reserve(p, v, size)
                                   \/ oka_seek(p, v, size) \/ oka_pop(p, v, size)

OkaSpec == registered = {} /\ OkaInit /\ [][OkaNext]_<<registered, okaVars>>

-----------------------------------------------------------------------------
(* The types.                                                              *)
Info == [size : Int, cur : Nat, freed : BOOLEAN, for : Procs]
OkaProcess == [at : {"idle", "ioctl", "mmap"}, file : {"none", "open", "closed"},
               info : Nat, size : Int]

OkaTypeOK ==
  /\ infos \in Seq(Info)
  /\ mmapInfo \in 0 .. Len(infos)
  /\ vmas \subseteq [proc : Procs, info : 1 .. Len(infos)]
  /\ okaProc \in [Procs -> OkaProcess]
  /\ \A p \in Procs : okaProc[p].at # "idle" => okaProc[p].file = "open"
  /\ okaBlocks \subseteq [proc : Procs, info : 1 .. Len(infos), by : {"alloc", "reserve"},
                          lo : Nat, hi : Nat]
  /\ okaCrashed \in BOOLEAN /\ shared \subseteq 1 .. Len(infos)

(* A structure is mapped by the process it was made for and is not freed,  *)
(* and so is the one a process is about to map, the last it created.       *)
Mapped ==
  /\ \A v \in vmas : v.info \notin shared =>
       infos[v.info].freed = FALSE /\ infos[v.info].for = v.proc
  /\ \A p \in Procs : okaProc[p].at = "mmap" =>
       LET i == okaProc[p].info
       IN /\ i \in 1 .. mmapInfo /\ infos[i].for = p
          /\ i \notin shared => infos[i].freed = FALSE
          /\ \A j \in i + 1 .. Len(infos) : infos[j].for # p

(* What oka_reserve gives is inside the memory.  A block is in a mapping of*)
(* the process that took it, of memory that is not freed, and below its    *)
(* position.                                                               *)
Backed ==
  \A b \in okaBlocks :
    /\ b.by = "reserve" => b.hi <= infos[b.info].size
    /\ b.info \notin shared => /\ [proc |-> b.proc, info |-> b.info] \in vmas
                               /\ infos[b.info].freed = FALSE /\ b.hi <= infos[b.info].cur

(* No two blocks overlap.                                                  *)
Apart ==
  \A b, c \in okaBlocks : b # c /\ b.info = c.info /\ b.info \notin shared =>
    b.hi <= c.lo \/ c.hi <= b.lo

(* What oka_reserve gives is inside the memory of the arena (what oka_alloc*)
(* gives may be past its end).  A structure that no process maps but the   *)
(* one it was made for is not freed while that one uses it, and its blocks *)
(* are apart, whatever happens to the structures that another process has  *)
(* come to map (karena_mmap takes the one created last); only those are    *)
(* used after they were freed.                                             *)
OldBlocksBacked ==
  /\ OkaTypeOK /\ (okaCrashed => shared # {})
  /\ ~okaCrashed => Mapped /\ Backed /\ Apart
=============================================================================
