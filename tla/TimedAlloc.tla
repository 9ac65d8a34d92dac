----------------------------- MODULE TimedAlloc -----------------------------
(***************************************************************************)
(* allocator_wrappers.c: every allocation of a measured process adds its   *)
(* time to tcoll and tstats, which are static and have no lock.  The tight *)
(* loop tests have one thread; the threads of the data handler share them, *)
(* and each load and store is a step of its own there.                     *)
(*                                                                         *)
(* A timing is represented by what was measured.  Of tstats only iter is   *)
(* kept: total_tsc is updated in the same way.                             *)
(***************************************************************************)
EXTENDS Integers, Sequences, FiniteSets

CONSTANTS
  Cells,     \* timings that fit the pages of the array
  Threads,   \* threads of the data handler that allocate
  PerThread  \* bound on the allocations of each

Total == PerThread * Cardinality(Threads)

(* The arrays have room, as add_timing itself does not look: it writes     *)
(* behind an array that is too short.                                      *)
ASSUME TimedAssumption ==
  /\ IsFiniteSet(Threads) /\ Threads # {} /\ PerThread \in Nat \ {0}
  /\ Cells \in Nat /\ Total <= Cells

VARIABLES
  coll,   \* the static variables of the running process
  thread  \* control state, loaded values and allocations left of its threads

Zero == [fn |-> "zero", size |-> 0, class |-> ""]
Blank == [i \in 0 .. Cells - 1 |-> Zero]
FreshMem == [iter |-> 0, cur |-> 0, arr |-> Blank]
NoThread == [at |-> "idle", iter |-> 0, cur |-> 0, left |-> 0]
NoThreads == [t \in Threads |-> NoThread]
Thread == [at : {"idle", "alloc", "iter", "add", "arr first", "cur first", "arr last", "cur last"},
           iter : Nat, cur : 0 .. Cells, left : 0 .. PerThread]

(* Fault: the collection goes on where the last test ended.                *)
init_alloc_tcollKeeps(m, arr) == [m EXCEPT !.arr = arr]
init_alloc_tcoll(m, arr) == [m EXCEPT !.cur = 0, !.arr = arr]

(* cur is not touched, and the capacity is counted in bytes.               *)
init_alloc_tcoll_dynamic(m) == [m EXCEPT !.arr = Blank]

(* One of the *_timed functions n times, where nobody else runs.           *)
Timed(m, tag, n) ==
  [iter |-> m.iter + n, cur |-> m.cur + n,
   arr |-> [i \in 0 .. Cells - 1 |-> IF i \in m.cur .. m.cur + n - 1 THEN tag ELSE m.arr[i]]]

-----------------------------------------------------------------------------
(* The same in a thread of the data handler.                               *)
Sdhs == [fn |-> "sdhs", size |-> 0, class |-> ""]

StartThreads == [t \in Threads |-> [NoThread EXCEPT !.at = "alloc", !.left = PerThread]]

(* The two pairs of loads and stores for tstats.                           *)
LoadIter(t) ==
  /\ thread[t].at = "alloc" /\ thread[t].left > 0
  /\ thread' = [thread EXCEPT ![t].at = "iter", ![t].iter = coll.iter]
  /\ UNCHANGED coll

StoreIter(t) ==
  /\ thread[t].at = "iter"
  /\ coll' = [coll EXCEPT !.iter = thread[t].iter + 1]
  /\ thread' = [thread EXCEPT ![t].at = "add"]

(* tcoll.arr[tcoll.cur++] = t: the compiler may store in either order.     *)
LoadCur(t) ==
  /\ thread[t].at = "add"
  /\ \E order \in {"arr first", "cur first"} :
       thread' = [thread EXCEPT ![t].at = order, ![t].cur = coll.cur]
  /\ UNCHANGED coll

(* Fault: the place is computed as arr[++cur].                             *)
StoreArrAfter(t) ==
  /\ thread[t].at \in {"arr first", "arr last"}
  /\ coll' = [coll EXCEPT !.arr[thread[t].cur + 1] = Sdhs]
  /\ thread' = [thread EXCEPT ![t].at = IF @ = "arr last" THEN "alloc" ELSE "cur last",
                              ![t].left = IF thread[t].at = "arr last" THEN @ - 1 ELSE @]

StoreArr(t) ==
  /\ thread[t].at \in {"arr first", "arr last"}
  /\ coll' = [coll EXCEPT !.arr[thread[t].cur] = Sdhs]
  /\ thread' = [thread EXCEPT ![t].at = IF @ = "arr last" THEN "alloc" ELSE "cur last",
                              ![t].left = IF thread[t].at = "arr last" THEN @ - 1 ELSE @]

StoreCur(t) ==
  /\ thread[t].at \in {"cur first", "cur last"}
  /\ coll' = [coll EXCEPT !.cur = thread[t].cur + 1]
  /\ thread' = [thread EXCEPT ![t].at = IF @ = "cur last" THEN "alloc" ELSE "arr last",
                              ![t].left = IF thread[t].at = "cur last" THEN @ - 1 ELSE @]

add_timing(t) == LoadCur(t) \/ StoreArr(t) \/ StoreCur(t)
ThreadStep(t) == LoadIter(t) \/ StoreIter(t) \/ add_timing(t)

ThreadsDone == \A t \in Threads : thread[t].left = 0
=============================================================================
