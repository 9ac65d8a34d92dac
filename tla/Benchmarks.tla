----------------------------- MODULE Benchmarks -----------------------------
(***************************************************************************)
(* benchmarks.c, tests.c and tight_loop_test.c: the benchmark program runs *)
(* the tests of its configuration, forks a process for every measurement   *)
(* (or none, under a debugger) and leaves numbered files of timings, which *)
(* it opens and never closes.  The program is started several times on the *)
(* same directories and configuration.                                     *)
(*                                                                         *)
(* Positions of main_ua are counted in strings.  The data handler inside   *)
(* the sdhs test is the subject of other modules; its threads only         *)
(* allocate here.  Every failing call costs one of MaxFaults.              *)
(***************************************************************************)
EXTENDS TimedAlloc, MemSize, FiniteSetsExt

CONSTANTS
  Confs,      \* enabled, debugger, the tests enabled and the text of "arena_sz";
              \* starts bounds the starts of the program
  ArenaFns, MallocFns,  \* a_alloc_functions and malloc_and_fam
  Classes,    \* the classes of sizes, in order
  SizesOf,    \* class -> its sizes, in increasing order
  Iterations, \* "alloc_iterations"
  MaxFaults   \* bound on the failing calls of a start

ASSUME BenchAssumption ==
  /\ Iterations \in Nat \ {0} /\ MaxFaults \in Nat
  /\ ArenaFns \in Seq(STRING \ {"sdhs"}) /\ MallocFns \in Seq(STRING \ {"sdhs"})
  /\ Classes \in Seq(STRING \ {"", "log"}) /\ DOMAIN SizesOf = ToSet(Classes)
  /\ \A c \in ToSet(Classes) :
       /\ SizesOf[c] \in Seq(Nat \ {0}) /\ Len(SizesOf[c]) > 0
       /\ Iterations * Len(SizesOf[c]) + Total <= Cells

(* All tests of a debugger share one process, and the position where the   *)
(* data handler collects is not set back: it may be tested once there.     *)
ASSUME ConfsAssumption ==
  \A c \in Confs :
    /\ c.enabled \in BOOLEAN /\ c.debugger \in BOOLEAN
    /\ c.starts \in Nat \ {0} /\ c.suite \in Seq(STRING)
    /\ c.debugger => \A i, j \in DOMAIN c.suite : c.suite[i] = "sdhs" /\ c.suite[j] = "sdhs" => i = j

VARIABLES
  start, conf,            \* number of the start, its configuration
  pc, result, suite,      \* the benchmark process and the tests it has left
  loops, phase, left,     \* calls of tight_loop_test, child and sizes left
  proc, parent,           \* the running process, what a fork has put aside
  main_ua, uas, prepared, \* position, the scratch of tight_loop_test; history
  run_nr,                 \* the number of the log
  arena, log_file, entry, \* of the running process; the file it writes
  disk, faults, drained   \* the directories; faults; no thread was left running

control == <<start, conf, result, suite, loops, phase, left>>
process == <<proc, parent, main_ua, uas, prepared, run_nr, arena, log_file, entry>>
benchVars == <<coll, thread, control, pc, process, disk, faults, drained>>

Dir(fn, size, class) == [fn |-> fn, size |-> size, class |-> class]
LogDir(test) == Dir(test, 0, "log")
Loop == Head(loops)
Product(fns) ==
  [k \in 1 .. Len(fns) * Len(Classes) |-> [fn    |-> fns[((k - 1) \div Len(Classes)) + 1],
                                           class |-> Classes[((k - 1) % Len(Classes)) + 1]]]
Forked == proc # 0
Fault == faults < MaxFaults /\ faults' = faults + 1
NoFault == UNCHANGED faults
SizeSum(class) == FoldLeft(+, 0, SizesOf[class])

-----------------------------------------------------------------------------
(* The directories.  A file knows its number, its name, the start and the  *)
(* process that wrote it, and what was written.                            *)
File(nr, name) ==
  [nr |-> nr, name |-> name, start |-> start, proc |-> proc, iter |-> 0, count |-> 0,
   data |-> <<>>, fate |-> "whole", drained |-> TRUE]

(* Fault: the largest number is used again.                                *)
get_next_run_nrAgain(dir) == Max({1} \cup {f.nr : f \in disk[dir]})
get_next_run_nr(dir) == Max({0} \cup {f.nr : f \in disk[dir]}) + 1

(* Opening for writing truncates a file of that name.                      *)
Put(files, f) == {g \in files : g.nr # f.nr \/ g.name # f.name} \cup {f}
Saved(dir, f) == [disk EXCEPT ![dir] = Put(@, f)]

(* What the running process had in its buffers when it went.               *)
Settled(d, fate) ==
  [dir \in DOMAIN d |->
     {IF f.fate = "open" /\ f.start = start /\ f.proc = proc THEN [f EXCEPT !.fate = fate] ELSE f :
        f \in d[dir]}]

-----------------------------------------------------------------------------
(* main, run_tests and the tests.                                          *)
Fns == ToSet(ArenaFns) \cup ToSet(MallocFns)
ClassDirs(c) == {Dir(fn, 0, c) : fn \in Fns} \cup {Dir(x[1], x[2], "") : x \in Fns \X ToSet(SizesOf[c])}
Dirs == {LogDir(t) : t \in {"arena", "malloc", "sdhs"}} \cup {Sdhs} \cup UNION {ClassDirs(c) : c \in ToSet(Classes)}

BenchInit ==
  /\ start = 1 /\ conf \in Confs /\ disk = [d \in Dirs |-> {}]
  /\ pc = "conf" /\ result = "none" /\ suite = <<>> /\ loops = <<>> /\ phase = 1 /\ left = <<>>
  /\ proc = 0 /\ parent = [coll |-> FreshMem, main_ua |-> 0] /\ main_ua = 0 /\ uas = 0
  /\ prepared = 0 /\ run_nr = 0 /\ arena = "none" /\ log_file = "none" /\ entry = Dir("", 0, "")
  /\ coll = FreshMem /\ thread = NoThreads /\ faults = 0 /\ drained = TRUE

(* A process is killed: what it had not flushed is cut off.                *)
Dies ==
  /\ disk' = Settled(disk, "cut")
  /\ thread' = NoThreads /\ log_file' = "none" /\ arena' = "none" /\ proc' = 0
  /\ coll' = parent.coll /\ main_ua' = parent.main_ua
  /\ CASE ~Forked -> pc' = "over" /\ result' = "killed" /\ UNCHANGED suite
       [] Forked /\ Head(suite) # "sdhs" -> pc' = "forked" /\ UNCHANGED <<result, suite>>
       [] Forked /\ Head(suite) = "sdhs" -> pc' = "test" /\ suite' = Tail(suite) /\ UNCHANGED result
  /\ drained' = TRUE
  /\ UNCHANGED <<start, conf, loops, phase, left, parent, uas, prepared, run_nr, entry>>

Return(r) == pc' = "over" /\ result' = r /\ disk' = Settled(disk, "whole")

run_tests ==
  /\ pc = "conf"
  /\ \/ conf.enabled /\ suite' = conf.suite /\ pc' = "test" /\ UNCHANGED <<result, disk>>
     \/ ~conf.enabled /\ Return("disabled") /\ UNCHANGED suite
  /\ UNCHANGED <<coll, thread, start, conf, loops, phase, left, process, faults, drained>>

TestsDone ==
  /\ pc = "test" /\ suite = <<>> /\ Return("passed")
  /\ UNCHANGED <<coll, thread, start, conf, suite, loops, phase, left, process, faults, drained>>

(* get_test_definition returns NULL and the caller follows it.             *)
UnknownTest ==
  /\ pc = "test" /\ suite # <<>> /\ Head(suite) \notin {"arena", "malloc", "sdhs"}
  /\ Dies /\ NoFault

(* Two strings that stay, and the file of the frequency, whose failure     *)
(* keeps the string of its name as well.                                   *)
prepare_logging ==
  /\ pc = "test" /\ suite # <<>> /\ Head(suite) \in {"arena", "malloc", "sdhs"}
  /\ LET dir == LogDir(Head(suite))
     IN  /\ run_nr' = get_next_run_nr(dir)
         /\ \/ /\ NoFault /\ main_ua' = main_ua + 2
               /\ disk' = Saved(dir, File(run_nr', "tsc_freq.bin"))
            \/ /\ Fault /\ main_ua' = main_ua + 3 /\ UNCHANGED disk
  /\ prepared' = main_ua' /\ pc' = "logged"
  /\ UNCHANGED <<coll, thread, control, proc, parent, uas, arena, log_file, entry, drained>>

(* Appending makes the log if there is none.                               *)
Logged ==
  LET dir == LogDir(Head(suite))
  IN  IF \E f \in disk[dir] : f.nr = run_nr /\ f.name = "log.txt" THEN disk
      ELSE Saved(dir, File(run_nr, "log.txt"))

(* Closing the log that could not be opened kills the process.             *)
arena_test ==
  /\ pc = "logged" /\ Head(suite) = "arena"
  /\ \/ /\ NoFault /\ loops' = Product(ArenaFns) /\ pc' = "loop"
        /\ disk' = Saved(LogDir("arena"), File(run_nr, "log.txt"))
        /\ UNCHANGED <<coll, thread, start, conf, result, suite, phase, left, process, drained>>
     \/ Fault /\ Dies

malloc_test ==
  /\ pc = "logged" /\ Head(suite) = "malloc"
  /\ loops' = Product(MallocFns) /\ pc' = "loop"
  /\ UNCHANGED <<coll, thread, start, conf, result, suite, phase, left, process, disk, faults, drained>>

-----------------------------------------------------------------------------
(* tight_loop_test.                                                        *)
Measured == Loop.fn \in ToSet(ArenaFns)
Room(need) == Measured => arena = "made" /\ AtLeast(lm_mem_sz_from_string(conf.text), need)

LoopsDone ==
  /\ pc = "loop" /\ loops = <<>> /\ suite' = Tail(suite) /\ pc' = "test"
  /\ UNCHANGED <<coll, thread, start, conf, result, loops, phase, left, process, disk, faults, drained>>

(* The assertion looks at the largest size only.                           *)
Enough == Measured => AtLeast(lm_mem_sz_from_string(conf.text), Last(SizesOf[Loop.class]) * Iterations)

tight_loop_test ==
  /\ pc = "loop" /\ loops # <<>>
  /\ \/ /\ Enough /\ uas' = main_ua /\ phase' = 1
        /\ pc' = (IF conf.debugger THEN "child" ELSE "forked")
        /\ parent' = [coll |-> coll, main_ua |-> main_ua]
        /\ UNCHANGED <<coll, thread, start, conf, result, suite, loops, left, proc, main_ua, prepared, run_nr,
                       arena, log_file, entry, disk, drained>>
     \/ ~Enough /\ Dies
  /\ NoFault

(* Fault: the block of the second child is entered again.                  *)
ForkAgain ==
  /\ pc = "forked" /\ NoFault /\ pc' = "child" /\ phase' = phase + 1
  /\ proc' = 1 /\ parent' = [coll |-> coll, main_ua |-> main_ua]
  /\ UNCHANGED <<coll, thread, start, conf, result, suite, loops, left, main_ua, uas, prepared, run_nr, arena,
                 log_file, entry, disk, drained>>

(* Two children after each other; the parent waits and ignores their end.  *)
Fork ==
  /\ pc = "forked" /\ phase <= 2
  /\ \/ /\ NoFault /\ pc' = "child" /\ phase' = phase + 1
        /\ proc' = 1 /\ parent' = [coll |-> coll, main_ua |-> main_ua]
     \/ /\ Fault /\ phase' = phase + 1 /\ UNCHANGED <<pc, proc, parent>>
  /\ UNCHANGED <<coll, thread, start, conf, result, suite, loops, left, main_ua, uas, prepared, run_nr, arena,
                 log_file, entry, disk, drained>>

(* Fault: the scratch is not released.                                     *)
LoopEndsKeeping ==
  /\ pc = "forked" /\ phase = 3
  /\ loops' = Tail(loops) /\ pc' = "loop"
  /\ UNCHANGED <<coll, thread, start, conf, result, suite, phase, left, process, disk, faults, drained>>

LoopEnds ==
  /\ pc = "forked" /\ phase = 3
  /\ main_ua' = uas /\ loops' = Tail(loops) /\ pc' = "loop"
  /\ UNCHANGED <<coll, thread, start, conf, result, suite, phase, left, proc, parent, uas, prepared, run_nr,
                 arena, log_file, entry, disk, faults, drained>>

(* The log, the arena under test, and which measurement comes first.       *)
ChildStarts ==
  /\ pc = "child"
  /\ \/ NoFault /\ log_file' = "open" /\ disk' = Logged /\ arena' = (IF Measured THEN "made" ELSE "none")
     \/ Fault /\ log_file' = "failed" /\ UNCHANGED disk /\ arena' = (IF Measured THEN "made" ELSE "none")
     \/ Fault /\ log_file' = "open" /\ disk' = Logged /\ Measured /\ arena' = "none"
  /\ IF Forked /\ phase = 3 THEN pc' = "all" /\ UNCHANGED left
                            ELSE pc' = "each" /\ left' = SizesOf[Loop.class]
  /\ UNCHANGED <<coll, thread, start, conf, result, suite, loops, phase, proc, parent, main_ua, uas,
                 prepared, run_nr, entry, drained>>

(* Allocations until one returns NULL, through which the test writes.      *)
Measure(need, arr, dir, n) ==
  /\ \/ /\ Room(need) /\ pc' = "write" /\ entry' = dir
        /\ coll' = Timed(init_alloc_tcoll(coll, arr), dir, n)
        /\ UNCHANGED <<thread, start, conf, result, suite, loops, phase, left, proc, parent, main_ua,
                       uas, prepared, run_nr, arena, log_file, disk, drained>>
     \/ ~Room(need) /\ Dies
  /\ NoFault

(* One array for all the sizes of the class.                               *)
each_size_by_itself ==
  /\ pc = "each" /\ left # <<>>
  /\ LET s == Head(left) dir == Dir(Loop.fn, s, "")
     IN  Measure(s * Iterations, IF left = SizesOf[Loop.class] THEN Blank ELSE coll.arr, dir, Iterations)

(* Fault: the loop over the sizes stops before the last one.               *)
EachEndsEarly ==
  /\ pc = "each" /\ Len(left) <= 1
  /\ pc' = (IF Forked THEN "close" ELSE "all")
  /\ UNCHANGED <<coll, thread, control, process, disk, faults, drained>>

EachEnds ==
  /\ pc = "each" /\ left = <<>>
  /\ pc' = (IF Forked THEN "close" ELSE "all")
  /\ UNCHANGED <<coll, thread, control, process, disk, faults, drained>>

all_sizes_repeatedly ==
  /\ pc = "all"
  /\ LET dir == Dir(Loop.fn, 0, Loop.class)
     IN  Measure(SizeSum(Loop.class) * Iterations, Blank, dir, Iterations * Len(SizesOf[Loop.class]))

-----------------------------------------------------------------------------
(* write_data_to_file, and the end of SdhsMain, which does the same.       *)
Written == pc' = (IF entry.size # 0 THEN "each" ELSE IF entry.fn = "sdhs" THEN "sdhs end" ELSE "close")
           /\ left' = (IF entry.size # 0 THEN Tail(left) ELSE left)

(* Returning early, without releasing the scratch.                         *)
WriteFails ==
  /\ Fault /\ main_ua' = main_ua + 1 /\ Written

OpenEntry ==
  /\ pc = "write"
  /\ \/ /\ NoFault /\ pc' = "body" /\ UNCHANGED <<left, main_ua>>
        /\ disk' = Saved(entry, [File(get_next_run_nr(entry), "bin") EXCEPT
                                   !.iter = coll.iter, !.count = coll.cur, !.fate = "open",
                                   !.drained = drained])
     \/ WriteFails /\ UNCHANGED disk
  /\ UNCHANGED <<coll, thread, start, conf, result, suite, loops, phase, proc, parent, uas, prepared, run_nr,
                 arena, log_file, entry, drained>>

(* fopen fails, and fwrite is called with NULL.                            *)
OpenFails == pc = "write" /\ Fault /\ Dies

(* The number of timings is read again for the array.                      *)
WriteBody ==
  /\ pc = "body"
  /\ \E f \in disk[entry] :
       /\ f.nr = get_next_run_nr(entry) - 1
       /\ \/ /\ NoFault /\ Written /\ UNCHANGED main_ua
             /\ disk' = Saved(entry, [f EXCEPT !.data = [i \in 1 .. coll.cur |-> coll.arr[i - 1]]])
          \/ /\ WriteFails
             /\ disk' = Saved(entry, [f EXCEPT !.fate = "failed"])
  /\ UNCHANGED <<coll, thread, start, conf, result, suite, loops, phase, proc, parent, uas, prepared, run_nr,
                 arena, log_file, entry, drained>>

-----------------------------------------------------------------------------
(* The end of a measurement.                                               *)

(* Fault: the child leaves with _exit.                                     *)
ChildExitsUnflushed ==
  /\ disk' = disk /\ coll' = parent.coll /\ main_ua' = parent.main_ua
  /\ proc' = 0 /\ pc' = "forked" /\ UNCHANGED phase

ChildExits ==
  /\ disk' = Settled(disk, "whole") /\ coll' = parent.coll /\ main_ua' = parent.main_ua
  /\ proc' = 0 /\ pc' = "forked" /\ UNCHANGED phase

CloseLog ==
  /\ pc = "close" /\ NoFault
  /\ \/ /\ log_file = "open" /\ log_file' = "none" /\ arena' = "none"
        /\ \/ Forked /\ ChildExits
           \/ ~Forked /\ pc' = "forked" /\ phase' = 3 /\ UNCHANGED <<disk, coll, main_ua, proc>>
        /\ UNCHANGED <<thread, start, conf, result, suite, loops, left, parent, uas, prepared, run_nr, entry, drained>>
     \/ log_file = "failed" /\ Dies

-----------------------------------------------------------------------------
(* The sdhs test.                                                          *)
sdhs_test ==
  /\ pc = "logged" /\ Head(suite) = "sdhs"
  /\ parent' = [coll |-> coll, main_ua |-> main_ua] /\ proc' = (IF conf.debugger THEN 0 ELSE 1)
  /\ pc' = "sdhs"
  /\ UNCHANGED <<coll, thread, start, conf, result, suite, loops, phase, left, main_ua, uas, prepared, run_nr,
                 arena, log_file, entry, disk, faults, drained>>

ForkSdhsFails ==
  /\ pc = "logged" /\ Head(suite) = "sdhs" /\ ~conf.debugger
  /\ Fault /\ pc' = "over" /\ result' = "failed" /\ disk' = Settled(disk, "whole")
  /\ UNCHANGED <<coll, thread, start, conf, suite, loops, phase, left, process, drained>>

(* A failing setup exits the process, also the one of the benchmark.       *)
SdhsStarts ==
  /\ pc = "sdhs"
  /\ \/ /\ NoFault /\ pc' = "sdhs run"
        /\ coll' = init_alloc_tcoll_dynamic(coll) /\ thread' = StartThreads
        /\ UNCHANGED <<result, disk, main_ua, proc, suite>>
     \/ /\ Fault /\ UNCHANGED thread
        /\ \/ Forked /\ ChildExits /\ pc' = "test" /\ suite' = Tail(suite) /\ UNCHANGED result
           \/ ~Forked /\ Return("failed") /\ UNCHANGED <<coll, main_ua, proc, suite>>
  /\ UNCHANGED <<start, conf, loops, phase, left, parent, uas, prepared, run_nr, arena, log_file, entry, drained>>

SdhsThread ==
  /\ pc # "over"
  /\ \E t \in Threads : ThreadStep(t)
  /\ UNCHANGED <<control, pc, process, disk, faults, drained>>

(* TgManagerWaitForAll also returns on a shutdown, with threads running.   *)
SdhsWaits ==
  /\ pc = "sdhs run" /\ pc' = "write" /\ entry' = Sdhs
  /\ \/ ThreadsDone /\ NoFault /\ drained' = TRUE
     \/ ~ThreadsDone /\ Fault /\ drained' = FALSE
  /\ UNCHANGED <<coll, thread, control, proc, parent, main_ua, uas, prepared, run_nr, arena, log_file, disk>>

SdhsEnds ==
  /\ pc = "sdhs end" /\ suite' = Tail(suite) /\ pc' = "test" /\ drained' = (Forked \/ drained)
  /\ thread' = (IF Forked THEN NoThreads ELSE thread)
  /\ \/ Forked /\ disk' = Settled(disk, "whole") /\ coll' = parent.coll /\ main_ua' = parent.main_ua /\ proc' = 0
     \/ ~Forked /\ UNCHANGED <<disk, coll, main_ua, proc>>
  /\ UNCHANGED <<start, conf, result, loops, phase, left, parent, uas, prepared, run_nr, arena, log_file, entry, faults>>

Restart ==
  /\ pc = "over" /\ start < conf.starts
  /\ start' = start + 1 /\ UNCHANGED <<conf, disk>>
  /\ pc' = "conf" /\ result' = "none" /\ suite' = <<>> /\ loops' = <<>> /\ phase' = 1 /\ left' = <<>>
  /\ proc' = 0 /\ parent' = [coll |-> FreshMem, main_ua |-> 0] /\ main_ua' = 0 /\ uas' = 0
  /\ prepared' = 0 /\ run_nr' = 0 /\ arena' = "none" /\ log_file' = "none" /\ entry' = Dir("", 0, "")
  /\ coll' = FreshMem /\ thread' = NoThreads /\ faults' = 0 /\ drained' = TRUE

Terminated == pc = "over" /\ start = conf.starts /\ UNCHANGED benchVars

BenchNext ==
  \/ run_tests \/ TestsDone \/ UnknownTest \/ prepare_logging \/ arena_test \/ malloc_test
  \/ LoopsDone \/ tight_loop_test \/ Fork \/ LoopEnds \/ ChildStarts \/ each_size_by_itself
  \/ EachEnds \/ all_sizes_repeatedly \/ OpenEntry \/ OpenFails \/ WriteBody \/ CloseLog
  \/ sdhs_test \/ ForkSdhsFails \/ SdhsStarts \/ SdhsThread \/ SdhsWaits \/ SdhsEnds
  \/ Restart \/ Terminated

BenchSpec == BenchInit /\ [][BenchNext]_benchVars
-----------------------------------------------------------------------------
(* Properties.                                                             *)
Timings == Dirs \cup {Zero}
Result == [nr : Nat, name : {"bin", "tsc_freq.bin", "log.txt"}, start : Nat, proc : {0, 1}, iter : Nat, count : Nat,
           data : Seq(Timings), fate : {"open", "whole", "cut", "failed"}, drained : BOOLEAN]
Statics == [iter : Nat, cur : 0 .. Cells, arr : [0 .. Cells - 1 -> Timings]]

(* The variables hold what their names say; no process writes a timing     *)
(* outside the array it gave to init_alloc_tcoll.                          *)
BenchTypeOK ==
  /\ conf \in Confs /\ start \in 1 .. conf.starts /\ suite \in Seq(STRING)
  /\ pc \in {"conf", "test", "logged", "loop", "forked", "child", "each", "all", "write", "body",
             "close", "sdhs", "sdhs run", "sdhs end", "over"}
  /\ result \in {"none", "disabled", "passed", "failed", "killed"}
  /\ loops \in Seq([fn : Fns, class : ToSet(Classes)]) /\ phase \in 1 .. 3 /\ left \in Seq(Nat \ {0})
  /\ proc \in {0, 1} /\ parent \in [coll : Statics, main_ua : Nat] /\ entry \in Dirs \cup {Dir("", 0, "")}
  /\ main_ua \in Nat /\ uas \in Nat /\ prepared \in Nat /\ run_nr \in Nat
  /\ arena \in {"none", "made"} /\ log_file \in {"none", "open", "failed"}
  /\ coll \in Statics /\ thread \in [Threads -> Thread]
  /\ disk \in [Dirs -> SUBSET Result] /\ \A d \in Dirs : IsFiniteSet(disk[d])
  /\ faults \in 0 .. MaxFaults /\ drained \in BOOLEAN

(* A file of results is never written over by a later measurement, of the  *)
(* same start or of another one (get_next_run_nr, fopen with "wb").        *)
NoOverwrite ==
  [][\A d \in Dirs : \A f \in disk[d] :
       \E g \in disk'[d] : /\ g.nr = f.nr /\ g.name = f.name /\ g.start = f.start
                           /\ f.fate # "open" => g = f]_benchVars

(* A file that was flushed holds exactly the timings of the measurement it *)
(* is named after, unless a data handler left threads running in the same  *)
(* process, and in a forked process its total counts no other process's    *)
(* allocations (init_alloc_tcoll, write_alloc_timing_data_to_file).        *)
DataIsTests ==
  \A d \in Dirs : \A f \in disk[d] :
    f.name = "bin" /\ d # Sdhs /\ f.fate = "whole" /\ f.drained =>
      /\ f.count = Len(f.data) /\ ToSet(f.data) = {d}
      /\ f.count = Iterations * (IF d.size # 0 THEN 1 ELSE Len(SizesOf[d.class]))
      /\ f.proc = 1 => \E c \in ToSet(Classes) : f.iter <= Iterations * Len(SizesOf[c])

(* Threads that race for the next cell lose timings but leave no hole: in  *)
(* a forked data handler whose threads had ended, every timing of the file *)
(* is one, and there are no more than allocations (add_timing).            *)
SdhsTimings ==
  \A f \in disk[Sdhs] :
    f.fate = "whole" /\ f.drained /\ f.proc = 1 =>
      /\ f.count = Len(f.data) /\ ToSet(f.data) = {Sdhs}
      /\ f.count <= Total /\ f.iter \in 1 .. Total

(* No file waits to be flushed by a process that has gone: the files are   *)
(* never closed and rely on exit (write_alloc_timing_data_to_file).        *)
FilesSettled ==
  \A d \in Dirs : \A f \in disk[d] :
    f.fate = "open" => f.start = start /\ f.proc = proc /\ pc # "over"

(* However its measurements return, tight_loop_test leaves main_ua where   *)
(* it was (the early returns of write_data_to_file release nothing).       *)
ScratchRestored == pc = "loop" => main_ua = prepared

(* A start that reports success, met no failing call and has an arena for  *)
(* every size and for the sum of the sizes has left every file it was      *)
(* asked for: run_tests does not look at how the children ended.           *)
Roomy ==
  \A c \in ToSet(Classes) : \A need \in {SizeSum(c)} \cup ToSet(SizesOf[c]) :
    AtLeast(lm_mem_sz_from_string(conf.text), need * Iterations)

Has(d) == \E f \in disk[d] : f.start = start /\ f.name = "bin" /\ f.fate = "whole"
HasAll(fns) ==
  \A l \in ToSet(Product(fns)) :
    Has(Dir(l.fn, 0, l.class)) /\ \A s \in ToSet(SizesOf[l.class]) : Has(Dir(l.fn, s, ""))

ResultsPresent ==
  pc = "over" /\ result = "passed" /\ faults = 0 /\ Roomy =>
    \A t \in ToSet(conf.suite) :
      (t = "arena" => HasAll(ArenaFns)) /\ (t = "malloc" => HasAll(MallocFns)) /\ (t = "sdhs" => Has(Sdhs))

(* The files of results are what their names say: flushed by the process   *)
(* that wrote them, with the timings of their own measurement.             *)
FilesRight == FilesSettled /\ DataIsTests /\ SdhsTimings

(* Types, and the scratch memory of the program.                           *)
BenchInv == BenchTypeOK /\ ScratchRestored
=============================================================================
