----------------------------- MODULE KernelModule -----------------------------
(***************************************************************************)
(* What the two kernel modules have in common: the registration of their   *)
(* character device and the rounding of sizes to pages.                    *)
(***************************************************************************)
EXTENDS Integers, Sequences, FiniteSets, FiniteSetsExt

CONSTANTS
  Procs,      \* the processes
  Page,       \* PAGE_SIZE
  MaxRequest, \* bound on the sizes asked for
  MaxRegions  \* bound on the number of calls of vmalloc

ASSUME KernelAssumption ==
  Page \in Nat \ {0} /\ MaxRequest \in Nat /\ MaxRegions \in Nat

VARIABLE registered  \* what the module has registered with the kernel

Sizes == 0 .. MaxRequest
PAGE_ALIGN(n) == ((n + Page - 1) \div Page) * Page

Steps == <<"region", "class", "device", "cdev">>
Registered == {Steps[i] : i \in 1 .. 4}

(* Fault: a failing cdev_add leaves the class behind.                      *)
UndoneButClass == <<{}, {"region"}, {"class", "region"}, {"device", "region"}>>

(* What karena_init takes back when step i fails.                          *)
Undone == <<{}, {"region"}, {"class", "region"}, {"device", "class", "region"}>>

karena_init ==
  /\ registered = {}
  /\ \/ registered' = Registered
     \/ \E i \in 1 .. 4 : registered' = {Steps[j] : j \in 1 .. i - 1} \ Undone[i]

karena_exit == registered = Registered /\ registered' = {}
=============================================================================
