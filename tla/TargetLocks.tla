---------------------------- MODULE TargetLocks ----------------------------
(***************************************************************************)
(* The bridge's fail-fast lock manager (locks.py): for every target one    *)
(* TargetLock, which is held either by any number of capture sessions,     *)
(* each under its own key, or by one exclusive operation.                  *)
(*                                                                         *)
(* Every TargetLock method runs under the object's own mutex, so each is   *)
(* one atomic step.  LockManager creates a target's TargetLock on its      *)
(* first acquisition and never removes it; a missing entry and an entry    *)
(* nobody holds answer every call alike, so locks is a total function.     *)
(* The module is a component: it declares the state and its operations,    *)
(* and BatchRun says who calls them.                                       *)
(***************************************************************************)
EXTENDS Naturals

CONSTANTS
    Targets,           \* the lock manager's dictionary keys (target strings)
    Paths,             \* the pcap paths of the capture keys, (path,) in the code
    ExclusiveClasses,  \* the lock classes that exclude everything on a target
    NoHolder           \* _exclusive_holder = None

ASSUME NoHolderAssumption == NoHolder \notin ExclusiveClasses

VARIABLE locks         \* locks[t]: the TargetLock of target t

TargetLock == [captures : SUBSET Paths,
               holder   : ExclusiveClasses \cup {NoHolder},
               count    : Nat]

Unlocked == [captures |-> {}, holder |-> NoHolder, count |-> 0]

LocksInit == locks = [t \in Targets |-> Unlocked]

----------------------------------------------------------------------------

\* TargetLock._acquire_capture: no exclusive holder and a key nobody captures.
\* (Faulty variant: the holder is not tested.)
CaptureFreeWhateverHolder(t, p) == p \notin locks[t].captures

CaptureFree(t, p) ==
    /\ locks[t].holder = NoHolder
    /\ p \notin locks[t].captures

AcquireCapture(t, p) ==
    /\ CaptureFree(t, p)
    /\ locks' = [locks EXCEPT ![t].captures = @ \cup {p}]

\* TargetLock._release_capture: pop(key, None), whoever the caller is.
ReleaseCapture(t, p) ==
    locks' = [locks EXCEPT ![t].captures = @ \ {p}]

\* TargetLock._acquire_exclusive: neither an exclusive holder nor a capture.
\* (Faulty variant: the holder is not tested.)
ExclusiveFreeWhateverHolder(t) == locks[t].captures = {}

ExclusiveFree(t) ==
    /\ locks[t].holder = NoHolder
    /\ locks[t].captures = {}

AcquireExclusive(t, c) ==
    /\ ExclusiveFree(t)
    /\ locks' = [locks EXCEPT ![t].holder = c, ![t].count = @ + 1]

\* The body of _release_exclusive once the caller's class is the holder's.
Lowered(lock) ==
    [captures |-> lock.captures,
     count    |-> lock.count - 1,
     holder   |-> IF lock.count - 1 <= 0 THEN NoHolder ELSE lock.holder]

\* TargetLock._release_exclusive: it compares lock classes, not callers.
ReleaseExclusive(t, c) ==
    locks' = IF locks[t].holder = c
             THEN [locks EXCEPT ![t] = Lowered(@)]
             ELSE locks

============================================================================
