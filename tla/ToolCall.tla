------------------------------ MODULE ToolCall ------------------------------
(***************************************************************************)
(* A tool call from the names it is given to its reply (server.py), over   *)
(* the scheduler that all calls share (pool.py).                           *)
(*                                                                         *)
(*   resolve the names -> get the scheduler -> one task per host           *)
(*        -> collect the results -> reply                                  *)
(*                                                                         *)
(* A read tool's tasks run on the scheduler's executor; _run_batch and     *)
(* capture_stop make an executor of their own for each call.  All of them  *)
(* borrow connections from the scheduler's pools.  An exclusive tool locks *)
(* each host for its task, capture_start locks its path there until        *)
(* capture_stop frees it.  What happens inside a task, a pool or a request *)
(* is the matter of BatchRun, TargetPool and Conversation.                 *)
(***************************************************************************)
EXTENDS TargetLocks, FiniteSets, SequencesExt

CONSTANTS
    Calls,       \* calls, each in a thread of its own; also names of schedulers
    CAPTURE,     \* capture_start
    READ, STOP,  \* the tools that take no lock; STOP is capture_stop
    Requests,    \* the target arguments of calls, sequences of hosts and tags
    Tables,      \* contents of the registry: for each tag, one host per row
    None,        \* no scheduler or job
    MaxWorkers,  \* MAX_GLOBAL_CONCURRENCY, and the 50 of an executor of a call
    MaxConn,     \* MAX_CONN_PER_TARGET
    MaxHosts,    \* length of the longest resolved request
    Scenarios    \* sets of faults, one of which applies to each behaviour

(***************************************************************************)
(* race    first calls find no scheduler at the same time                  *)
(* fails   a host cannot be reached, or what it is asked to do fails       *)
(***************************************************************************)
FaultKinds == {"race", "fails"}

ASSUME ScenariosAssumption == Scenarios \subseteq SUBSET FaultKinds
ASSUME BoundsAssumption ==
    MaxWorkers \in Nat \ {0} /\ MaxConn \in Nat \ {0} /\ MaxHosts \in Nat
ASSUME CallsAssumption == IsFiniteSet(Calls)
ASSUME ToolsAssumption ==
    /\ {READ, STOP, CAPTURE} \cap ExclusiveClasses = {}
    /\ CAPTURE \notin {READ, STOP} /\ READ # STOP

VARIABLES
    faults,      \* the faults of this behaviour
    scheduler,   \* the singleton
    pc, job,     \* where each call is; its tool, path, hosts and scheduler
    task,        \* task[<<c, i>>]: where c's task for its i-th host is, and its ok
    queue,       \* queue[e]: tasks that wait for a thread of executor e
    lent,        \* lent[s][t]: connections lent by scheduler s's pool of t
    alone        \* calls that have the bridge, and hosts nobody captures, to themselves

vars == <<locks, faults, scheduler, pc, job, task, queue, lent, alone>>

Tools == {READ, STOP, CAPTURE} \cup ExclusiveClasses
Executors == {"own", "shared"} \X Calls
Tasks == Calls \X (1 .. MaxHosts)
Absent == [at |-> "absent", ok |-> TRUE]
New == [at |-> "new", ok |-> TRUE]
Running == {"lock", "borrow", "call", "unlock"}
Places == Running \cup {"absent", "new", "queued", "done"}

Hosts(c) == job[c].hosts
Executor(c) == IF job[c].tool = READ THEN <<"shared", job[c].scheduler>> ELSE <<"own", c>>
Exclusive(c) == job[c].tool \in ExclusiveClasses
Capturing(c) == job[c].tool = CAPTURE
Locking(c) == Exclusive(c) \/ Capturing(c)
TasksOf(c) == {c} \X DOMAIN Hosts(c)
Goes(c, where) == pc' = [pc EXCEPT ![c] = where]

\* Of a task: the call it belongs to and the host it is for.
Caller(k) == k[1]
Host(k) == Hosts(k[1])[k[2]]
Path(k) == job[k[1]].path
Moves(k, where, ok) == task' = [task EXCEPT ![k] = [at |-> where, ok |-> ok]]

\* Registry.resolve: a tag stands for the host of each of its rows, an unknown
\* tag for none.  _run_batch resolves once more what names only hosts by then.
Resolve(request, table) ==
    FlattenSeq([i \in DOMAIN request |->
                  IF request[i] \in Targets THEN <<request[i]>> ELSE table[request[i]]])

HostLists == {hosts \in Seq(Targets) : Len(hosts) <= MaxHosts}
Jobs == [tool : Tools, path : Paths, hosts : HostLists, scheduler : Calls \cup {None}]

ASSUME ResolveAssumption ==
    \A request \in Requests, table \in Tables : Resolve(request, table) \in HostLists
ASSUME NoneAssumption ==
    None \notin Calls \cup Jobs \cup [tool : Tools, path : Paths, hosts : HostLists]

Init ==
    /\ LocksInit
    /\ faults \in Scenarios
    /\ scheduler = None
    /\ pc = [c \in Calls |-> "idle"]
    /\ job = [c \in Calls |-> None]
    /\ task = [k \in Tasks |-> Absent]
    /\ queue = [e \in Executors |-> <<>>]
    /\ lent = [s \in Calls |-> [t \in Targets |-> 0]]
    /\ alone = {}

----------------------------------------------------------------------------
(* The call                                                                *)

\* A call that the whitelist or its arguments refuse returns before this.  The
\* path matters to the capture tools only.
Begin(c, tool, path, request, table) ==
    /\ pc[c] = "idle"
    /\ job' = [job EXCEPT ![c] = [tool |-> tool, path |-> path,
                                  hosts |-> Resolve(request, table), scheduler |-> None]]
    /\ Goes(c, "schedule")
    /\ alone' = IF /\ \A d \in Calls : pc[d] = "idle"
                   /\ \A k \in TasksOf(c)' : locks[Host(k)'].captures = {}
                THEN {c} ELSE {}
    /\ UNCHANGED <<locks, faults, scheduler, task, queue, lent>>

\* The call's tasks begin to exist when it has its scheduler.
FansOut(c, s) ==
    /\ job' = [job EXCEPT ![c].scheduler = s]
    /\ task' = [k \in Tasks |-> IF k \in TasksOf(c) THEN New ELSE task[k]]
    /\ Goes(c, "fanout")

\* get_scheduler: without a lock around the test and the assignment.
FindScheduler(c) ==
    /\ pc[c] = "schedule"
    /\ IF scheduler = None
       THEN /\ "race" \in faults \/ \A d \in Calls : pc[d] # "create"
            /\ Goes(c, "create")
            /\ UNCHANGED <<job, task>>
       ELSE FansOut(c, scheduler)
    /\ UNCHANGED <<locks, faults, scheduler, queue, lent, alone>>

\* A name for c's new scheduler: one that no other call's scheduler has.
NewScheduler(c) ==
    CHOOSE s \in Calls : \A d \in Calls \ {c} : job[d] # None => job[d].scheduler # s

\* (Faulty variant: the singleton is not kept.)
CreateSchedulerAnew(c) ==
    /\ pc[c] = "create"
    /\ FansOut(c, NewScheduler(c))
    /\ UNCHANGED <<locks, faults, scheduler, queue, lent, alone>>

CreateScheduler(c) ==
    /\ pc[c] = "create"
    /\ scheduler' = NewScheduler(c)
    /\ Goes(c, "schedule")
    /\ UNCHANGED <<locks, faults, job, task, queue, lent, alone>>

\* Tasks are submitted in the order of the hosts.
Submit(k) ==
    /\ task[k].at = "new"
    /\ \A i \in 1 .. k[2] - 1 : task[<<Caller(k), i>>].at # "new"
    /\ queue' = [queue EXCEPT ![Executor(Caller(k))] = Append(@, k)]
    /\ Moves(k, "queued", TRUE)
    /\ UNCHANGED <<locks, faults, scheduler, pc, job, lent, alone>>

\* as_completed is through.
Complete(c) == \A k \in TasksOf(c) : task[k].at = "done"

Collect(c) ==
    /\ pc[c] = "fanout" /\ Complete(c)
    /\ Goes(c, "reply")
    /\ UNCHANGED <<locks, faults, scheduler, job, task, queue, lent, alone>>

Reply(c) ==
    /\ pc[c] = "reply"
    /\ Goes(c, "idle")
    /\ job' = [job EXCEPT ![c] = None]
    /\ task' = [k \in Tasks |-> IF k \in TasksOf(c) THEN Absent ELSE task[k]]
    /\ alone' = alone \ {c}
    /\ UNCHANGED <<locks, faults, scheduler, queue, lent>>

----------------------------------------------------------------------------
(* A task                                                                  *)

\* Threads of e at work.
Busy(e) == Cardinality({k \in Tasks : task[k].at \in Running /\ Executor(Caller(k)) = e})

Start(e) ==
    /\ queue[e] # <<>> /\ Busy(e) < MaxWorkers
    /\ LET k == Head(queue[e])
       IN Moves(k, IF Locking(Caller(k)) THEN "lock" ELSE "borrow", TRUE)
    /\ queue' = [queue EXCEPT ![e] = Tail(@)]
    /\ UNCHANGED <<locks, faults, scheduler, pc, job, lent, alone>>

\* The lock that the task's tool needs: its path's, or the host's.
Free(k) ==
    IF Capturing(Caller(k)) THEN CaptureFree(Host(k), Path(k)) ELSE ExclusiveFree(Host(k))

Acquire(k) ==
    IF Capturing(Caller(k)) THEN AcquireCapture(Host(k), Path(k))
                            ELSE AcquireExclusive(Host(k), job[Caller(k)].tool)

\* (Faulty variant: a task that finds the lock taken frees it all the same.)
TakeLockOrFree(k) ==
    /\ task[k].at = "lock"
    /\ IF Free(k) THEN Acquire(k) /\ Moves(k, "borrow", TRUE)
                  ELSE UNCHANGED locks /\ Moves(k, "unlock", FALSE)
    /\ UNCHANGED <<faults, scheduler, pc, job, queue, lent, alone>>

TakeLock(k) ==
    /\ task[k].at = "lock"
    /\ IF Free(k) THEN Acquire(k) /\ Moves(k, "borrow", TRUE)
                  ELSE UNCHANGED locks /\ Moves(k, "done", FALSE)
    /\ UNCHANGED <<faults, scheduler, pc, job, queue, lent, alone>>

\* Connections lent by the pool k borrows from.
Pool(k) == lent[job[Caller(k)].scheduler][Host(k)]
PoolBecomes(k, n) ==
    lent' = [lent EXCEPT ![job[Caller(k)].scheduler][Host(k)] = n]

Borrow(k) ==
    /\ task[k].at = "borrow" /\ Pool(k) < MaxConn
    /\ PoolBecomes(k, Pool(k) + 1)
    /\ Moves(k, "call", TRUE)
    /\ UNCHANGED <<locks, faults, scheduler, pc, job, queue, alone>>

\* The pool is exhausted for borrow_timeout, or the connection is refused.  The
\* task of a capture_stop ends here, and the lock that it is to free stays.
\* (Faulty variants: the lock is kept; the wait has no deadline.)
BorrowFailsLocked(k) ==
    /\ task[k].at = "borrow"
    /\ Pool(k) >= MaxConn \/ "fails" \in faults
    /\ Moves(k, "done", FALSE)
    /\ UNCHANGED <<locks, faults, scheduler, pc, job, queue, lent, alone>>

BorrowWaits(k) ==
    /\ task[k].at = "borrow" /\ Pool(k) < MaxConn /\ "fails" \in faults
    /\ Moves(k, "unlock", FALSE)
    /\ UNCHANGED <<locks, faults, scheduler, pc, job, queue, lent, alone>>

BorrowFails(k) ==
    /\ task[k].at = "borrow"
    /\ Pool(k) >= MaxConn \/ "fails" \in faults
    /\ Moves(k, IF job[Caller(k)].tool \in {READ, STOP} THEN "done" ELSE "unlock", FALSE)
    /\ UNCHANGED <<locks, faults, scheduler, pc, job, queue, lent, alone>>

\* What the host is asked to do, well or badly, and the finally that gives the
\* connection back; a read tool's task is then over.
Operation(k) ==
    /\ task[k].at = "call"
    /\ \E ok \in BOOLEAN :
         /\ ok \/ "fails" \in faults
         /\ Moves(k, IF job[Caller(k)].tool = READ THEN "done" ELSE "unlock", ok)
    /\ UNCHANGED <<locks, faults, scheduler, pc, job, queue, alone>>

\* (Faulty variants: the connection is given back twice; one that failed is not
\* given back.)
PerformTwiceBack(k) == Operation(k) /\ PoolBecomes(k, Pool(k) - 2)

PerformHealthyBack(k) ==
    Operation(k) /\ PoolBecomes(k, IF task'[k].ok THEN Pool(k) - 1 ELSE Pool(k))

Perform(k) == Operation(k) /\ PoolBecomes(k, Pool(k) - 1)

\* A capture_start that succeeded keeps its lock for a capture_stop to free,
\* which does so whatever became of its request.
Stops(k) == job[Caller(k)].tool = STOP \/ (Capturing(Caller(k)) /\ ~task[k].ok)

Release(k) ==
    IF Exclusive(Caller(k)) THEN ReleaseExclusive(Host(k), job[Caller(k)].tool)
    ELSE IF Stops(k) THEN ReleaseCapture(Host(k), Path(k))
    ELSE UNCHANGED locks

Finish(k) ==
    /\ task[k].at = "unlock"
    /\ Release(k)
    /\ Moves(k, "done", task[k].ok)
    /\ UNCHANGED <<faults, scheduler, pc, job, queue, lent, alone>>

Step(k) ==
    \/ Submit(k) \/ TakeLock(k) \/ Borrow(k) \/ BorrowFails(k)
    \/ Perform(k) \/ Finish(k)

Main(c) ==
    \/ FindScheduler(c) \/ CreateScheduler(c) \/ Collect(c) \/ Reply(c)

Next ==
    \/ \E c \in Calls :
         \/ \E tool \in Tools, path \in Paths, request \in Requests, table \in Tables :
              Begin(c, tool, path, request, table)
         \/ Main(c)
    \/ \E k \in Tasks : Step(k)
    \/ \E e \in Executors : Start(e)

Spec == Init /\ [][Next]_vars

\* Calls and threads run; executors start tasks in the order of submission.
FairSpec ==
    /\ Spec
    /\ \A c \in Calls : WF_vars(Main(c))
    /\ \A k \in Tasks : WF_vars(Step(k))
    /\ \A e \in Executors : WF_vars(Start(e))

----------------------------------------------------------------------------
(* Properties                                                              *)

Holding == {"borrow", "call", "unlock"}

\* Every variable has its type, and a task waits in its call's executor.
TypeOK ==
    /\ locks \in [Targets -> TargetLock]
    /\ faults \in Scenarios
    /\ scheduler \in Calls \cup {None}
    /\ pc \in [Calls -> {"idle", "schedule", "create", "fanout", "reply"}]
    /\ job \in [Calls -> Jobs \cup {None}]
    /\ task \in [Tasks -> [at : Places, ok : BOOLEAN]]
    /\ queue \in [Executors -> Seq(Tasks)]
    /\ \A e \in Executors : \A n \in DOMAIN queue[e] :
         task[queue[e][n]].at = "queued" /\ Executor(Caller(queue[e][n])) = e
    /\ lent \in [Calls -> [Targets -> 0 .. MaxConn]]
    /\ alone \subseteq Calls

\* "One target's concurrent connections, shared by all tool calls"
\* (config.example.yaml:71-74): calls have executors of their own and together
\* still use at most MaxConn connections to a target, unless first calls raced
\* for the scheduler.
Connected(t) == {k \in Tasks : task[k].at = "call" /\ Host(k) = t}

ConnectionsBounded ==
    "race" \notin faults => \A t \in Targets : Cardinality(Connected(t)) <= MaxConn

\* When no call is under way no host is locked but for capture sessions, no
\* connection is lent and no task waits, whatever failed before and however often
\* a host was named.
NothingKept ==
    (\A c \in Calls : pc[c] = "idle") =>
        /\ \A t \in Targets : locks[t].holder = NoHolder /\ locks[t].count = 0
        /\ \A s \in Calls, t \in Targets : lent[s][t] = 0
        /\ \A e \in Executors : queue[e] = <<>>

\* Calls wait for tasks, tasks for threads of an executor and for connections that
\* tasks of other calls have, but never all of them for each other: while a call
\* is under way somebody can go on who waits for nothing, and no wait for a
\* connection has to be given up (borrow_timeout) to make it so.
CallGoesOn(c) ==
    \/ pc[c] = "schedule" /\ \A d \in Calls : pc[d] # "create"
    \/ pc[c] = "fanout" /\ Complete(c)
    \/ pc[c] \in {"create", "reply"}

TaskGoesOn(k) ==
    \/ task[k].at \in {"new", "lock", "call", "unlock"}
    \/ task[k].at = "borrow" /\ Pool(k) < MaxConn

NeverStuck ==
    \/ \A c \in Calls : pc[c] = "idle"
    \/ \E c \in Calls : CallGoesOn(c)
    \/ \E k \in Tasks : TaskGoesOn(k)
    \/ \E e \in Executors : queue[e] # <<>> /\ Busy(e) < MaxWorkers

\* A call that had the bridge for itself, and hosts that nobody captured, reached
\* every host it named, though a tag may name a host once for each of its rows
\* (registry.py:102) and all but one of its tasks then find the host locked by
\* their own call.
LoneCallServed ==
    \A c \in alone :
        pc[c] = "reply" /\ "fails" \notin faults =>
            \A k \in TasksOf(c) : \E l \in TasksOf(c) : Host(l) = Host(k) /\ task[l].ok

\* After such a call of capture_start a host's path is locked exactly when the
\* reply counts a capture of that host as started: tasks that found it locked by
\* their own call, or that failed, neither leave a lock behind nor free the one
\* that the started capture keeps ("kept for stop if it succeeds",
\* server.py:219).
LockMatchesReply ==
    \A c \in alone :
        pc[c] = "reply" /\ Capturing(c) =>
            \A k \in TasksOf(c) :
                Path(k) \in locks[Host(k)].captures <=>
                    \E l \in TasksOf(c) : Host(l) = Host(k) /\ task[l].ok

\* Calls keep the promise of HostAccess: work is connected while it has a
\* connection, decided when it has given it back, and has its host for itself from
\* its lock to its release; a path is captured while it is locked.
Request(c) ==
    IF job[c] = None THEN None
    ELSE [tool |-> job[c].tool, path |-> job[c].path, hosts |-> job[c].hosts]

Work(k) ==
    IF task[k].at = "call" THEN "connected"
    ELSE IF task[k].at \notin {"unlock", "done"} THEN "open"
    ELSE IF task[k].ok THEN "done" ELSE "failed"

Inside(k) == task[k].at \in Holding /\ Locking(Caller(k))

Promise == INSTANCE HostAccess WITH
    HostLists <- {Resolve(request, table) : request \in Requests, table \in Tables},
    bounded <- "race" \notin faults,
    failing <- "fails" \in faults,
    request <- [c \in Calls |-> Request(c)],
    work <- [k \in Tasks |-> Work(k)],
    claimed <- {k \in Tasks : Inside(k)},
    captured <- [t \in Targets |-> locks[t].captures]

ImplementsHostAccess == Promise!Spec

\* Every call replies: although calls share threads and connections, none waits
\* for others for ever.
CallReplies == \A c \in Calls : pc[c] # "idle" ~> pc[c] = "idle"

=============================================================================
