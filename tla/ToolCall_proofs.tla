--------------------------- MODULE ToolCall_proofs ---------------------------
(***************************************************************************)
(* Safety of the tool calls over the scheduler they share, for any number  *)
(* of calls, hosts, threads and connections and every registry content.    *)
(***************************************************************************)
EXTENDS ToolCall, FiniteSetTheorems, SequenceTheorems, TLAPS

----------------------------------------------------------------------------
(* The inductive invariant                                                 *)

Fanned == {"fanout", "reply"}
Working == Running \cup {"queued"}

\* A call has a job while it is under way, and its tasks exist from the fan-out
\* to the reply; they are done when the results have been collected.
CallShape ==
    /\ \A c \in Calls : IF pc[c] = "idle" THEN job[c] = None ELSE job[c] \in Jobs
    /\ \A c \in Calls : pc[c] \in Fanned => job[c].scheduler \in Calls
    /\ \A k \in Tasks :
         task[k].at # "absent" <=> pc[Caller(k)] \in Fanned /\ k \in TasksOf(Caller(k))
    /\ \A k \in Tasks : pc[Caller(k)] = "reply" => task[k].at \in {"done", "absent"}

\* A task has not failed before its request or its wait for a connection is over;
\* only tasks of locking tools try a lock; no task waits twice.
TaskShape ==
    /\ \A k \in Tasks : ~task[k].ok => task[k].at \in {"unlock", "done"}
    /\ \A k \in Tasks : task[k].at = "lock" => Locking(Caller(k))
    /\ \A e \in Executors : \A m, n \in DOMAIN queue[e] :
         queue[e][m] = queue[e][n] => m = n

\* A host's exclusive lock is held by exactly the one task that has taken it.
Holds(k) == Inside(k) /\ Exclusive(Caller(k))

LocksInv ==
    /\ \A t \in Targets : locks[t].count = IF locks[t].holder = NoHolder THEN 0 ELSE 1
    /\ \A t \in Targets :
         locks[t].holder # NoHolder => \E k \in Tasks : Holds(k) /\ Host(k) = t
    /\ \A k \in Tasks : Holds(k) => locks[Host(k)].holder = job[Caller(k)].tool
    /\ \A k, l \in Tasks : Holds(k) /\ Holds(l) /\ Host(k) = Host(l) => k = l

\* A pool has lent as many connections as there are tasks that use one of it.
Borrowers(s, t) ==
    {k \in Tasks : task[k].at = "call" /\ job[Caller(k)].scheduler = s /\ Host(k) = t}

LentInv == \A s \in Calls, t \in Targets : lent[s][t] = Cardinality(Borrowers(s, t))

\* Without a race one call creates the scheduler and all calls use that one.
SchedulerInv ==
    "race" \notin faults =>
        /\ \A c \in Calls : pc[c] \in Fanned => job[c].scheduler = scheduler
        /\ \A c \in Calls : pc[c] = "create" => scheduler = None
        /\ \A c, d \in Calls : pc[c] = "create" /\ pc[d] = "create" => c = d

\* While a lone call is under way no other is.  What one of its tasks failed to
\* do because of another of its tasks, that one does or will do.
Serves(l) ==
    /\ task[l].ok
    /\ \/ task[l].at \in {"call", "unlock", "done"}
       \/ task[l].at = "borrow" /\ Locking(Caller(l))

LoneInv ==
    /\ \A c \in alone : pc[c] # "idle" /\ \A d \in Calls \ {c} : pc[d] = "idle"
    /\ "fails" \notin faults =>
         \A c \in alone : \A k \in TasksOf(c) :
             ~task[k].ok => \E l \in TasksOf(c) : Host(l) = Host(k) /\ Serves(l)

\* Nobody else captures at its hosts.  If it is a capture_start itself, its path is
\* locked at a host by the one task there that has the lock or has kept it.
Keeps(k) == Inside(k) \/ (task[k].at = "done" /\ task[k].ok)

LoneLocks ==
    \A c \in alone :
        /\ Exclusive(c) => \A k \in TasksOf(c) : locks[Host(k)].captures = {}
        /\ Capturing(c) =>
             /\ \A k \in TasksOf(c) :
                  job[c].path \in locks[Host(k)].captures <=>
                      \E l \in TasksOf(c) : Host(l) = Host(k) /\ Keeps(l)
             /\ \A k, l \in TasksOf(c) : Keeps(k) /\ Keeps(l) /\ Host(k) = Host(l) => k = l

Inv ==
    /\ TypeOK /\ CallShape /\ TaskShape
    /\ LocksInv /\ LentInv /\ SchedulerInv /\ LoneInv /\ LoneLocks

----------------------------------------------------------------------------
(* Tasks                                                                   *)

LEMMA Distinct ==
    /\ None \notin Calls /\ None \notin Jobs
    /\ {READ, STOP, CAPTURE} \cap ExclusiveClasses = {}
    /\ CAPTURE # READ /\ CAPTURE # STOP /\ READ # STOP
    /\ NoHolder \notin ExclusiveClasses
BY NoneAssumption, ToolsAssumption, NoHolderAssumption

LEMMA TaskPair ==
    ASSUME NEW k \in Tasks
    PROVE  Caller(k) \in Calls /\ k[2] \in 1 .. MaxHosts /\ k = <<Caller(k), k[2]>>
BY DEF Tasks, Caller

\* The tasks of a call that has a job are among Tasks, each for a host.
LEMMA JobTasks ==
    ASSUME NEW c \in Calls, job[c] \in Jobs
    PROVE  /\ job[c].tool \in Tools /\ job[c].path \in Paths
           /\ Hosts(c) \in Seq(Targets)
           /\ DOMAIN Hosts(c) = 1 .. Len(Hosts(c))
           /\ Len(Hosts(c)) \in 0 .. MaxHosts
           /\ \A k \in TasksOf(c) : k \in Tasks /\ Caller(k) = c /\ Host(k) \in Targets
           /\ \A k \in Tasks : k \in TasksOf(c) <=> Caller(k) = c /\ k[2] \in DOMAIN Hosts(c)
<1>1. /\ job[c].tool \in Tools /\ job[c].path \in Paths
      /\ Hosts(c) \in Seq(Targets) /\ Len(Hosts(c)) <= MaxHosts
  BY DEF Jobs, HostLists, Hosts
<1>2. Len(Hosts(c)) \in Nat /\ DOMAIN Hosts(c) = 1 .. Len(Hosts(c))
  BY <1>1, LenProperties
<1>3. \A i \in DOMAIN Hosts(c) : i \in 1 .. MaxHosts /\ Hosts(c)[i] \in Targets
  BY <1>1, <1>2, ElementOfSeq, BoundsAssumption
<1>4. \A k \in TasksOf(c) : k \in Tasks /\ Caller(k) = c /\ Host(k) \in Targets
  BY <1>3 DEF TasksOf, Tasks, Caller, Host
<1>5. \A k \in Tasks : k \in TasksOf(c) <=> Caller(k) = c /\ k[2] \in DOMAIN Hosts(c)
  BY DEF TasksOf, Tasks, Caller
<1>. QED  BY <1>1, <1>2, <1>4, <1>5, BoundsAssumption

\* A task that exists belongs to a call that has fanned out.
LEMMA Present ==
    ASSUME TypeOK, CallShape, NEW k \in Tasks, task[k].at # "absent"
    PROVE  /\ Caller(k) \in Calls
           /\ pc[Caller(k)] \in Fanned
           /\ job[Caller(k)] \in Jobs
           /\ job[Caller(k)].tool \in Tools /\ Path(k) \in Paths
           /\ job[Caller(k)].scheduler \in Calls
           /\ k \in TasksOf(Caller(k))
           /\ Host(k) \in Targets
           /\ Executor(Caller(k)) \in Executors
<1>1. Caller(k) \in Calls
  BY TaskPair
<1>2. pc[Caller(k)] \in Fanned /\ k \in TasksOf(Caller(k))
  BY DEF CallShape
<1>3. pc[Caller(k)] # "idle"
  BY <1>2 DEF Fanned
<1>4. job[Caller(k)] \in Jobs /\ job[Caller(k)].scheduler \in Calls
  BY <1>1, <1>2, <1>3 DEF CallShape
<1>5. job[Caller(k)].tool \in Tools /\ Path(k) \in Paths /\ Host(k) \in Targets
  BY <1>1, <1>2, <1>4, JobTasks DEF Path, Caller
<1>6. Executor(Caller(k)) \in Executors
  BY <1>1, <1>4 DEF Executor, Executors
<1>. QED  BY <1>1, <1>2, <1>4, <1>5, <1>6

LEMMA TaskType ==
    ASSUME TypeOK, NEW k \in Tasks
    PROVE  /\ task[k].at \in Places /\ task[k].ok \in BOOLEAN
           /\ task[k] = [at |-> task[k].at, ok |-> task[k].ok]
BY DEF TypeOK

\* What the operations of one task change.
LEMMA MovesOne ==
    ASSUME TypeOK, NEW k \in Tasks, NEW where \in Places, NEW ok \in BOOLEAN,
           Moves(k, where, ok)
    PROVE  /\ task' \in [Tasks -> [at : Places, ok : BOOLEAN]]
           /\ task'[k].at = where /\ task'[k].ok = ok
           /\ \A l \in Tasks \ {k} : task'[l] = task[l]
BY DEF TypeOK, Moves

----------------------------------------------------------------------------
(* Steps of calls and of tasks                                             *)

Begins(c) ==
    \E tool \in Tools, path \in Paths, request \in Requests, table \in Tables :
        Begin(c, tool, path, request, table)

CallStep(c) == Begins(c) \/ Main(c)

\* A call's steps leave the locks, the queues and the pools alone, and the job
\* of every task that waits or works.
LEMMA CallStepFrame ==
    ASSUME TypeOK, CallShape, NEW c \in Calls, CallStep(c)
    PROVE  /\ UNCHANGED <<locks, faults, queue, lent>>
           /\ \A k \in Tasks :
                task[k].at \in Working \/ task'[k].at \in Working =>
                  /\ task'[k] = task[k]
                  /\ job'[Caller(k)].tool = job[Caller(k)].tool
                  /\ job'[Caller(k)].path = job[Caller(k)].path
                  /\ job'[Caller(k)].scheduler = job[Caller(k)].scheduler
                  /\ Hosts(Caller(k))' = Hosts(Caller(k))
                  /\ pc'[Caller(k)] \in Fanned
<1>1. UNCHANGED <<locks, faults, queue, lent>>
  BY DEF CallStep, Main, Begins, Begin, FindScheduler, CreateScheduler, Collect, Reply
<1>. SUFFICES ASSUME NEW k \in Tasks, task[k].at \in Working \/ task'[k].at \in Working
              PROVE  /\ task'[k] = task[k]
                     /\ job'[Caller(k)].tool = job[Caller(k)].tool
                     /\ job'[Caller(k)].path = job[Caller(k)].path
                     /\ job'[Caller(k)].scheduler = job[Caller(k)].scheduler
                     /\ Hosts(Caller(k))' = Hosts(Caller(k))
                     /\ pc'[Caller(k)] \in Fanned
  BY <1>1
<1>2. Caller(k) \in Calls
  BY TaskPair
<1>3. task[k].at \in Working => pc[Caller(k)] = "fanout"
  BY <1>2 DEF CallShape, Working, Running, Fanned
<1>4. CASE Begins(c)
  BY <1>2, <1>3, <1>4 DEF Begins, Begin, Goes, TypeOK, Hosts, Fanned
<1>5. CASE FindScheduler(c)
  <2>1. task[k].at \in Working => Caller(k) # c
    BY <1>3, <1>5 DEF FindScheduler
  <2>2. CASE UNCHANGED <<job, task>> /\ Goes(c, "create")
    BY <1>2, <1>3, <2>1, <2>2 DEF Goes, TypeOK, Hosts, Fanned
  <2>3. CASE FansOut(c, scheduler)
    <3>1. task'[k] = IF k \in TasksOf(c) THEN New ELSE task[k]
      BY <2>3 DEF FansOut
    <3>2. k \in TasksOf(c) => Caller(k) = c
      BY DEF TasksOf, Caller
    <3>3. New.at \notin Working
      BY DEF New, Working, Running
    <3>4. task'[k] = task[k] /\ Caller(k) # c
      BY <2>1, <3>1, <3>2, <3>3
    <3>. QED  BY <1>2, <1>3, <2>1, <2>3, <3>1, <3>4, <3>3
              DEF FansOut, Goes, TypeOK, Hosts, Fanned
  <2>. QED  BY <1>5, <2>2, <2>3 DEF FindScheduler
<1>6. CASE CreateScheduler(c)
  BY <1>2, <1>3, <1>6 DEF CreateScheduler, Goes, TypeOK, Hosts, Fanned
<1>7. CASE Collect(c)
  BY <1>2, <1>3, <1>7 DEF Collect, Goes, TypeOK, Hosts, Fanned
<1>8. CASE Reply(c)
  <2>1. task'[k] = IF k \in TasksOf(c) THEN Absent ELSE task[k]
    BY <1>8 DEF Reply
  <2>2. Absent.at \notin Working
    BY DEF Absent, Working, Running
  <2>3. task[k].at \in Working /\ task'[k] = task[k]
    <3>1. CASE task'[k].at \in Working
      BY <2>1, <2>2, <3>1
    <3>2. CASE task[k].at \in Working
      <4>1. Caller(k) # c
        BY <1>3, <1>8, <3>2 DEF Reply
      <4>. QED  BY <2>1, <3>2, <4>1 DEF TasksOf, Caller
    <3>. QED  BY <3>1, <3>2
  <2>. QED  BY <1>2, <1>3, <1>8, <2>3 DEF Reply, Goes, TypeOK, Hosts, Fanned
<1>. QED  BY <1>4, <1>5, <1>6, <1>7, <1>8 DEF CallStep, Main

\* A step of a task moves that task alone, which waits in no queue.
LEMMA StepFrame ==
    ASSUME TypeOK, NEW k \in Tasks, Step(k)
    PROVE  /\ UNCHANGED <<faults, scheduler, pc, job, alone>>
           /\ task' \in [Tasks -> [at : Places, ok : BOOLEAN]]
           /\ \A l \in Tasks \ {k} : task'[l] = task[l]
           /\ task[k].at \in Running \cup {"new"}
           /\ task'[k].at \in Working \cup {"done"}
           /\ task'[k].at = "queued" <=> task[k].at = "new"
<1>1. UNCHANGED <<faults, scheduler, pc, job, alone>>
  BY DEF Step, Submit, TakeLock, Borrow, BorrowFails, Perform, Operation, Finish
<1>2. PICK where \in {"queued", "borrow", "call", "unlock", "done"},
           ok \in BOOLEAN :
        /\ Moves(k, where, ok)
        /\ task[k].at \in Running \cup {"new"}
        /\ where = "queued" <=> task[k].at = "new"
  BY TaskType
     DEF Step, Submit, TakeLock, Borrow, BorrowFails, Perform, Operation, Finish, Running
<1>3. where \in Places
  BY DEF Places, Running
<1>. QED  BY <1>1, <1>2, <1>3, MovesOne DEF Working, Running

\* The task an executor starts waited in its queue.
LEMMA StartFrame ==
    ASSUME TypeOK, NEW e \in Executors, Start(e), NEW k, k = Head(queue[e])
    PROVE  /\ UNCHANGED <<locks, faults, scheduler, pc, job, lent, alone>>
           /\ k \in Tasks /\ task[k].at = "queued" /\ Executor(Caller(k)) = e
           /\ task' \in [Tasks -> [at : Places, ok : BOOLEAN]]
           /\ \A l \in Tasks \ {k} : task'[l] = task[l]
           /\ task'[k].at = IF Locking(Caller(k)) THEN "lock" ELSE "borrow"
           /\ task'[k].ok
           /\ queue[e] \in Seq(Tasks) /\ Len(queue[e]) \in Nat \ {0} /\ k = queue[e][1]
<1>1. UNCHANGED <<locks, faults, scheduler, pc, job, lent, alone>>
  BY DEF Start
<1>2. queue[e] \in Seq(Tasks) /\ queue[e] # <<>>
  BY DEF Start, TypeOK
<1>3. Len(queue[e]) \in Nat \ {0} /\ k = queue[e][1] /\ k \in Tasks
  BY <1>2, EmptySeq, HeadTailProperties
<1>4. 1 \in DOMAIN queue[e]
  BY <1>2, <1>3, LenProperties
<1>5. task[k].at = "queued" /\ Executor(Caller(k)) = e
  BY <1>3, <1>4 DEF TypeOK
<1>6. PICK where \in {"lock", "borrow"} :
        Moves(k, where, TRUE) /\ where = IF Locking(Caller(k)) THEN "lock" ELSE "borrow"
  BY DEF Start
<1>7. where \in Places
  BY DEF Places, Running
<1>. QED  BY <1>1, <1>2, <1>3, <1>5, <1>6, <1>7, MovesOne

\* Whatever task a step moves existed and was not done; its call's job stays.
WorkStep(k) == Step(k) \/ \E e \in Executors : Start(e) /\ k = Head(queue[e])

LEMMA WorkStepFrame ==
    ASSUME TypeOK, CallShape, NEW k \in Tasks, WorkStep(k)
    PROVE  /\ UNCHANGED <<faults, scheduler, pc, job, alone>>
           /\ task' \in [Tasks -> [at : Places, ok : BOOLEAN]]
           /\ \A l \in Tasks \ {k} : task'[l] = task[l]
           /\ pc[Caller(k)] = "fanout"
           /\ task[k].at \notin {"absent", "done"} /\ task'[k].at # "absent"
<1>1. /\ UNCHANGED <<faults, scheduler, pc, job, alone>>
      /\ task' \in [Tasks -> [at : Places, ok : BOOLEAN]]
      /\ \A l \in Tasks \ {k} : task'[l] = task[l]
      /\ task[k].at \notin {"absent", "done"} /\ task'[k].at # "absent"
  <2>1. CASE Step(k)
    BY <2>1, StepFrame DEF Working, Running
  <2>2. CASE \E e \in Executors : Start(e) /\ k = Head(queue[e])
    BY <2>2, StartFrame
  <2>. QED  BY <2>1, <2>2 DEF WorkStep
<1>. QED  BY <1>1 DEF CallShape, Fanned

\* Every step is one of a call, of a task or of an executor.
LEMMA StepKinds ==
    ASSUME TypeOK, Next
    PROVE  \/ \E c \in Calls : CallStep(c)
           \/ \E k \in Tasks : WorkStep(k)
<1>1. ASSUME NEW e \in Executors, Start(e)
      PROVE  \E k \in Tasks : WorkStep(k)
  BY <1>1, StartFrame DEF WorkStep
<1>. QED  BY <1>1 DEF Next, CallStep, Begins, WorkStep

----------------------------------------------------------------------------
(* Queues                                                                  *)

\* Tasks wait in their call's executor, each once.
QueueShape ==
    /\ queue \in [Executors -> Seq(Tasks)]
    /\ \A e \in Executors : \A n \in DOMAIN queue[e] :
         task[queue[e][n]].at = "queued" /\ Executor(Caller(queue[e][n])) = e
    /\ \A e \in Executors : \A m, n \in DOMAIN queue[e] : queue[e][m] = queue[e][n] => m = n

LEMMA QueueEntry ==
    ASSUME queue \in [Executors -> Seq(Tasks)], NEW e \in Executors, NEW n \in DOMAIN queue[e]
    PROVE  queue[e][n] \in Tasks
BY LenProperties, ElementOfSeq

\* A queue stays in shape while its tasks stay where they are.
LEMMA QueueKept ==
    ASSUME QueueShape, UNCHANGED queue,
           \A k \in Tasks : task[k].at = "queued" =>
               task'[k] = task[k] /\ Executor(Caller(k))' = Executor(Caller(k))
    PROVE  QueueShape'
BY QueueEntry DEF QueueShape

LEMMA SubmitQueue ==
    ASSUME TypeOK, CallShape, QueueShape, NEW k \in Tasks, Submit(k)
    PROVE  QueueShape'
<1>. DEFINE x == Executor(Caller(k))
<1>1. task[k].at = "new" /\ UNCHANGED job /\ queue' = [queue EXCEPT ![x] = Append(@, k)]
  BY DEF Submit
<1>2. x \in Executors
  BY <1>1, Present
<1>3. queue[x] \in Seq(Tasks) /\ Len(queue[x]) \in Nat /\ DOMAIN queue[x] = 1 .. Len(queue[x])
  BY <1>2, LenProperties DEF QueueShape
<1>4. /\ Append(queue[x], k) \in Seq(Tasks)
      /\ Len(Append(queue[x], k)) = Len(queue[x]) + 1
      /\ \A n \in 1 .. Len(queue[x]) : Append(queue[x], k)[n] = queue[x][n]
      /\ Append(queue[x], k)[Len(queue[x]) + 1] = k
  BY <1>3, AppendProperties
<1>5. DOMAIN Append(queue[x], k) = 1 .. Len(queue[x]) + 1
  BY <1>4, LenProperties
<1>6. task'[k].at = "queued" /\ \A l \in Tasks \ {k} : task'[l] = task[l]
  <2>1. Moves(k, "queued", TRUE) /\ "queued" \in Places
    BY DEF Submit, Places
  <2>. QED  BY <2>1, MovesOne
<1>7. UNCHANGED job
  BY <1>1
<1>8. \A e \in Executors : \A n \in DOMAIN queue[e] :
        queue[e][n] \in Tasks /\ queue[e][n] # k /\ task'[queue[e][n]].at = "queued"
  BY <1>1, <1>6, QueueEntry DEF QueueShape
<1>9. queue' \in [Executors -> Seq(Tasks)]
  BY <1>1, <1>2, <1>4 DEF QueueShape
<1>10. ASSUME NEW e \in Executors, NEW n \in DOMAIN queue'[e]
       PROVE  task'[queue'[e][n]].at = "queued" /\ Executor(Caller(queue[e][n]))' = e
  <2>1. CASE e = x
    <3>1. queue'[e] = Append(queue[x], k)
      BY <1>1, <1>2, <2>1 DEF QueueShape
    <3>2. CASE n = Len(queue[x]) + 1
      BY <1>4, <1>6, <1>7, <2>1, <3>1, <3>2 DEF Executor, Caller
    <3>3. CASE n \in 1 .. Len(queue[x])
      <4>1. queue'[e][n] = queue[e][n] /\ n \in DOMAIN queue[e]
        BY <1>3, <1>4, <2>1, <3>1, <3>3
      <4>. QED  BY <1>7, <1>8, <4>1 DEF QueueShape, Executor, Caller
    <3>. QED  BY <1>5, <1>3, <1>10, <3>1, <3>2, <3>3
  <2>2. CASE e # x
    <3>1. queue'[e] = queue[e]
      BY <1>1, <2>2 DEF QueueShape
    <3>. QED  BY <1>7, <1>8, <1>10, <3>1 DEF QueueShape, Executor, Caller
  <2>. QED  BY <2>1, <2>2
<1>11. ASSUME NEW e \in Executors, NEW m \in DOMAIN queue'[e], NEW n \in DOMAIN queue'[e],
              queue'[e][m] = queue'[e][n]
       PROVE  m = n
  <2>1. CASE e = x
    <3>1. queue'[e] = Append(queue[x], k)
      BY <1>1, <1>2, <2>1 DEF QueueShape
    <3>2. m \in 1 .. Len(queue[x]) + 1 /\ n \in 1 .. Len(queue[x]) + 1
      BY <1>5, <1>11, <3>1
    <3>3. \A i \in 1 .. Len(queue[x]) : queue[x][i] # k
      BY <1>2, <1>3, <1>8
    <3>4. \A i, j \in 1 .. Len(queue[x]) : queue[x][i] = queue[x][j] => i = j
      BY <1>2, <1>3 DEF QueueShape
    <3>5. CASE m = Len(queue[x]) + 1 \/ n = Len(queue[x]) + 1
      BY <1>3, <1>4, <1>11, <3>1, <3>2, <3>3, <3>5
    <3>6. CASE m \in 1 .. Len(queue[x]) /\ n \in 1 .. Len(queue[x])
      BY <1>4, <1>11, <3>1, <3>4, <3>6
    <3>. QED  BY <1>3, <3>2, <3>5, <3>6
  <2>2. CASE e # x
    BY <1>1, <1>11, <2>2 DEF QueueShape
  <2>. QED  BY <2>1, <2>2
<1>. QED  BY <1>9, <1>10, <1>11 DEF QueueShape

LEMMA StartQueue ==
    ASSUME TypeOK, QueueShape, NEW e \in Executors, Start(e)
    PROVE  QueueShape'
<1>. DEFINE k == Head(queue[e])
<1>1. /\ UNCHANGED job
      /\ k \in Tasks /\ task[k].at = "queued" /\ Executor(Caller(k)) = e
      /\ \A l \in Tasks \ {k} : task'[l] = task[l]
      /\ queue[e] \in Seq(Tasks) /\ Len(queue[e]) \in Nat \ {0} /\ k = queue[e][1]
  BY StartFrame
<1>2. queue[e] # <<>> /\ queue' = [queue EXCEPT ![e] = Tail(@)]
  BY DEF Start
<1>3. /\ Tail(queue[e]) \in Seq(Tasks)
      /\ Len(Tail(queue[e])) = Len(queue[e]) - 1
      /\ \A i \in 1 .. Len(Tail(queue[e])) : Tail(queue[e])[i] = queue[e][i + 1]
  BY <1>1, <1>2, HeadTailProperties
<1>4. /\ DOMAIN queue[e] = 1 .. Len(queue[e])
      /\ DOMAIN Tail(queue[e]) = 1 .. Len(queue[e]) - 1
  BY <1>1, <1>3, LenProperties
<1>5. UNCHANGED job
  BY <1>1
<1>6. queue' \in [Executors -> Seq(Tasks)]
  BY <1>2, <1>3 DEF QueueShape
<1>7. \A n \in DOMAIN queue'[e] :
        /\ n \in DOMAIN queue[e] /\ n + 1 \in DOMAIN queue[e]
        /\ queue'[e][n] = queue[e][n + 1] /\ queue[e][n + 1] # k
  <2>1. queue'[e] = Tail(queue[e])
    BY <1>2 DEF QueueShape
  <2>2. \A n \in 1 .. Len(queue[e]) - 1 :
          /\ n \in DOMAIN queue[e] /\ n + 1 \in DOMAIN queue[e] /\ 1 \in DOMAIN queue[e]
          /\ Tail(queue[e])[n] = queue[e][n + 1]
    BY <1>1, <1>3, <1>4
  <2>3. \A n \in 1 .. Len(queue[e]) - 1 : queue[e][n + 1] # queue[e][1]
    BY <1>1, <2>2 DEF QueueShape
  <2>. QED  BY <1>1, <1>4, <2>1, <2>2, <2>3
<1>8. \A x \in Executors \ {e} : queue'[x] = queue[x]
  BY <1>2 DEF QueueShape
<1>9. ASSUME NEW x \in Executors, NEW n \in DOMAIN queue'[x]
      PROVE  task'[queue'[x][n]].at = "queued" /\ Executor(Caller(queue[x][n]))' = x
  <2>1. CASE x = e
    <3>1. queue[e][n + 1] \in Tasks
      BY <1>7, <1>9, <2>1, QueueEntry DEF QueueShape
    <3>. QED  BY <1>1, <1>5, <1>7, <1>9, <2>1, <3>1 DEF QueueShape, Executor, Caller
  <2>2. CASE x # e
    <3>1. queue'[x] = queue[x] /\ queue[x][n] \in Tasks
      BY <1>8, <1>9, <2>2, QueueEntry DEF QueueShape
    <3>2. queue[x][n] # k
      BY <1>1, <1>9, <2>2, <3>1 DEF QueueShape
    <3>. QED  BY <1>1, <1>5, <1>9, <3>1, <3>2 DEF QueueShape, Executor, Caller
  <2>. QED  BY <2>1, <2>2
<1>10. ASSUME NEW x \in Executors, NEW m \in DOMAIN queue'[x], NEW n \in DOMAIN queue'[x],
              queue'[x][m] = queue'[x][n]
       PROVE  m = n
  <2>1. CASE x = e
    <3>1. m \in 1 .. Len(queue[e]) - 1 /\ n \in 1 .. Len(queue[e]) - 1
      BY <1>2, <1>4, <1>10, <2>1 DEF QueueShape
    <3>2. m + 1 = n + 1
      BY <1>7, <1>10, <2>1 DEF QueueShape
    <3>. QED  BY <1>1, <3>1, <3>2
  <2>2. CASE x # e
    BY <1>8, <1>10, <2>2 DEF QueueShape
  <2>. QED  BY <2>1, <2>2
<1>. QED  BY <1>6, <1>9, <1>10 DEF QueueShape

LEMMA QueuePreserved ==
    ASSUME TypeOK, CallShape, TaskShape, Next
    PROVE  QueueShape'
<1>1. QueueShape
  BY DEF QueueShape, TypeOK, TaskShape
<1>2. ASSUME NEW c \in Calls, CallStep(c)
      PROVE  QueueShape'
  <2>1. \A k \in Tasks : task[k].at = "queued" =>
          task'[k] = task[k] /\ Executor(Caller(k))' = Executor(Caller(k))
    BY <1>2, CallStepFrame DEF Executor, Working
  <2>. QED  BY <1>1, <1>2, <2>1, CallStepFrame, QueueKept
<1>3. ASSUME NEW k \in Tasks, Step(k), task[k].at # "new"
      PROVE  QueueShape'
  <2>1. UNCHANGED <<queue, job>>
    BY <1>3, StepFrame
       DEF Step, Submit, TakeLock, Borrow, BorrowFails, Perform, Operation, Finish
  <2>2. \A l \in Tasks : task[l].at = "queued" => task'[l] = task[l]
    BY <1>3, StepFrame DEF Running
  <2>. QED  BY <1>1, <2>1, <2>2, QueueKept DEF Executor
<1>4. ASSUME NEW k \in Tasks, Step(k), task[k].at = "new"
      PROVE  QueueShape'
  <2>1. Submit(k)
    BY <1>4 DEF Step, TakeLock, Borrow, BorrowFails, Perform, Operation, Finish
  <2>. QED  BY <1>1, <2>1, SubmitQueue
<1>5. ASSUME NEW e \in Executors, Start(e)
      PROVE  QueueShape'
  BY <1>1, <1>5, StartQueue
<1>. QED  BY <1>2, <1>3, <1>4, <1>5 DEF Next, CallStep, Begins

----------------------------------------------------------------------------
(* Type correctness                                                        *)

LEMMA FansOutTypes ==
    ASSUME TypeOK, NEW c \in Calls, job[c] \in Jobs, NEW s \in Calls, FansOut(c, s)
    PROVE  /\ job' \in [Calls -> Jobs \cup {None}]
           /\ job'[c] \in Jobs /\ job'[c] = [job[c] EXCEPT !.scheduler = s]
           /\ \A d \in Calls \ {c} : job'[d] = job[d]
           /\ task' \in [Tasks -> [at : Places, ok : BOOLEAN]]
           /\ pc' = [pc EXCEPT ![c] = "fanout"]
<1>1. [job[c] EXCEPT !.scheduler = s] \in Jobs
  BY DEF Jobs
<1>2. job' = [job EXCEPT ![c] = [job[c] EXCEPT !.scheduler = s]]
  BY DEF FansOut
<1>3. New \in [at : Places, ok : BOOLEAN]
  BY DEF New, Places, Running
<1>4. task' \in [Tasks -> [at : Places, ok : BOOLEAN]]
  BY <1>3 DEF FansOut, TypeOK
<1>. QED  BY <1>1, <1>2, <1>4 DEF TypeOK, FansOut, Goes

\* There is a name for a new scheduler: the other calls leave one of as many names
\* as there are calls.
LEMMA SchedulerNamed ==
    ASSUME NEW c \in Calls
    PROVE  NewScheduler(c) \in Calls
<1>. DEFINE Others == Calls \ {c}
            used == [d \in Others |-> IF job[d] # None THEN job[d].scheduler ELSE None]
            Used == {used[d] : d \in Others}
<1>1. IsFiniteSet(Others) /\ Cardinality(Others) = Cardinality(Calls) - 1
  BY CallsAssumption, FS_RemoveElement
<1>2. used \in Surjection(Others, Used)
  BY DEF Surjection
<1>3. IsFiniteSet(Used) /\ Cardinality(Used) <= Cardinality(Others)
  BY <1>1, <1>2, FS_Surjection
<1>4. ~(Calls \subseteq Used)
  <2>1. ASSUME Calls \subseteq Used
        PROVE  Cardinality(Calls) <= Cardinality(Used)
    BY <1>3, <2>1, FS_Subset
  <2>. QED  BY <1>1, <1>3, <2>1, CallsAssumption, FS_CardinalityType
<1>5. PICK s \in Calls : s \notin Used
  BY <1>4
<1>6. \A d \in Calls \ {c} : job[d] # None => job[d].scheduler # s
  BY <1>5
<1>. QED  BY <1>6 DEF NewScheduler

LEMMA CallStepTypes ==
    ASSUME TypeOK, CallShape, NEW c \in Calls, CallStep(c)
    PROVE  /\ scheduler' \in Calls \cup {None}
           /\ pc' \in [Calls -> {"idle", "schedule", "create", "fanout", "reply"}]
           /\ job' \in [Calls -> Jobs \cup {None}]
           /\ task' \in [Tasks -> [at : Places, ok : BOOLEAN]]
           /\ alone' \subseteq Calls
<1>1. CASE Begins(c)
  <2>1. PICK tool \in Tools, path \in Paths, request \in Requests, table \in Tables :
          Begin(c, tool, path, request, table)
    BY <1>1 DEF Begins
  <2>2. [tool |-> tool, path |-> path, hosts |-> Resolve(request, table),
         scheduler |-> None] \in Jobs
    BY ResolveAssumption DEF Jobs
  <2>. QED  BY <2>1, <2>2 DEF Begin, Goes, TypeOK
<1>2. CASE FindScheduler(c)
  <2>1. job[c] \in Jobs
    BY <1>2 DEF FindScheduler, CallShape
  <2>2. CASE UNCHANGED <<job, task>> /\ Goes(c, "create")
    BY <1>2, <2>2 DEF FindScheduler, Goes, TypeOK
  <2>3. CASE scheduler # None /\ FansOut(c, scheduler)
    <3>1. scheduler \in Calls
      BY <2>3 DEF TypeOK
    <3>. QED  BY <1>2, <2>1, <2>3, <3>1, FansOutTypes DEF FindScheduler, TypeOK
  <2>. QED  BY <1>2, <2>2, <2>3 DEF FindScheduler
<1>3. CASE CreateScheduler(c)
  <2>1. NewScheduler(c) \in Calls
    BY SchedulerNamed
  <2>. QED  BY <1>3, <2>1 DEF CreateScheduler, Goes, TypeOK
<1>4. CASE Collect(c)
  BY <1>4 DEF Collect, Goes, TypeOK
<1>5. CASE Reply(c)
  <2>1. Absent \in [at : Places, ok : BOOLEAN]
    BY DEF Absent, Places
  <2>2. task' \in [Tasks -> [at : Places, ok : BOOLEAN]]
    BY <1>5, <2>1 DEF Reply, TypeOK
  <2>. QED  BY <1>5, <2>2 DEF Reply, Goes, TypeOK
<1>. QED  BY <1>1, <1>2, <1>3, <1>4, <1>5 DEF CallStep, Main

LEMMA TasksFinite == IsFiniteSet(Tasks)
<1>1. IsFiniteSet(1 .. MaxHosts)
  BY FS_Interval, BoundsAssumption
<1>. QED  BY <1>1, FS_Product, CallsAssumption DEF Tasks

LEMMA BorrowersFinite ==
    ASSUME NEW s, NEW t
    PROVE  IsFiniteSet(Borrowers(s, t)) /\ Cardinality(Borrowers(s, t)) \in Nat
<1>1. Borrowers(s, t) \in SUBSET Tasks
  BY DEF Borrowers
<1>2. IsFiniteSet(Borrowers(s, t))
  BY <1>1, TasksFinite, FS_Subset
<1>. QED  BY <1>2, FS_CardinalityType

\* A task that uses a connection has it from a pool that has lent one.
LEMMA PoolPositive ==
    ASSUME TypeOK, CallShape, LentInv, NEW k \in Tasks, task[k].at = "call"
    PROVE  Pool(k) \in 1 .. MaxConn
<1>. DEFINE s == job[Caller(k)].scheduler
            t == Host(k)
<1>1. s \in Calls /\ t \in Targets
  BY Present
<1>2. k \in Borrowers(s, t)
  BY DEF Borrowers
<1>3. Cardinality(Borrowers(s, t)) # 0
  BY <1>2, BorrowersFinite, FS_EmptySet
<1>. QED  BY <1>1, <1>3 DEF LentInv, TypeOK, Pool

\* Borrowing and giving back keep what every pool has lent within its bound.
LEMMA PoolTypes ==
    ASSUME TypeOK, CallShape, LentInv, NEW k \in Tasks, Borrow(k) \/ Perform(k)
    PROVE  lent' \in [Calls -> [Targets -> 0 .. MaxConn]]
<1>. DEFINE s == job[Caller(k)].scheduler
            t == Host(k)
<1>1. s \in Calls /\ t \in Targets
  BY Present DEF Borrow, Perform, Operation
<1>2. PICK n \in 0 .. MaxConn : lent' = [lent EXCEPT ![s][t] = n]
  <2>1. CASE Borrow(k)
    <3>1. Pool(k) + 1 \in 0 .. MaxConn
      BY <1>1, <2>1, BoundsAssumption DEF Borrow, Pool, TypeOK
    <3>. QED  BY <2>1, <3>1 DEF Borrow, PoolBecomes
  <2>2. CASE Perform(k)
    <3>1. Pool(k) - 1 \in 0 .. MaxConn
      BY <2>2, PoolPositive, BoundsAssumption DEF Perform, Operation
    <3>. QED  BY <2>2, <3>1 DEF Perform, PoolBecomes
  <2>. QED  BY <2>1, <2>2
<1>3. lent \in [Calls -> [Targets -> 0 .. MaxConn]]
  BY DEF TypeOK
<1>. QED  BY <1>1, <1>2, <1>3

\* The lock that is taken, and the one that its holder frees.
LEMMA TakenLock ==
    ASSUME locks \in [Targets -> TargetLock], NEW t \in Targets, NEW tool \in ExclusiveClasses,
           AcquireExclusive(t, tool)
    PROVE  /\ locks' \in [Targets -> TargetLock]
           /\ locks'[t].holder = tool /\ locks'[t].count = locks[t].count + 1
           /\ locks'[t].captures = locks[t].captures
           /\ \A u \in Targets \ {t} : locks'[u] = locks[u]
BY DEF AcquireExclusive, TargetLock

LEMMA FreedLock ==
    ASSUME locks \in [Targets -> TargetLock], NEW t \in Targets, locks[t].count = 1,
           NEW tool, locks[t].holder = tool, ReleaseExclusive(t, tool)
    PROVE  /\ locks' \in [Targets -> TargetLock]
           /\ locks'[t].holder = NoHolder /\ locks'[t].count = 0
           /\ locks'[t].captures = locks[t].captures
           /\ \A u \in Targets \ {t} : locks'[u] = locks[u]
<1>1. locks[t] \in TargetLock /\ Lowered(locks[t]) \in TargetLock
  BY DEF Lowered, TargetLock
<1>2. locks' = [locks EXCEPT ![t] = Lowered(locks[t])]
  BY DEF ReleaseExclusive
<1>3. locks'[t] = Lowered(locks[t]) /\ \A u \in Targets \ {t} : locks'[u] = locks[u]
  BY <1>2
<1>. QED  BY <1>1, <1>2, <1>3 DEF Lowered

\* The same of a path.
LEMMA TakenPath ==
    ASSUME locks \in [Targets -> TargetLock], NEW t \in Targets, NEW p \in Paths,
           AcquireCapture(t, p)
    PROVE  /\ locks' \in [Targets -> TargetLock]
           /\ locks'[t].holder = locks[t].holder /\ locks'[t].count = locks[t].count
           /\ locks'[t].captures = locks[t].captures \cup {p}
           /\ \A u \in Targets \ {t} : locks'[u] = locks[u]
BY DEF AcquireCapture, TargetLock

LEMMA FreedPath ==
    ASSUME locks \in [Targets -> TargetLock], NEW t \in Targets, NEW p \in Paths,
           ReleaseCapture(t, p)
    PROVE  /\ locks' \in [Targets -> TargetLock]
           /\ locks'[t].holder = locks[t].holder /\ locks'[t].count = locks[t].count
           /\ locks'[t].captures = locks[t].captures \ {p}
           /\ \A u \in Targets \ {t} : locks'[u] = locks[u]
BY DEF ReleaseCapture, TargetLock

\* What a task that has tried its lock has done to it.
LEMMA TakeLockCases ==
    ASSUME TypeOK, CallShape, TaskShape, NEW k \in Tasks, TakeLock(k)
    PROVE  \/ /\ Exclusive(Caller(k)) /\ task'[k].at = "borrow" /\ task'[k].ok
              /\ AcquireExclusive(Host(k), job[Caller(k)].tool)
           \/ /\ Capturing(Caller(k)) /\ ~Exclusive(Caller(k))
              /\ task'[k].at = "borrow" /\ task'[k].ok
              /\ AcquireCapture(Host(k), Path(k))
           \/ /\ ~Free(k) /\ UNCHANGED locks
              /\ task'[k].at = "done" /\ ~task'[k].ok
<1>1. Exclusive(Caller(k)) \/ Capturing(Caller(k))
  BY DEF TakeLock, TaskShape, Locking
<1>2. ~(Exclusive(Caller(k)) /\ Capturing(Caller(k)))
  BY Distinct DEF Exclusive, Capturing
<1>3. CASE Free(k)
  <2>1. Acquire(k) /\ Moves(k, "borrow", TRUE)
    BY <1>3 DEF TakeLock
  <2>2. task'[k].at = "borrow" /\ task'[k].ok
    BY <2>1, MovesOne DEF Places, Running
  <2>. QED  BY <1>1, <1>2, <2>1, <2>2 DEF Acquire
<1>4. CASE ~Free(k)
  <2>1. UNCHANGED locks /\ Moves(k, "done", FALSE)
    BY <1>4 DEF TakeLock
  <2>2. task'[k].at = "done" /\ ~task'[k].ok
    BY <2>1, MovesOne DEF Places
  <2>. QED  BY <1>4, <2>1, <2>2
<1>. QED  BY <1>3, <1>4

\* What a task that ends does to it.
LEMMA FinishCases ==
    ASSUME TypeOK, CallShape, NEW k \in Tasks, Finish(k)
    PROVE  /\ task'[k].at = "done" /\ task'[k].ok = task[k].ok
           /\ \/ Exclusive(Caller(k)) /\ ReleaseExclusive(Host(k), job[Caller(k)].tool)
              \/ ~Exclusive(Caller(k)) /\ Stops(k) /\ ReleaseCapture(Host(k), Path(k))
              \/ ~Exclusive(Caller(k)) /\ ~Stops(k) /\ UNCHANGED locks
<1>1. Moves(k, "done", task[k].ok) /\ "done" \in Places /\ task[k].ok \in BOOLEAN
  BY TaskType DEF Finish, Places
<1>2. task'[k].at = "done" /\ task'[k].ok = task[k].ok
  BY <1>1, MovesOne
<1>. QED  BY <1>2 DEF Finish, Release

LEMMA LockTypes ==
    ASSUME TypeOK, CallShape, TaskShape, LocksInv, NEW k \in Tasks,
           TakeLock(k) \/ Finish(k)
    PROVE  locks' \in [Targets -> TargetLock]
<1>. DEFINE t == Host(k)
            tool == job[Caller(k)].tool
<1>1. t \in Targets /\ Path(k) \in Paths /\ locks \in [Targets -> TargetLock]
  BY Present DEF TakeLock, Finish, TypeOK
<1>2. CASE UNCHANGED locks
  BY <1>1, <1>2
<1>3. CASE Exclusive(Caller(k)) /\ AcquireExclusive(t, tool)
  BY <1>1, <1>3, TakenLock DEF Exclusive
<1>4. CASE AcquireCapture(t, Path(k)) \/ ReleaseCapture(t, Path(k))
  BY <1>1, <1>4, TakenPath, FreedPath
<1>5. CASE Exclusive(Caller(k)) /\ ReleaseExclusive(t, tool)
  <2>1. locks[t].holder = tool => locks[t].count = 1
    BY <1>1, <1>5, Distinct DEF LocksInv, Exclusive
  <2>2. CASE locks[t].holder = tool
    BY <1>1, <1>5, <2>1, <2>2, FreedLock
  <2>3. CASE locks[t].holder # tool
    BY <1>1, <1>5, <2>3 DEF ReleaseExclusive
  <2>. QED  BY <2>2, <2>3
<1>. QED  BY <1>2, <1>3, <1>4, <1>5, TakeLockCases, FinishCases

LEMMA TypePreserved ==
    ASSUME Inv, Next
    PROVE  TypeOK'
<1>. USE DEF Inv
<1>1. QueueShape'
  BY QueuePreserved
<1>2. ASSUME NEW c \in Calls, CallStep(c)
      PROVE  TypeOK'
  <2>1. UNCHANGED <<locks, faults, queue, lent>>
    BY <1>2, CallStepFrame
  <2>. QED  BY <1>1, <1>2, <2>1, CallStepTypes DEF TypeOK, QueueShape
<1>3. ASSUME NEW k \in Tasks, WorkStep(k)
      PROVE  TypeOK'
  <2>1. locks' \in [Targets -> TargetLock]
    <3>1. CASE TakeLock(k) \/ Finish(k)
      BY <3>1, LockTypes
    <3>2. CASE ~(TakeLock(k) \/ Finish(k))
      <4>1. UNCHANGED locks
        BY <1>3, <3>2 DEF WorkStep, Step, Submit, Borrow, BorrowFails, Perform, Operation, Start
      <4>. QED  BY <4>1 DEF TypeOK
    <3>. QED  BY <3>1, <3>2
  <2>2. lent' \in [Calls -> [Targets -> 0 .. MaxConn]]
    <3>1. CASE Borrow(k) \/ Perform(k)
      BY <3>1, PoolTypes
    <3>2. CASE ~(Borrow(k) \/ Perform(k))
      <4>1. UNCHANGED lent
        BY <1>3, <3>2 DEF WorkStep, Step, Submit, TakeLock, BorrowFails, Finish, Start
      <4>. QED  BY <4>1 DEF TypeOK
    <3>. QED  BY <3>1, <3>2
  <2>. QED  BY <1>1, <1>3, <2>1, <2>2, WorkStepFrame DEF TypeOK, QueueShape
<1>. QED  BY <1>2, <1>3, StepKinds

----------------------------------------------------------------------------
(* Calls and tasks                                                         *)

LEMMA CallShapePreserved ==
    ASSUME TypeOK, CallShape, Next
    PROVE  CallShape'
<1>1. ASSUME NEW c \in Calls, NEW d \in Calls, c # d, job[d] \in Jobs
      PROVE  TasksOf(c) \cap TasksOf(d) = {}
  BY <1>1 DEF TasksOf
<1>2. ASSUME NEW c \in Calls, CallStep(c)
      PROVE  CallShape'
  <2>1. CASE Begins(c)
    <3>1. PICK tool \in Tools, path \in Paths, request \in Requests, table \in Tables :
            Begin(c, tool, path, request, table)
      BY <2>1 DEF Begins
    <3>2. [tool |-> tool, path |-> path, hosts |-> Resolve(request, table),
           scheduler |-> None] \in Jobs
      BY ResolveAssumption DEF Jobs
    <3>3. /\ pc[c] = "idle" /\ pc'[c] = "schedule" /\ job'[c] \in Jobs
          /\ \A d \in Calls \ {c} : pc'[d] = pc[d] /\ job'[d] = job[d]
          /\ UNCHANGED task
      BY <3>1, <3>2 DEF Begin, Goes, TypeOK
    <3>4. \A k \in Tasks : Caller(k) # c => (TasksOf(Caller(k))' = TasksOf(Caller(k)))
      BY <3>3, TaskPair DEF TasksOf, Hosts
    <3>. QED  BY <3>3, <3>4, TaskPair DEF CallShape, Fanned
  <2>2. CASE FindScheduler(c) /\ scheduler = None
    <3>1. /\ pc[c] = "schedule" /\ pc' = [pc EXCEPT ![c] = "create"] /\ UNCHANGED <<job, task>>
      BY <2>2 DEF FindScheduler, Goes
    <3>. QED  BY <3>1, TaskPair DEF CallShape, Fanned, TypeOK, TasksOf, Hosts
  <2>3. CASE FindScheduler(c) /\ scheduler # None
    <3>1. pc[c] = "schedule" /\ FansOut(c, scheduler) /\ scheduler \in Calls
      BY <2>3 DEF FindScheduler, TypeOK
    <3>2. job[c] \in Jobs
      BY <3>1 DEF CallShape
    <3>3. /\ job'[c] \in Jobs /\ job'[c] = [job[c] EXCEPT !.scheduler = scheduler]
          /\ \A d \in Calls \ {c} : job'[d] = job[d]
          /\ pc' = [pc EXCEPT ![c] = "fanout"]
      BY <3>1, <3>2, FansOutTypes
    <3>4. job'[c].scheduler = scheduler /\ job'[c].hosts = job[c].hosts
      BY <3>2, <3>3 DEF Jobs
    <3>5. \A k \in Tasks : TasksOf(Caller(k))' = TasksOf(Caller(k))
      BY <3>3, <3>4, TaskPair DEF TasksOf, Hosts
    <3>6. \A k \in Tasks :
            task'[k] = IF Caller(k) = c /\ k \in TasksOf(Caller(k)) THEN New ELSE task[k]
      BY <3>1 DEF FansOut, TasksOf, Caller
    <3>7. pc'[c] = "fanout" /\ \A d \in Calls \ {c} : pc'[d] = pc[d]
      BY <3>3 DEF TypeOK
    <3>8. \A k \in Tasks : Caller(k) = c => task[k].at = "absent"
      BY <3>1 DEF CallShape, Fanned
    <3>9. \A d \in Calls : IF pc'[d] = "idle" THEN job'[d] = None ELSE job'[d] \in Jobs
      BY <3>3, <3>7 DEF CallShape
    <3>10. \A d \in Calls : pc'[d] \in Fanned => job'[d].scheduler \in Calls
      BY <3>1, <3>3, <3>4, <3>7 DEF CallShape
    <3>11. ASSUME NEW k \in Tasks
           PROVE  /\ task'[k].at # "absent"
                        <=> pc'[Caller(k)] \in Fanned /\ k \in TasksOf(Caller(k))'
                  /\ pc'[Caller(k)] = "reply" => task'[k].at \in {"done", "absent"}
      <4>1. CASE Caller(k) = c
        BY <3>5, <3>6, <3>7, <3>8, <4>1 DEF Fanned, New
      <4>2. CASE Caller(k) # c
        BY <3>5, <3>6, <3>7, <4>2, TaskPair DEF CallShape
      <4>. QED  BY <4>1, <4>2
    <3>. QED  BY <3>9, <3>10, <3>11 DEF CallShape
  <2>4. CASE CreateScheduler(c)
    <3>1. /\ pc[c] = "create" /\ pc' = [pc EXCEPT ![c] = "schedule"] /\ UNCHANGED <<job, task>>
      BY <2>4 DEF CreateScheduler, Goes
    <3>. QED  BY <3>1, TaskPair DEF CallShape, Fanned, TypeOK, TasksOf, Hosts
  <2>5. CASE Collect(c)
    <3>1. /\ pc[c] = "fanout" /\ pc'[c] = "reply"
          /\ \A d \in Calls \ {c} : pc'[d] = pc[d]
          /\ UNCHANGED <<job, task>>
      BY <2>5 DEF Collect, Goes, TypeOK
    <3>2. \A k \in TasksOf(c) : task[k].at = "done"
      BY <2>5 DEF Collect, Complete
    <3>. QED  BY <3>1, <3>2, TaskPair DEF CallShape, Fanned, TasksOf, Hosts
  <2>6. CASE Reply(c)
    <3>1. /\ pc[c] = "reply" /\ pc'[c] = "idle" /\ job'[c] = None
          /\ \A d \in Calls \ {c} : pc'[d] = pc[d] /\ job'[d] = job[d]
      BY <2>6 DEF Reply, Goes, TypeOK
    <3>2. \A k \in Tasks : Caller(k) # c => (TasksOf(Caller(k))' = TasksOf(Caller(k)))
      BY <3>1, TaskPair DEF TasksOf, Hosts
    <3>3. \A k \in Tasks :
            task'[k] = IF Caller(k) = c /\ k \in TasksOf(Caller(k)) THEN Absent ELSE task[k]
      BY <2>6 DEF Reply, TasksOf, Caller
    <3>4. \A k \in Tasks : Caller(k) = c => task'[k].at = "absent"
      BY <3>1, <3>3 DEF CallShape, Absent
    <3>5. \A k \in Tasks : Caller(k) # c => task'[k] = task[k]
      BY <3>3
    <3>. QED  BY <3>1, <3>2, <3>4, <3>5, TaskPair DEF CallShape, Fanned
  <2>. QED  BY <1>2, <2>1, <2>2, <2>3, <2>4, <2>5, <2>6 DEF CallStep, Main
<1>3. ASSUME NEW k \in Tasks, WorkStep(k)
      PROVE  CallShape'
  <2>1. /\ UNCHANGED <<pc, job>>
        /\ \A l \in Tasks \ {k} : task'[l] = task[l]
        /\ pc[Caller(k)] = "fanout"
        /\ task[k].at # "absent" /\ task'[k].at # "absent"
    BY <1>3, WorkStepFrame
  <2>. QED  BY <2>1 DEF CallShape, Fanned, TasksOf, Hosts
<1>. QED  BY <1>2, <1>3, StepKinds

\* A call's step leaves the other calls alone.
LEMMA OthersKept ==
    ASSUME TypeOK, NEW c \in Calls, CallStep(c)
    PROVE  /\ \A d \in Calls \ {c} : pc'[d] = pc[d] /\ job'[d] = job[d]
           /\ \A k \in Tasks : Caller(k) # c => task'[k] = task[k]
           /\ \A k \in Tasks : task'[k] \in {task[k], New, Absent}
<1>1. \A k \in TasksOf(c) : Caller(k) = c
  BY DEF TasksOf, Caller
<1>2. CASE Begins(c)
  BY <1>2 DEF Begins, Begin, Goes, TypeOK
<1>3. CASE FindScheduler(c)
  BY <1>1, <1>3 DEF FindScheduler, FansOut, Goes, TypeOK
<1>4. CASE CreateScheduler(c)
  BY <1>4 DEF CreateScheduler, Goes, TypeOK
<1>5. CASE Collect(c)
  BY <1>5 DEF Collect, Goes, TypeOK
<1>6. CASE Reply(c)
  BY <1>1, <1>6 DEF Reply, Goes, TypeOK
<1>. QED  BY <1>2, <1>3, <1>4, <1>5, <1>6 DEF CallStep, Main

LEMMA TaskShapePreserved ==
    ASSUME TypeOK, CallShape, TaskShape, Next
    PROVE  TaskShape'
<1>1. \A e \in Executors : \A m, n \in DOMAIN queue'[e] : queue'[e][m] = queue'[e][n] => m = n
  BY QueuePreserved DEF QueueShape
<1>2. ASSUME NEW c \in Calls, CallStep(c)
      PROVE  TaskShape'
  <2>1. \A k \in Tasks : task'[k] \in {task[k], New, Absent}
    BY <1>2, OthersKept
  <2>2. \A k \in Tasks : task'[k].at = "lock" => Locking(Caller(k))'
    <3>1. \A k \in Tasks : task'[k].at = "lock" =>
            task'[k] = task[k] /\ job'[Caller(k)].tool = job[Caller(k)].tool
      BY <1>2, CallStepFrame DEF Working, Running
    <3>. QED  BY <3>1 DEF TaskShape, Locking, Exclusive, Capturing
  <2>3. faults' = faults
    BY <1>2, CallStepFrame
  <2>. QED  BY <1>1, <2>1, <2>2, <2>3 DEF TaskShape, New, Absent
<1>3. ASSUME NEW k \in Tasks, WorkStep(k)
      PROVE  TaskShape'
  <2>1. UNCHANGED <<faults, job>> /\ \A l \in Tasks \ {k} : task'[l] = task[l]
    BY <1>3, WorkStepFrame
  <2>2. /\ ~task'[k].ok => task'[k].at \in {"unlock", "done"}
        /\ task'[k].at = "lock" => Locking(Caller(k))
    <3>1. ASSUME NEW e \in Executors, Start(e), k = Head(queue[e])
          PROVE  task'[k].ok /\ task'[k].at = IF Locking(Caller(k)) THEN "lock" ELSE "borrow"
      BY <3>1, StartFrame
    <3>2. CASE Submit(k) \/ TakeLock(k) \/ Borrow(k) \/ BorrowFails(k) \/ Perform(k)
      <4>1. PICK where \in {"queued", "borrow", "call", "unlock", "done"}, ok \in BOOLEAN :
              Moves(k, where, ok) /\ (ok \/ where \in {"unlock", "done"})
        BY <3>2 DEF Submit, TakeLock, Borrow, BorrowFails, Perform, Operation
      <4>2. task'[k].at = where /\ task'[k].ok = ok
        BY <4>1, MovesOne DEF Places, Running
      <4>. QED  BY <4>1, <4>2
    <3>3. CASE Finish(k)
      BY <3>3, FinishCases
    <3>. QED  BY <1>3, <3>1, <3>2, <3>3 DEF WorkStep, Step
  <2>. QED  BY <1>1, <2>1, <2>2 DEF TaskShape, Locking, Exclusive, Capturing
<1>. QED  BY <1>2, <1>3, StepKinds

----------------------------------------------------------------------------
(* Locks                                                                   *)

LEMMA LocksKept ==
    ASSUME TypeOK, CallShape, LocksInv,
           \A t \in Targets :
             locks'[t].holder = locks[t].holder /\ locks'[t].count = locks[t].count,
           \A k \in Tasks :
             /\ Holds(k)' <=> Holds(k)
             /\ Holds(k) => Host(k)' = Host(k) /\ job'[Caller(k)].tool = job[Caller(k)].tool
    PROVE  LocksInv'
<1>1. \A k \in Tasks : Holds(k) => Host(k) \in Targets
  BY Present DEF Holds, Inside, Holding
<1>. QED  BY <1>1 DEF LocksInv

\* A task that holds an exclusive lock has its host's, for its tool.
LEMMA HoldsLock ==
    ASSUME TypeOK, CallShape, LocksInv, NEW k \in Tasks, Holds(k)
    PROVE  /\ Host(k) \in Targets
           /\ locks[Host(k)].holder = job[Caller(k)].tool
           /\ locks[Host(k)].holder # NoHolder /\ locks[Host(k)].count = 1
<1>1. task[k].at # "absent" /\ job[Caller(k)].tool \in ExclusiveClasses
  BY DEF Holds, Inside, Exclusive, Holding
<1>2. Host(k) \in Targets /\ locks[Host(k)].holder = job[Caller(k)].tool
  BY <1>1, Present DEF LocksInv
<1>. QED  BY <1>1, <1>2, Distinct DEF LocksInv

LEMMA TakeLockLocks ==
    ASSUME TypeOK, CallShape, TaskShape, LocksInv, NEW k \in Tasks, TakeLock(k)
    PROVE  LocksInv'
<1>. DEFINE t == Host(k)
            tool == job[Caller(k)].tool
<1>1. /\ UNCHANGED job /\ \A l \in Tasks \ {k} : task'[l] = task[l]
      /\ task[k].at = "lock"
  BY WorkStepFrame DEF WorkStep, Step, TakeLock
<1>2. t \in Targets /\ Path(k) \in Paths /\ ~Holds(k)
  BY <1>1, Present DEF Holds, Inside, Holding
<1>3. \A l \in Tasks : Host(l)' = Host(l)
  BY <1>1 DEF Host, Hosts
<1>4. \A l \in Tasks \ {k} : Holds(l)' <=> Holds(l)
  BY <1>1 DEF Holds, Inside, Locking, Exclusive, Capturing
<1>5. CASE Exclusive(Caller(k)) /\ task'[k].at = "borrow" /\ AcquireExclusive(t, tool)
  <2>1. tool \in ExclusiveClasses
    BY <1>5 DEF Exclusive
  <2>2. /\ locks'[t].holder = tool /\ locks'[t].count = locks[t].count + 1
        /\ \A u \in Targets \ {t} : locks'[u] = locks[u]
    BY <1>2, <1>5, <2>1, TakenLock DEF TypeOK
  <2>3. Holds(k)'
    BY <1>1, <1>5 DEF Holds, Inside, Locking, Exclusive, Holding
  <2>4. \A l \in Tasks : Holds(l) => Host(l) # t
    BY <1>5, HoldsLock DEF AcquireExclusive, ExclusiveFree
  <2>5. locks[t].count = 0 /\ tool # NoHolder
    BY <1>2, <1>5, <2>1, Distinct DEF LocksInv, AcquireExclusive, ExclusiveFree
  <2>6. \A u \in Targets : locks'[u].count = IF locks'[u].holder = NoHolder THEN 0 ELSE 1
    BY <1>2, <2>2, <2>5 DEF LocksInv
  <2>7. \A u \in Targets :
          locks'[u].holder # NoHolder => \E l \in Tasks : Holds(l)' /\ Host(l)' = u
    BY <1>2, <1>3, <1>4, <2>2, <2>3 DEF LocksInv
  <2>8. \A l \in Tasks : Holds(l)' => locks'[Host(l)'].holder = job'[Caller(l)].tool
    <3>1. \A l \in Tasks \ {k} : Holds(l) => Host(l) \in Targets \ {t}
      BY <2>4, HoldsLock
    <3>. QED  BY <1>1, <1>3, <1>4, <2>2, <3>1 DEF LocksInv
  <2>9. \A l, m \in Tasks : Holds(l)' /\ Holds(m)' /\ Host(l)' = Host(m)' => l = m
    BY <1>3, <1>4, <2>4 DEF LocksInv
  <2>. QED  BY <2>6, <2>7, <2>8, <2>9 DEF LocksInv
<1>6. CASE ~Exclusive(Caller(k)) /\ AcquireCapture(t, Path(k))
  <2>1. \A u \in Targets :
          locks'[u].holder = locks[u].holder /\ locks'[u].count = locks[u].count
    BY <1>2, <1>6, TakenPath DEF TypeOK
  <2>2. ~Holds(k)'
    BY <1>1, <1>6 DEF Holds, Exclusive
  <2>. QED  BY <1>1, <1>2, <1>3, <1>4, <2>1, <2>2, LocksKept
<1>7. CASE UNCHANGED locks /\ task'[k].at = "done"
  <2>1. ~Holds(k)'
    BY <1>7 DEF Holds, Inside, Holding
  <2>. QED  BY <1>1, <1>2, <1>3, <1>4, <1>7, <2>1, LocksKept
<1>. QED  BY <1>5, <1>6, <1>7, TakeLockCases

LEMMA FinishLocks ==
    ASSUME TypeOK, CallShape, TaskShape, LocksInv, NEW k \in Tasks, Finish(k)
    PROVE  LocksInv'
<1>. DEFINE t == Host(k)
            tool == job[Caller(k)].tool
<1>1. /\ UNCHANGED job /\ \A l \in Tasks \ {k} : task'[l] = task[l]
      /\ task[k].at = "unlock" /\ task'[k].at = "done"
  BY WorkStepFrame, FinishCases DEF WorkStep, Step, Finish
<1>2. t \in Targets /\ Path(k) \in Paths
  BY <1>1, Present
<1>3. \A l \in Tasks : Host(l)' = Host(l)
  BY <1>1 DEF Host, Hosts
<1>4. ~Holds(k)' /\ \A l \in Tasks \ {k} : Holds(l)' <=> Holds(l)
  BY <1>1 DEF Holds, Inside, Locking, Exclusive, Capturing, Holding
<1>5. CASE Exclusive(Caller(k)) /\ ReleaseExclusive(t, tool)
  <2>1. Holds(k)
    BY <1>1, <1>5 DEF Holds, Inside, Locking, Holding
  <2>2. locks[t].holder = tool /\ locks[t].count = 1
    BY <2>1, HoldsLock
  <2>3. /\ locks'[t].holder = NoHolder /\ locks'[t].count = 0
        /\ \A u \in Targets \ {t} : locks'[u] = locks[u]
    BY <1>2, <1>5, <2>2, FreedLock DEF TypeOK
  <2>4. \A l \in Tasks \ {k} : Holds(l) => Host(l) \in Targets \ {t}
    BY <2>1, HoldsLock DEF LocksInv
  <2>5. \A u \in Targets : locks'[u].count = IF locks'[u].holder = NoHolder THEN 0 ELSE 1
    BY <1>2, <2>3 DEF LocksInv
  <2>6. \A u \in Targets :
          locks'[u].holder # NoHolder => \E l \in Tasks : Holds(l)' /\ Host(l)' = u
    <3>. SUFFICES ASSUME NEW u \in Targets, locks'[u].holder # NoHolder
                  PROVE  \E l \in Tasks : Holds(l)' /\ Host(l)' = u
      OBVIOUS
    <3>1. u # t /\ locks[u].holder # NoHolder
      BY <1>2, <2>3
    <3>2. PICK l \in Tasks : Holds(l) /\ Host(l) = u
      BY <3>1 DEF LocksInv
    <3>. QED  BY <1>3, <1>4, <3>1, <3>2
  <2>7. \A l \in Tasks : Holds(l)' => locks'[Host(l)'].holder = job'[Caller(l)].tool
    BY <1>1, <1>3, <1>4, <2>3, <2>4 DEF LocksInv
  <2>8. \A l, m \in Tasks : Holds(l)' /\ Holds(m)' /\ Host(l)' = Host(m)' => l = m
    BY <1>3, <1>4 DEF LocksInv
  <2>. QED  BY <2>5, <2>6, <2>7, <2>8 DEF LocksInv
<1>6. CASE ~Exclusive(Caller(k)) /\ (ReleaseCapture(t, Path(k)) \/ UNCHANGED locks)
  <2>1. \A u \in Targets :
          locks'[u].holder = locks[u].holder /\ locks'[u].count = locks[u].count
    BY <1>2, <1>6, FreedPath DEF TypeOK
  <2>2. ~Holds(k)
    BY <1>6 DEF Holds
  <2>. QED  BY <1>1, <1>3, <1>4, <2>1, <2>2, LocksKept
<1>. QED  BY <1>5, <1>6, FinishCases

\* A task of a locking tool stays inside while it gets, uses and gives back its
\* connection; a task of another tool is never inside.
LEMMA StaysInside ==
    ASSUME TypeOK, CallShape, NEW k \in Tasks, Borrow(k) \/ BorrowFails(k) \/ Perform(k)
    PROVE  Inside(k)' <=> Inside(k)
<1>1. UNCHANGED job
  BY DEF Borrow, BorrowFails, Perform, Operation
<1>2. task[k].at \in Holding
  BY DEF Borrow, BorrowFails, Perform, Operation, Holding
<1>3. PICK where \in {"call", "unlock", "done"}, ok \in BOOLEAN :
        /\ Moves(k, where, ok)
        /\ where = "done" => job[Caller(k)].tool \in {READ, STOP}
  BY DEF Borrow, BorrowFails, Perform, Operation
<1>4. task'[k].at = where
  BY <1>3, MovesOne DEF Places, Running
<1>5. Locking(Caller(k)) => where # "done"
  BY <1>3, Distinct DEF Locking, Exclusive, Capturing
<1>6. Locking(Caller(k))' <=> Locking(Caller(k))
  BY <1>1 DEF Locking, Exclusive, Capturing
<1>7. Locking(Caller(k)) => task'[k].at \in Holding
  BY <1>3, <1>4, <1>5 DEF Holding
<1>. QED  BY <1>2, <1>6, <1>7 DEF Inside

LEMMA LocksPreserved ==
    ASSUME TypeOK, CallShape, TaskShape, LocksInv, Next
    PROVE  LocksInv'
<1>1. ASSUME NEW c \in Calls, CallStep(c)
      PROVE  LocksInv'
  <2>1. \A k \in Tasks :
          task[k].at \in Holding \/ task'[k].at \in Holding =>
            /\ task'[k] = task[k]
            /\ job'[Caller(k)].tool = job[Caller(k)].tool
            /\ Hosts(Caller(k))' = Hosts(Caller(k))
    BY <1>1, CallStepFrame DEF Holding, Working, Running
  <2>2. \A k \in Tasks :
          /\ Holds(k)' <=> Holds(k)
          /\ Holds(k) => Host(k)' = Host(k) /\ job'[Caller(k)].tool = job[Caller(k)].tool
    BY <2>1 DEF Holds, Inside, Locking, Exclusive, Capturing, Host, Caller
  <2>. QED  BY <1>1, <2>2, CallStepFrame, LocksKept
<1>2. ASSUME NEW k \in Tasks, WorkStep(k)
      PROVE  LocksInv'
  <2>1. UNCHANGED job /\ \A l \in Tasks \ {k} : task'[l] = task[l]
    BY <1>2, WorkStepFrame
  <2>2. ASSUME UNCHANGED locks, Holds(k)' <=> Holds(k)
        PROVE  LocksInv'
    <3>1. \A l \in Tasks : (Holds(l)' <=> Holds(l)) /\ Host(l)' = Host(l)
      BY <2>1, <2>2 DEF Holds, Inside, Locking, Exclusive, Capturing, Host, Hosts
    <3>. QED  BY <2>1, <2>2, <3>1, LocksKept
  <2>3. ASSUME NEW e \in Executors, Start(e), k = Head(queue[e])
        PROVE  LocksInv'
    <3>1. /\ UNCHANGED locks
          /\ task[k].at = "queued"
          /\ task'[k].at = IF Locking(Caller(k)) THEN "lock" ELSE "borrow"
      BY <2>3, StartFrame
    <3>2. Holds(k)' <=> Holds(k)
      BY <2>1, <3>1 DEF Holds, Inside, Locking, Exclusive, Capturing, Holding
    <3>. QED  BY <2>2, <3>1, <3>2
  <2>4. CASE Submit(k)
    <3>1. UNCHANGED locks /\ task[k].at = "new" /\ task'[k].at = "queued"
      BY <2>4, MovesOne DEF Submit, Places
    <3>. QED  BY <2>2, <3>1 DEF Holds, Inside, Holding
  <2>5. CASE Borrow(k) \/ BorrowFails(k) \/ Perform(k)
    <3>1. UNCHANGED locks
      BY <2>5 DEF Borrow, BorrowFails, Perform, Operation
    <3>2. Holds(k)' <=> Holds(k)
      BY <1>2, <2>1, <2>5, StaysInside DEF Holds, Exclusive
    <3>. QED  BY <2>2, <3>1, <3>2
  <2>. QED  BY <1>2, <2>3, <2>4, <2>5, TakeLockLocks, FinishLocks DEF WorkStep, Step
<1>. QED  BY <1>1, <1>2, StepKinds

----------------------------------------------------------------------------
(* Connections                                                             *)

LEMMA LentPreserved ==
    ASSUME TypeOK, CallShape, TaskShape, LentInv, Next
    PROVE  LentInv'
<1>1. ASSUME NEW c \in Calls, CallStep(c)
      PROVE  LentInv'
  <2>1. UNCHANGED lent
    BY <1>1, CallStepFrame
  <2>2. \A k \in Tasks :
          task[k].at = "call" \/ task'[k].at = "call" =>
            /\ task'[k] = task[k]
            /\ job'[Caller(k)].scheduler = job[Caller(k)].scheduler
            /\ Hosts(Caller(k))' = Hosts(Caller(k))
    BY <1>1, CallStepFrame DEF Working, Running
  <2>3. ASSUME NEW s \in Calls, NEW t \in Targets
        PROVE  Borrowers(s, t)' = Borrowers(s, t)
    BY <2>2 DEF Borrowers, Host, Caller
  <2>. QED  BY <2>1, <2>3 DEF LentInv
<1>2. ASSUME NEW k \in Tasks, WorkStep(k)
      PROVE  LentInv'
  <2>. DEFINE r == job[Caller(k)].scheduler
              h == Host(k)
  <2>1. /\ UNCHANGED job /\ \A l \in Tasks \ {k} : task'[l] = task[l]
        /\ r \in Calls /\ h \in Targets
    BY <1>2, WorkStepFrame, Present
  <2>2. \A l \in Tasks : Host(l)' = Host(l)
    BY <2>1 DEF Host, Hosts
  <2>3. ASSUME NEW s \in Calls, NEW t \in Targets
        PROVE  Borrowers(s, t)' =
                 IF s = r /\ t = h
                 THEN IF task'[k].at = "call" THEN Borrowers(s, t) \cup {k}
                                                    ELSE Borrowers(s, t) \ {k}
                 ELSE Borrowers(s, t)
    BY <2>1, <2>2 DEF Borrowers
  <2>4. k \in Borrowers(r, h) <=> task[k].at = "call"
    BY DEF Borrowers
  <2>5. CASE Borrow(k)
    <3>1. task[k].at = "borrow" /\ task'[k].at = "call"
      BY <2>5, MovesOne DEF Borrow, Places, Running
    <3>2. lent' = [lent EXCEPT ![r][h] = lent[r][h] + 1]
      BY <2>5 DEF Borrow, Pool, PoolBecomes
    <3>3. Cardinality(Borrowers(r, h) \cup {k}) = Cardinality(Borrowers(r, h)) + 1
      BY <2>4, <3>1, BorrowersFinite, FS_AddElement
    <3>4. \A s \in Calls, t \in Targets :
            lent'[s][t] = IF s = r /\ t = h THEN lent[s][t] + 1 ELSE lent[s][t]
      BY <2>1, <3>2 DEF TypeOK
    <3>. QED  BY <2>3, <3>1, <3>3, <3>4 DEF LentInv
  <2>6. CASE Perform(k)
    <3>1. task[k].at = "call" /\ task'[k].at # "call"
      <4>1. PICK where \in {"unlock", "done"}, ok \in BOOLEAN : Moves(k, where, ok)
        BY <2>6 DEF Perform, Operation
      <4>2. task'[k].at = where
        BY <4>1, MovesOne DEF Places, Running
      <4>. QED  BY <2>6, <4>2 DEF Perform, Operation
    <3>2. lent' = [lent EXCEPT ![r][h] = lent[r][h] - 1]
      BY <2>6 DEF Perform, Pool, PoolBecomes
    <3>3. Cardinality(Borrowers(r, h) \ {k}) = Cardinality(Borrowers(r, h)) - 1
      <4>1. k \in Borrowers(r, h) /\ IsFiniteSet(Borrowers(r, h))
        BY <2>4, <3>1, BorrowersFinite
      <4>. QED  BY <4>1, FS_RemoveElement
    <3>4. \A s \in Calls, t \in Targets :
            lent'[s][t] = IF s = r /\ t = h THEN lent[s][t] - 1 ELSE lent[s][t]
      BY <2>1, <3>2 DEF TypeOK
    <3>5. task'[k].at # "call"
      BY <3>1
    <3>6. ASSUME NEW s \in Calls, NEW t \in Targets
          PROVE  lent'[s][t] = Cardinality(Borrowers(s, t)')
      <4>1. CASE s = r /\ t = h
        <5>1. Borrowers(s, t)' = Borrowers(r, h) \ {k}
          BY <2>3, <3>5, <4>1
        <5>2. lent'[s][t] = lent[r][h] - 1 /\ lent[r][h] = Cardinality(Borrowers(r, h))
          BY <2>1, <3>4, <4>1 DEF LentInv
        <5>. QED  BY <3>3, <5>1, <5>2
      <4>2. CASE ~(s = r /\ t = h)
        BY <2>3, <3>4, <4>2 DEF LentInv
      <4>. QED  BY <4>1, <4>2
    <3>. QED  BY <3>6 DEF LentInv
  <2>7. CASE ~Borrow(k) /\ ~Perform(k)
    <3>1. UNCHANGED lent
      BY <1>2, <2>7 DEF WorkStep, Step, Submit, TakeLock, BorrowFails, Finish, Start
    <3>2. task'[k].at = "call" <=> task[k].at = "call"
      <4>1. ASSUME NEW e \in Executors, Start(e), k = Head(queue[e])
            PROVE  task[k].at # "call" /\ task'[k].at # "call"
        BY <4>1, StartFrame
      <4>2. CASE Submit(k) \/ TakeLock(k) \/ BorrowFails(k) \/ Finish(k)
        <5>1. PICK where \in {"queued", "borrow", "unlock", "done"}, ok \in BOOLEAN :
                Moves(k, where, ok)
          BY <4>2, TaskType DEF Submit, TakeLock, BorrowFails, Finish
        <5>2. task'[k].at # "call"
          BY <5>1, MovesOne DEF Places, Running
        <5>3. task[k].at # "call"
          BY <4>2 DEF Submit, TakeLock, BorrowFails, Finish
        <5>. QED  BY <5>2, <5>3
      <4>. QED  BY <1>2, <2>7, <4>1, <4>2 DEF WorkStep, Step
    <3>3. ASSUME NEW s \in Calls, NEW t \in Targets
          PROVE  Borrowers(s, t)' = Borrowers(s, t)
      BY <2>3, <2>4, <3>2
    <3>. QED  BY <3>1, <3>3 DEF LentInv
  <2>. QED  BY <2>5, <2>6, <2>7
<1>. QED  BY <1>1, <1>2, StepKinds

----------------------------------------------------------------------------
(* The scheduler                                                           *)

LEMMA SchedulerPreserved ==
    ASSUME TypeOK, CallShape, SchedulerInv, Next
    PROVE  SchedulerInv'
<1>1. ASSUME NEW c \in Calls, CallStep(c), "race" \notin faults
      PROVE  SchedulerInv'
  <2>1. \A d \in Calls \ {c} : pc'[d] = pc[d] /\ job'[d] = job[d]
    BY <1>1, OthersKept
  <2>2. CASE CreateScheduler(c)
    <3>1. pc[c] = "create" /\ pc'[c] = "schedule"
      BY <2>2 DEF CreateScheduler, Goes, TypeOK
    <3>2. \A d \in Calls : pc[d] \notin Fanned
      BY <1>1, <3>1, Distinct DEF SchedulerInv, CallShape
    <3>3. \A d \in Calls : pc'[d] \notin Fanned /\ pc'[d] # "create"
      BY <1>1, <2>1, <3>1, <3>2 DEF SchedulerInv, Fanned
    <3>. QED  BY <3>3 DEF SchedulerInv
  <2>3. CASE FindScheduler(c) /\ scheduler = None
    <3>1. /\ \A d \in Calls : pc[d] # "create"
          /\ pc'[c] = "create" /\ UNCHANGED <<job, scheduler>>
      BY <1>1, <2>3 DEF FindScheduler, Goes, TypeOK
    <3>. QED  BY <1>1, <2>1, <2>3, <3>1 DEF SchedulerInv, Fanned
  <2>4. CASE FindScheduler(c) /\ scheduler # None
    <3>1. FansOut(c, scheduler) /\ UNCHANGED scheduler /\ scheduler \in Calls /\ job[c] \in Jobs
      BY <2>4 DEF FindScheduler, TypeOK, CallShape
    <3>2. job'[c] = [job[c] EXCEPT !.scheduler = scheduler] /\ pc'[c] = "fanout"
      BY <3>1, FansOutTypes DEF TypeOK
    <3>3. job'[c].scheduler = scheduler
      BY <3>1, <3>2 DEF Jobs
    <3>. QED  BY <1>1, <2>1, <3>1, <3>2, <3>3 DEF SchedulerInv
  <2>5. CASE Begins(c)
    <3>1. pc'[c] = "schedule" /\ UNCHANGED scheduler
      BY <2>5 DEF Begins, Begin, Goes, TypeOK
    <3>. QED  BY <1>1, <2>1, <3>1 DEF SchedulerInv, Fanned
  <2>6. CASE Collect(c)
    <3>1. pc[c] \in Fanned /\ pc'[c] \in Fanned /\ UNCHANGED <<job, scheduler>>
      BY <2>6 DEF Collect, Goes, TypeOK, Fanned
    <3>. QED  BY <1>1, <2>1, <3>1 DEF SchedulerInv, Fanned
  <2>7. CASE Reply(c)
    <3>1. pc'[c] = "idle" /\ UNCHANGED scheduler
      BY <2>7 DEF Reply, Goes, TypeOK
    <3>. QED  BY <1>1, <2>1, <3>1 DEF SchedulerInv, Fanned
  <2>. QED  BY <1>1, <2>2, <2>3, <2>4, <2>5, <2>6, <2>7 DEF CallStep, Main
<1>2. ASSUME NEW c \in Calls, CallStep(c), "race" \in faults
      PROVE  SchedulerInv'
  BY <1>2, CallStepFrame DEF SchedulerInv
<1>3. ASSUME NEW k \in Tasks, WorkStep(k)
      PROVE  SchedulerInv'
  BY <1>3, WorkStepFrame DEF SchedulerInv
<1>. QED  BY <1>1, <1>2, <1>3, StepKinds

----------------------------------------------------------------------------
(* Lone calls                                                              *)

\* All tasks that exist belong to the lone call.
LEMMA OnlyLone ==
    ASSUME TypeOK, CallShape, LoneInv, NEW c \in alone, NEW k \in Tasks, task[k].at # "absent"
    PROVE  Caller(k) = c /\ k \in TasksOf(c)
<1>1. Caller(k) \in Calls /\ pc[Caller(k)] # "idle" /\ k \in TasksOf(Caller(k))
  BY Present DEF Fanned
<1>. QED  BY <1>1 DEF LoneInv

\* An exhausted pool is exhausted by tasks that are connected to the same host.
LEMMA FullPool ==
    ASSUME TypeOK, CallShape, LentInv, NEW k \in Tasks, task[k].at # "absent",
           Pool(k) >= MaxConn
    PROVE  \E m \in Tasks : task[m].at = "call" /\ Host(m) = Host(k)
<1>. DEFINE s == job[Caller(k)].scheduler
            t == Host(k)
<1>1. s \in Calls /\ t \in Targets
  BY Present
<1>2. lent[s][t] = Cardinality(Borrowers(s, t)) /\ lent[s][t] # 0
  BY <1>1, BoundsAssumption DEF LentInv, Pool, TypeOK
<1>3. Borrowers(s, t) # {}
  BY <1>2, FS_EmptySet
<1>. QED  BY <1>3 DEF Borrowers

\* At a host one task of the lone call at most is inside.
LEMMA OneInside ==
    ASSUME Inv, NEW c \in alone, NEW k \in Tasks, NEW l \in Tasks,
           Inside(k), Inside(l), Host(k) = Host(l)
    PROVE  k = l
<1>. USE DEF Inv
<1>1. Caller(k) = c /\ Caller(l) = c /\ k \in TasksOf(c) /\ l \in TasksOf(c)
  BY OnlyLone DEF Inside, Holding
<1>2. CASE Exclusive(c)
  BY <1>1, <1>2 DEF Holds, LocksInv
<1>3. CASE Capturing(c)
  BY <1>1, <1>3 DEF Keeps, LoneLocks
<1>. QED  BY <1>1, <1>2, <1>3 DEF Inside, Locking

\* A lone call's task that has taken the lock gets its connection.
LEMMA LoneHolderBorrows ==
    ASSUME Inv, "fails" \notin faults, NEW c \in alone, NEW k \in Tasks,
           task[k].at = "borrow", Locking(Caller(k))
    PROVE  ~BorrowFails(k)
<1>. USE DEF Inv
<1>1. SUFFICES ASSUME Pool(k) >= MaxConn
               PROVE  FALSE
  BY DEF BorrowFails
<1>2. PICK m \in Tasks : task[m].at = "call" /\ Host(m) = Host(k)
  BY <1>1, FullPool
<1>3. Caller(m) = c /\ Caller(k) = c
  BY <1>2, OnlyLone
<1>4. Inside(m) /\ Inside(k)
  BY <1>2, <1>3 DEF Inside, Holding
<1>. QED  BY <1>2, <1>4, OneInside

LEMMA ServesKept ==
    ASSUME Inv, "fails" \notin faults, NEW c \in alone, NEW k \in Tasks, WorkStep(k), Serves(k)
    PROVE  Serves(k)'
<1>. USE DEF Inv
<1>1. UNCHANGED job
  BY WorkStepFrame
<1>2. ASSUME NEW e \in Executors, Start(e), k = Head(queue[e])
      PROVE  FALSE
  BY <1>2, StartFrame DEF Serves
<1>3. CASE Submit(k) \/ TakeLock(k)
  BY <1>3 DEF Submit, TakeLock, Serves
<1>4. CASE BorrowFails(k)
  <2>1. task[k].at = "borrow" /\ Locking(Caller(k))
    BY <1>4 DEF BorrowFails, Serves
  <2>. QED  BY <1>4, <2>1, LoneHolderBorrows
<1>5. CASE Borrow(k)
  BY <1>5, MovesOne DEF Borrow, Serves, Places, Running
<1>6. CASE Perform(k)
  <2>1. PICK where \in {"unlock", "done"} : Moves(k, where, TRUE)
    BY <1>6 DEF Perform, Operation
  <2>. QED  BY <2>1, MovesOne DEF Serves, Places, Running
<1>7. CASE Finish(k)
  BY <1>7, FinishCases DEF Serves
<1>. QED  BY <1>2, <1>3, <1>4, <1>5, <1>6, <1>7 DEF WorkStep, Step

\* When a task of a lone call fails although nothing does, another serves.
LEMMA FailureServed ==
    ASSUME Inv, "fails" \notin faults, NEW c \in alone, NEW k \in Tasks, WorkStep(k),
           task[k].ok, ~task'[k].ok
    PROVE  \E l \in TasksOf(c) : Host(l) = Host(k) /\ Serves(l) /\ l # k
<1>. USE DEF Inv
<1>1. ASSUME NEW l \in Tasks, l # k, Host(l) = Host(k), task[l].at \in Holding,
             task[l].at = "borrow" => Locking(Caller(l))
      PROVE  \E m \in TasksOf(c) : Host(m) = Host(k) /\ Serves(m) /\ m # k
  <2>1. l \in TasksOf(c)
    BY <1>1, OnlyLone DEF Holding
  <2>2. CASE task[l].ok
    BY <1>1, <2>1, <2>2 DEF Serves, Holding
  <2>3. CASE ~task[l].ok
    <3>1. PICK m \in TasksOf(c) : Host(m) = Host(l) /\ Serves(m)
      BY <2>1, <2>3 DEF LoneInv
    <3>2. m # k
      <4>1. ~Serves(k)
        <5>1. ASSUME Serves(k)
              PROVE  FALSE
          BY <5>1, ServesKept DEF Serves
        <5>. QED  BY <5>1
      <4>. QED  BY <3>1, <4>1
    <3>. QED  BY <1>1, <3>1, <3>2
  <2>. QED  BY <2>2, <2>3
<1>2. CASE TakeLock(k)
  <2>1. task[k].at = "lock" /\ ~Free(k)
    BY <1>2, TakeLockCases DEF TakeLock
  <2>2. Host(k) \in Targets /\ Caller(k) = c /\ k \in TasksOf(c) /\ Locking(c)
    BY <2>1, Present, OnlyLone DEF TaskShape
  <2>3. PICK l \in Tasks : l # k /\ Host(l) = Host(k) /\ Keeps(l) /\ l \in TasksOf(c)
    <3>1. CASE locks[Host(k)].holder # NoHolder
      <4>1. PICK l \in Tasks : Holds(l) /\ Host(l) = Host(k)
        BY <2>2, <3>1 DEF LocksInv
      <4>. QED  BY <2>1, <4>1, OnlyLone DEF Holds, Keeps, Inside, Holding
    <3>2. CASE locks[Host(k)].holder = NoHolder
      <4>1. ~Exclusive(c)
        BY <2>1, <2>2, <3>2, Distinct
        DEF LoneLocks, Free, ExclusiveFree, Exclusive, Capturing
      <4>2. Capturing(c) /\ Path(k) \in locks[Host(k)].captures
        BY <2>1, <2>2, <3>2, <4>1 DEF Free, CaptureFree, Locking
      <4>3. PICK l \in TasksOf(c) : Host(l) = Host(k) /\ Keeps(l)
        BY <2>2, <4>2 DEF LoneLocks, Path, Caller
      <4>4. l \in Tasks
        BY JobTasks DEF LoneInv, CallShape, TypeOK
      <4>5. l # k
        BY <2>1, <4>3 DEF Keeps, Inside, Holding
      <4>. QED  BY <4>3, <4>4, <4>5
    <3>. QED  BY <3>1, <3>2
  <2>4. CASE Inside(l)
    BY <1>1, <2>3, <2>4 DEF Inside
  <2>5. CASE ~Inside(l)
    BY <2>3, <2>5 DEF Keeps, Serves
  <2>. QED  BY <2>4, <2>5
<1>3. CASE BorrowFails(k)
  <2>1. task[k].at = "borrow" /\ Pool(k) >= MaxConn
    BY <1>3 DEF BorrowFails
  <2>2. PICK m \in Tasks : task[m].at = "call" /\ Host(m) = Host(k)
    BY <2>1, FullPool
  <2>3. m # k
    BY <2>1, <2>2
  <2>. QED  BY <1>1, <2>2, <2>3 DEF Holding
<1>4. ASSUME NEW e \in Executors, Start(e), k = Head(queue[e])
      PROVE  FALSE
  BY <1>4, StartFrame
<1>5. CASE Submit(k) \/ Borrow(k) \/ Perform(k)
  <2>1. PICK where \in {"queued", "call", "unlock", "done"} : Moves(k, where, TRUE)
    BY <1>5 DEF Submit, Borrow, Perform, Operation
  <2>. QED  BY <2>1, MovesOne DEF Places, Running
<1>6. CASE Finish(k)
  BY <1>6, FinishCases
<1>. QED  BY <1>2, <1>3, <1>4, <1>5, <1>6 DEF WorkStep, Step

\* The tasks of a call that begins.
LEMMA BegunTasks ==
    ASSUME TypeOK, CallShape, NEW c \in Calls, Begins(c)
    PROVE  /\ pc[c] = "idle" /\ pc'[c] = "schedule" /\ UNCHANGED <<locks, task, faults>>
           /\ alone' \subseteq {c}
           /\ alone' # {} => /\ \A d \in Calls : pc[d] = "idle"
                            /\ \A k \in TasksOf(c)' : locks[Host(k)'].captures = {}
           /\ \A k \in TasksOf(c)' : k \in Tasks /\ Caller(k) = c /\ task[k].at = "absent"
<1>1. PICK tool \in Tools, path \in Paths, request \in Requests, table \in Tables :
        Begin(c, tool, path, request, table)
  BY DEF Begins
<1>2. job'[c] \in Jobs
  <2>1. [tool |-> tool, path |-> path, hosts |-> Resolve(request, table),
         scheduler |-> None] \in Jobs
    BY ResolveAssumption DEF Jobs
  <2>. QED  BY <1>1, <2>1 DEF Begin, TypeOK
<1>3. /\ pc[c] = "idle" /\ pc'[c] = "schedule" /\ UNCHANGED <<locks, task, faults>>
      /\ alone' \subseteq {c}
      /\ alone' # {} => /\ \A d \in Calls : pc[d] = "idle"
                       /\ \A k \in TasksOf(c)' : locks[Host(k)'].captures = {}
  BY <1>1 DEF Begin, Goes, TypeOK
<1>4. DOMAIN job'[c].hosts \subseteq 1 .. MaxHosts
  <2>1. job'[c].hosts \in Seq(Targets) /\ Len(job'[c].hosts) <= MaxHosts
    BY <1>2 DEF Jobs, HostLists
  <2>2. Len(job'[c].hosts) \in Nat /\ DOMAIN job'[c].hosts = 1 .. Len(job'[c].hosts)
    BY <2>1, LenProperties
  <2>. QED  BY <2>1, <2>2, BoundsAssumption
<1>5. \A k \in TasksOf(c)' : k \in Tasks /\ Caller(k) = c
  BY <1>4 DEF TasksOf, Hosts, Tasks, Caller
<1>. QED  BY <1>3, <1>5 DEF CallShape, Fanned

LEMMA LonePreserved ==
    ASSUME Inv, Next
    PROVE  LoneInv'
<1>. USE DEF Inv
<1>1. ASSUME NEW c \in Calls, CallStep(c)
      PROVE  LoneInv'
  <2>1. /\ \A d \in Calls \ {c} : pc'[d] = pc[d]
        /\ \A k \in Tasks : task'[k] \in {task[k], New, Absent}
    BY <1>1, OthersKept
  <2>2. CASE Begins(c)
    <3>1. \A d \in alone' : d = c /\ pc'[d] # "idle" /\ \A e \in Calls \ {d} : pc'[e] = "idle"
      BY <2>1, <2>2, BegunTasks
    <3>2. \A k \in TasksOf(c)' : task'[k].ok
      BY <2>2, BegunTasks DEF TaskShape
    <3>. QED  BY <3>1, <3>2 DEF LoneInv
  <2>3. CASE Main(c)
    <3>1. pc[c] # "idle" /\ alone' \subseteq alone /\ UNCHANGED faults
      BY <2>3 DEF Main, FindScheduler, CreateScheduler, Collect, Reply
    <3>2. \A d \in alone : d = c
      BY <3>1 DEF LoneInv
    <3>3. CASE Reply(c)
      <4>1. alone' = {}
        BY <3>2, <3>3 DEF Reply
      <4>. QED  BY <4>1 DEF LoneInv
    <3>4. CASE CreateScheduler(c) \/ Collect(c)
      <4>1. UNCHANGED <<job, task, alone, faults>> /\ pc'[c] # "idle"
        BY <3>4 DEF CreateScheduler, Collect, Goes, TypeOK
      <4>. QED  BY <2>1, <3>2, <4>1 DEF LoneInv, TasksOf, Host, Hosts, Serves, Locking, Exclusive, Capturing
    <3>5. CASE FindScheduler(c) /\ scheduler = None
      <4>1. UNCHANGED <<job, task, alone, faults>> /\ pc'[c] # "idle"
        BY <3>5 DEF FindScheduler, Goes, TypeOK
      <4>. QED  BY <2>1, <3>2, <4>1 DEF LoneInv, TasksOf, Host, Hosts, Serves, Locking, Exclusive, Capturing
    <3>6. CASE FindScheduler(c) /\ scheduler # None
      <4>1. /\ pc[c] = "schedule" /\ FansOut(c, scheduler) /\ UNCHANGED <<alone, faults>>
            /\ scheduler \in Calls /\ job[c] \in Jobs
        BY <3>6 DEF FindScheduler, TypeOK, CallShape
      <4>2. job'[c] = [job[c] EXCEPT !.scheduler = scheduler] /\ pc'[c] = "fanout"
        BY <4>1, FansOutTypes DEF TypeOK
      <4>3. TasksOf(c)' = TasksOf(c)
        BY <4>1, <4>2 DEF TasksOf, Hosts, Jobs
      <4>4. \A k \in TasksOf(c) : task'[k].ok
        BY <4>1, JobTasks DEF FansOut, New
      <4>. QED  BY <2>1, <3>2, <4>1, <4>2, <4>3, <4>4 DEF LoneInv
    <3>. QED  BY <2>3, <3>3, <3>4, <3>5, <3>6 DEF Main
  <2>. QED  BY <1>1, <2>2, <2>3 DEF CallStep
<1>2. ASSUME NEW k \in Tasks, WorkStep(k)
      PROVE  LoneInv'
  <2>1. /\ UNCHANGED <<faults, pc, job, alone>>
        /\ \A l \in Tasks \ {k} : task'[l] = task[l]
        /\ task[k].at # "absent"
    BY <1>2, WorkStepFrame
  <2>2. ASSUME NEW c \in alone, "fails" \notin faults, NEW i \in TasksOf(c), ~task'[i].ok
        PROVE  \E l \in TasksOf(c) : Host(l)' = Host(i)' /\ Serves(l)'
    <3>1. \A l : Host(l)' = Host(l)
      BY <2>1 DEF Host, Hosts
    <3>2. \A l \in TasksOf(c) : l \in Tasks
      BY JobTasks DEF LoneInv, CallShape, TypeOK
    <3>3. \A l \in Tasks \ {k} : Serves(l) => Serves(l)'
      BY <2>1 DEF Serves, Locking, Exclusive, Capturing
    <3>4. Serves(k) => Serves(k)'
      BY <1>2, <2>2, ServesKept
    <3>5. CASE ~task[i].ok
      BY <2>2, <3>1, <3>2, <3>3, <3>4, <3>5 DEF LoneInv
    <3>6. CASE task[i].ok
      <4>1. i = k
        BY <2>1, <2>2, <3>2, <3>6
      <4>2. \E l \in TasksOf(c) : Host(l) = Host(k) /\ Serves(l) /\ l # k
        BY <1>2, <2>2, <3>6, <4>1, FailureServed
      <4>. QED  BY <3>1, <3>2, <3>3, <4>1, <4>2
    <3>. QED  BY <3>5, <3>6
  <2>3. \A c : TasksOf(c)' = TasksOf(c)
    BY <2>1 DEF TasksOf, Hosts
  <2>. QED  BY <2>1, <2>2, <2>3 DEF LoneInv
<1>. QED  BY <1>1, <1>2, StepKinds

\* A call's steps between the first and the reply disturb none of its tasks.
LEMMA MainKeeps ==
    ASSUME Inv, NEW c \in Calls, Main(c), ~Reply(c)
    PROVE  /\ UNCHANGED <<locks, alone>>
           /\ TasksOf(c)' = TasksOf(c)
           /\ \A k \in TasksOf(c) : Host(k)' = Host(k) /\ (Keeps(k)' <=> Keeps(k))
           /\ job'[c].path = job[c].path
           /\ Exclusive(c)' <=> Exclusive(c)
           /\ Capturing(c)' <=> Capturing(c)
<1>. USE DEF Inv
<1>1. UNCHANGED <<locks, alone>>
  BY DEF Main, FindScheduler, CreateScheduler, Collect
<1>2. \A k \in TasksOf(c) : Caller(k) = c
  BY DEF TasksOf, Caller
<1>3. CASE UNCHANGED <<job, task>>
  BY <1>1, <1>3 DEF TasksOf, Host, Hosts, Keeps, Inside, Locking, Exclusive, Capturing
<1>4. CASE pc[c] = "schedule" /\ FansOut(c, scheduler) /\ scheduler \in Calls
  <2>1. job[c] \in Jobs
    BY <1>4 DEF CallShape
  <2>2. job'[c] = [job[c] EXCEPT !.scheduler = scheduler]
    BY <1>4, <2>1, FansOutTypes
  <2>3. job'[c].tool = job[c].tool /\ job'[c].path = job[c].path /\ job'[c].hosts = job[c].hosts
    BY <2>1, <2>2 DEF Jobs
  <2>4. TasksOf(c)' = TasksOf(c) /\ \A k \in TasksOf(c) : Host(k)' = Host(k)
    BY <1>2, <2>3 DEF TasksOf, Host, Hosts, Caller
  <2>5. \A k \in TasksOf(c) : k \in Tasks /\ task[k].at = "absent" /\ task'[k].at = "new"
    BY <1>2, <1>4, <2>1, JobTasks DEF FansOut, New, CallShape, Fanned
  <2>6. \A k \in TasksOf(c) : ~Keeps(k) /\ ~Keeps(k)'
    BY <2>5 DEF Keeps, Inside, Holding
  <2>. QED  BY <1>1, <2>3, <2>4, <2>6 DEF Exclusive, Capturing
<1>. QED  BY <1>3, <1>4 DEF Main, FindScheduler, CreateScheduler, Collect, TypeOK

\* Exclusive locks come and go without captures.
LEMMA ExclusiveKeepsCaptures ==
    ASSUME TypeOK, CallShape, TaskShape, NEW k \in Tasks, TakeLock(k) \/ Finish(k),
           Exclusive(Caller(k)), NEW t \in Targets
    PROVE  locks'[t].captures = locks[t].captures
<1>1. Host(k) \in Targets /\ locks \in [Targets -> TargetLock]
  BY Present DEF TakeLock, Finish, TypeOK
<1>2. CASE AcquireExclusive(Host(k), job[Caller(k)].tool)
  BY <1>1, <1>2, TakenLock DEF Exclusive
<1>3. CASE ReleaseExclusive(Host(k), job[Caller(k)].tool)
  <2>1. CASE locks' = [locks EXCEPT ![Host(k)] = Lowered(@)]
    BY <1>1, <2>1 DEF Lowered
  <2>. QED  BY <1>3, <2>1 DEF ReleaseExclusive
<1>. QED  BY <1>2, <1>3, TakeLockCases, FinishCases

LEMMA LoneLocksPreserved ==
    ASSUME Inv, Next
    PROVE  LoneLocks'
<1>. USE DEF Inv
<1>1. ASSUME NEW c \in Calls, CallStep(c)
      PROVE  LoneLocks'
  <2>1. CASE Begins(c)
    <3>1. \A k \in TasksOf(c)' : ~Keeps(k)'
      BY <2>1, BegunTasks DEF Keeps, Inside, Holding
    <3>2. \A d \in alone' : d = c /\ \A k \in TasksOf(c)' : locks'[Host(k)'].captures = {}
      BY <2>1, BegunTasks
    <3>. QED  BY <3>1, <3>2 DEF LoneLocks
  <2>2. CASE Main(c)
    <3>1. \A d \in alone : d = c
      BY <2>2 DEF LoneInv, Main, FindScheduler, CreateScheduler, Collect, Reply
    <3>2. CASE Reply(c)
      BY <3>1, <3>2 DEF Reply, LoneLocks
    <3>3. CASE ~Reply(c)
      BY <2>2, <3>1, <3>3, MainKeeps DEF LoneLocks
    <3>. QED  BY <3>2, <3>3
  <2>. QED  BY <1>1, <2>1, <2>2 DEF CallStep
<1>2. ASSUME NEW k \in Tasks, WorkStep(k)
      PROVE  LoneLocks'
  <2>1. /\ UNCHANGED <<job, alone>> /\ \A l \in Tasks \ {k} : task'[l] = task[l]
        /\ task[k].at # "absent" /\ Host(k) \in Targets /\ Path(k) \in Paths
    BY <1>2, WorkStepFrame, Present
  <2>2. /\ \A c : TasksOf(c)' = TasksOf(c) /\ (Exclusive(c)' <=> Exclusive(c))
        /\ \A c : Capturing(c)' <=> Capturing(c)
        /\ \A l : Host(l)' = Host(l)
    BY <2>1 DEF TasksOf, Host, Hosts, Exclusive, Capturing
  <2>3. ASSUME NEW c \in alone
        PROVE  /\ c \in Calls /\ Caller(k) = c /\ k \in TasksOf(c)
               /\ \A l \in TasksOf(c) : l \in Tasks /\ Host(l) \in Targets
    BY <2>1, OnlyLone, JobTasks DEF LoneInv, CallShape, TypeOK
  <2>4. \A l \in Tasks \ {k} : Keeps(l)' <=> Keeps(l)
    BY <2>1 DEF Keeps, Inside, Locking, Exclusive, Capturing
  <2>5. ASSUME UNCHANGED locks, Keeps(k)' <=> Keeps(k)
        PROVE  LoneLocks'
    BY <2>1, <2>2, <2>3, <2>4, <2>5 DEF LoneLocks
  <2>6. ASSUME TakeLock(k) \/ Finish(k), NEW c \in alone, Exclusive(c)
        PROVE  \A l \in TasksOf(c) : locks'[Host(l)].captures = {}
    BY <2>3, <2>6, ExclusiveKeepsCaptures DEF LoneLocks
  <2>7. ASSUME TakeLock(k) \/ Finish(k), NEW c \in alone, Capturing(c)
        PROVE  /\ \A i \in TasksOf(c) :
                    job[c].path \in locks'[Host(i)].captures <=>
                        \E l \in TasksOf(c) : Host(l) = Host(i) /\ Keeps(l)'
               /\ \A i, l \in TasksOf(c) : Keeps(i)' /\ Keeps(l)' /\ Host(i) = Host(l) => i = l
    <3>1. Path(k) = job[c].path /\ ~Exclusive(Caller(k)) /\ Capturing(Caller(k))
      BY <2>3, <2>7, Distinct DEF Path, Caller, Exclusive, Capturing
    <3>2. /\ \A i \in TasksOf(c) :
               job[c].path \in locks[Host(i)].captures <=>
                   \E l \in TasksOf(c) : Host(l) = Host(i) /\ Keeps(l)
          /\ \A i, l \in TasksOf(c) : Keeps(i) /\ Keeps(l) /\ Host(i) = Host(l) => i = l
      BY <2>7 DEF LoneLocks
    <3>3. CASE TakeLock(k) /\ AcquireCapture(Host(k), Path(k))
      <4>1. /\ locks'[Host(k)].captures = locks[Host(k)].captures \cup {Path(k)}
            /\ \A u \in Targets \ {Host(k)} : locks'[u] = locks[u]
            /\ Path(k) \notin locks[Host(k)].captures
        BY <2>1, <3>3, TakenPath DEF TypeOK, AcquireCapture, CaptureFree
      <4>2. Keeps(k)'
        <5>1. task'[k].at = "borrow"
          BY <3>1, <3>3, <4>1, TakeLockCases DEF Free
        <5>. QED  BY <2>2, <3>1, <5>1 DEF Keeps, Inside, Locking, Holding
      <4>3. \A l \in TasksOf(c) : Host(l) = Host(k) => ~Keeps(l)
        BY <2>3, <3>1, <3>2, <4>1
      <4>. QED  BY <2>3, <2>4, <3>1, <3>2, <4>1, <4>2, <4>3
    <3>4. CASE TakeLock(k) /\ UNCHANGED locks /\ task'[k].at = "done" /\ ~task'[k].ok
      <4>1. ~Keeps(k) /\ ~Keeps(k)'
        BY <3>4 DEF TakeLock, Keeps, Inside, Holding
      <4>. QED  BY <2>3, <2>4, <3>2, <3>4, <4>1
    <3>5. ASSUME Finish(k)
          PROVE  /\ Keeps(k) /\ task'[k].at = "done" /\ task'[k].ok = task[k].ok
                 /\ Keeps(k)' <=> task[k].ok
      <4>1. task[k].at = "unlock" /\ task'[k].at = "done" /\ task'[k].ok = task[k].ok
        BY <3>5, FinishCases DEF Finish
      <4>. QED  BY <3>1, <4>1 DEF Keeps, Inside, Locking, Holding
    <3>6. CASE Finish(k) /\ task[k].ok
      <4>1. UNCHANGED locks
        BY <3>1, <3>6, FinishCases, Distinct DEF Stops, Capturing
      <4>. QED  BY <2>3, <2>4, <3>2, <3>5, <3>6, <4>1
    <3>7. CASE Finish(k) /\ ~task[k].ok
      <4>1. ReleaseCapture(Host(k), Path(k))
        BY <3>1, <3>7, FinishCases DEF Stops
      <4>2. /\ locks'[Host(k)].captures = locks[Host(k)].captures \ {Path(k)}
            /\ \A u \in Targets \ {Host(k)} : locks'[u] = locks[u]
        BY <2>1, <4>1, FreedPath DEF TypeOK
      <4>3. \A l \in TasksOf(c) : Host(l) = Host(k) => ~Keeps(l)'
        BY <2>3, <2>4, <3>2, <3>5, <3>7
      <4>. QED  BY <2>3, <2>4, <3>1, <3>2, <3>5, <3>7, <4>2, <4>3
    <3>. QED  BY <2>7, <3>1, <3>3, <3>4, <3>6, <3>7, TakeLockCases
  <2>8. CASE TakeLock(k) \/ Finish(k)
    BY <2>1, <2>2, <2>6, <2>7, <2>8 DEF LoneLocks
  <2>9. CASE Borrow(k) \/ BorrowFails(k) \/ Perform(k)
    <3>1. UNCHANGED locks
      BY <2>9 DEF Borrow, BorrowFails, Perform, Operation
    <3>2. ASSUME NEW c \in alone, Locking(c)
          PROVE  Keeps(k) /\ Keeps(k)'
      <4>1. task[k].at \in Holding
        BY <2>9 DEF Borrow, BorrowFails, Perform, Operation, Holding
      <4>2. Inside(k)
        BY <2>3, <3>2, <4>1 DEF Inside
      <4>. QED  BY <2>9, <4>2, StaysInside DEF Keeps
    <3>. QED  BY <2>1, <2>2, <2>3, <2>4, <3>1, <3>2 DEF LoneLocks, Locking
  <2>10. CASE Submit(k)
    <3>1. UNCHANGED locks /\ task[k].at = "new" /\ task'[k].at = "queued"
      BY <2>10, MovesOne DEF Submit, Places
    <3>. QED  BY <2>5, <3>1 DEF Keeps, Inside, Holding
  <2>11. ASSUME NEW e \in Executors, Start(e), k = Head(queue[e])
         PROVE  LoneLocks'
    <3>1. /\ UNCHANGED locks /\ task[k].at = "queued"
          /\ task'[k].at = IF Locking(Caller(k)) THEN "lock" ELSE "borrow"
      BY <2>11, StartFrame
    <3>2. Locking(Caller(k))' <=> Locking(Caller(k))
      BY <2>1 DEF Locking, Exclusive, Capturing
    <3>. QED  BY <2>5, <3>1, <3>2 DEF Keeps, Inside, Holding
  <2>. QED  BY <1>2, <2>8, <2>9, <2>10, <2>11 DEF WorkStep, Step
<1>. QED  BY <1>1, <1>2, StepKinds

----------------------------------------------------------------------------
(* The invariant and what follows                                          *)

LEMMA InitInv ==
    ASSUME Init
    PROVE  Inv
<1>. USE DEF Init
<1>1. TypeOK
  <2>1. Unlocked \in TargetLock
    BY DEF Unlocked, TargetLock
  <2>2. Absent \in [at : Places, ok : BOOLEAN]
    BY DEF Absent, Places
  <2>3. queue \in [Executors -> Seq(Tasks)] /\ \A e \in Executors : DOMAIN queue[e] = {}
    BY EmptySeq
  <2>4. lent \in [Calls -> [Targets -> 0 .. MaxConn]]
    BY BoundsAssumption
  <2>. QED  BY <2>1, <2>2, <2>3, <2>4 DEF TypeOK, LocksInit
<1>2. CallShape
  BY TaskPair DEF CallShape, Fanned, Absent
<1>3. TaskShape
  BY DEF TaskShape, Absent
<1>4. LocksInv
  BY DEF LocksInv, LocksInit, Unlocked, Holds, Inside, Holding, Absent
<1>5. LentInv
  <2>1. \A s \in Calls, t \in Targets : Borrowers(s, t) = {}
    BY DEF Borrowers, Absent
  <2>. QED  BY <2>1, FS_EmptySet DEF LentInv
<1>6. SchedulerInv
  BY DEF SchedulerInv, Fanned
<1>7. LoneInv /\ LoneLocks
  BY DEF LoneInv, LoneLocks
<1>. QED  BY <1>1, <1>2, <1>3, <1>4, <1>5, <1>6, <1>7 DEF Inv

LEMMA StutterInv ==
    ASSUME Inv, UNCHANGED vars
    PROVE  Inv'
<1>. USE DEF vars
<1>1. TypeOK'
  BY DEF Inv, TypeOK, Executor
<1>2. CallShape' /\ TaskShape'
  BY DEF Inv, CallShape, TaskShape, TasksOf, Hosts, Locking, Exclusive, Capturing
<1>3. LocksInv' /\ LentInv'
  BY DEF Inv, LocksInv, LentInv, Holds, Inside, Locking, Exclusive, Capturing, Borrowers, Host, Hosts
<1>4. SchedulerInv' /\ LoneInv' /\ LoneLocks'
  BY DEF Inv, SchedulerInv, LoneInv, LoneLocks, Serves, Keeps, Inside, Locking,
         Exclusive, Capturing, TasksOf, Host, Hosts
<1>. QED  BY <1>1, <1>2, <1>3, <1>4 DEF Inv

LEMMA Invariance == Spec => []Inv
<1>1. Init => Inv
  BY InitInv
<1>2. Inv /\ [Next]_vars => Inv'
  <2>1. ASSUME Inv, Next
        PROVE  Inv'
    BY <2>1, TypePreserved, CallShapePreserved, TaskShapePreserved,
       LocksPreserved, LentPreserved, SchedulerPreserved, LonePreserved,
       LoneLocksPreserved DEF Inv
  <2>. QED  BY <2>1, StutterInv
<1>. QED  BY <1>1, <1>2, PTL DEF Spec

\* Every variable has its type, and a task waits in its call's executor.
THEOREM ToolCallTypeCorrect == Spec => []TypeOK
<1>1. Inv => TypeOK
  BY DEF Inv
<1>. QED  BY <1>1, Invariance, PTL

\* Without a race all connections to a host come from the scheduler's one pool.
LEMMA OnePool ==
    ASSUME TypeOK, CallShape, SchedulerInv, "race" \notin faults, NEW t
    PROVE  Connected(t) = Borrowers(scheduler, t)
<1>1. \A k \in Connected(t) : k \in Tasks /\ job[Caller(k)].scheduler = scheduler
  BY Present DEF Connected, SchedulerInv
<1>. QED  BY <1>1 DEF Connected, Borrowers

\* Without a race for the scheduler the tasks of all calls together never use
\* more than MaxConn connections to a host: they borrow from one pool.
THEOREM ToolCallConnectionsBounded == Spec => []ConnectionsBounded
<1>1. ASSUME Inv, "race" \notin faults, NEW t \in Targets
      PROVE  Cardinality(Connected(t)) <= MaxConn
  <2>1. CASE Connected(t) = {}
    BY <2>1, FS_EmptySet, BoundsAssumption
  <2>2. CASE Connected(t) # {}
    <3>1. scheduler \in Calls
      BY <1>1, <2>2, Present DEF Inv, Connected, SchedulerInv
    <3>. QED  BY <1>1, <3>1, OnePool, BoundsAssumption DEF Inv, LentInv, TypeOK
  <2>. QED  BY <2>1, <2>2
<1>2. Inv => ConnectionsBounded
  BY <1>1 DEF ConnectionsBounded
<1>. QED  BY <1>2, Invariance, PTL

\* When no call is under way no exclusive lock is held, no connection is lent and
\* no task waits.
THEOREM ToolCallNothingKept == Spec => []NothingKept
<1>1. ASSUME Inv, \A c \in Calls : pc[c] = "idle"
      PROVE  /\ \A t \in Targets : locks[t].holder = NoHolder /\ locks[t].count = 0
             /\ \A s \in Calls, t \in Targets : lent[s][t] = 0
             /\ \A e \in Executors : queue[e] = <<>>
  <2>1. \A k \in Tasks : task[k].at = "absent"
    BY <1>1, TaskPair DEF Inv, CallShape, Fanned
  <2>2. \A t \in Targets : locks[t].holder = NoHolder /\ locks[t].count = 0
    BY <1>1, <2>1 DEF Inv, LocksInv, Holds, Inside, Holding
  <2>3. ASSUME NEW s \in Calls, NEW t \in Targets
        PROVE  lent[s][t] = 0
    <3>1. Borrowers(s, t) = {}
      BY <2>1 DEF Borrowers
    <3>. QED  BY <1>1, <3>1, FS_EmptySet DEF Inv, LentInv
  <2>4. ASSUME NEW e \in Executors, queue[e] # <<>>
        PROVE  FALSE
    <3>1. queue[e] \in Seq(Tasks)
      BY <1>1 DEF Inv, TypeOK
    <3>2. 1 \in DOMAIN queue[e]
      BY <2>4, <3>1, EmptySeq, LenProperties
    <3>3. queue[e][1] \in Tasks /\ task[queue[e][1]].at = "queued"
      BY <1>1, <3>2, QueueEntry DEF Inv, TypeOK
    <3>. QED  BY <2>1, <3>3
  <2>. QED  BY <2>2, <2>3, <2>4
<1>2. Inv => NothingKept
  BY <1>1 DEF NothingKept
<1>. QED  BY <1>2, Invariance, PTL

\* A call that had the bridge for itself reached every host it named, however
\* often it named it.
THEOREM ToolCallLoneCallServed == Spec => []LoneCallServed
<1>1. ASSUME Inv, NEW c \in alone, pc[c] = "reply", "fails" \notin faults, NEW k \in TasksOf(c)
      PROVE  \E l \in TasksOf(c) : Host(l) = Host(k) /\ task[l].ok
  <2>1. CASE task[k].ok
    BY <2>1
  <2>2. CASE ~task[k].ok
    BY <1>1, <2>2 DEF Inv, LoneInv, Serves
  <2>. QED  BY <2>1, <2>2
<1>2. Inv => LoneCallServed
  BY <1>1 DEF LoneCallServed
<1>. QED  BY <1>2, Invariance, PTL

\* After a lone capture_start a path is locked exactly where the reply counts a
\* capture as started.
THEOREM ToolCallLockMatchesReply == Spec => []LockMatchesReply
<1>1. ASSUME Inv, NEW c \in alone, pc[c] = "reply", Capturing(c), NEW k \in TasksOf(c)
      PROVE  Path(k) \in locks[Host(k)].captures <=>
                 \E l \in TasksOf(c) : Host(l) = Host(k) /\ task[l].ok
  <2>1. \A l \in TasksOf(c) : l \in Tasks /\ Caller(l) = c
    BY <1>1, JobTasks DEF Inv, CallShape, TypeOK
  <2>2. \A l \in TasksOf(c) : task[l].at = "done"
    BY <1>1, <2>1 DEF Inv, CallShape, Fanned
  <2>3. \A l \in TasksOf(c) : Keeps(l) <=> task[l].ok
    BY <2>2 DEF Keeps, Inside, Holding
  <2>. QED  BY <1>1, <2>1, <2>3 DEF Inv, LoneLocks, Path, Caller
<1>2. Inv => LockMatchesReply
  BY <1>1 DEF LockMatchesReply
<1>. QED  BY <1>2, Invariance, PTL

----------------------------------------------------------------------------
(* Waiting                                                                 *)

\* A task that waits for a thread is in its executor's queue: none is lost there.
Queued ==
    \A k \in Tasks : task[k].at = "queued" =>
        \E n \in DOMAIN queue[Executor(Caller(k))] : queue[Executor(Caller(k))][n] = k

LEMMA SubmitQueued ==
    ASSUME TypeOK, CallShape, Queued, NEW k \in Tasks, Submit(k)
    PROVE  Queued'
<1>. DEFINE x(l) == Executor(Caller(l))
<1>1. /\ UNCHANGED job /\ \A l \in Tasks \ {k} : task'[l] = task[l]
      /\ queue' = [queue EXCEPT ![x(k)] = Append(@, k)]
      /\ task[k].at = "new"
  BY StepFrame DEF Submit, Step
<1>2. \A l \in Tasks : x(l)' = x(l)
  BY <1>1 DEF Executor
<1>3. \A e \in Executors : queue[e] \in Seq(Tasks)
  BY DEF TypeOK
<1>4. x(k) \in Executors
  BY <1>1, Present
<1>5. /\ DOMAIN queue[x(k)] = 1 .. Len(queue[x(k)])
      /\ Len(queue[x(k)]) \in Nat
      /\ DOMAIN Append(queue[x(k)], k) = 1 .. Len(queue[x(k)]) + 1
      /\ \A n \in 1 .. Len(queue[x(k)]) : Append(queue[x(k)], k)[n] = queue[x(k)][n]
      /\ Append(queue[x(k)], k)[Len(queue[x(k)]) + 1] = k
  BY <1>3, <1>4, AppendProperties, LenProperties
<1>6. /\ queue'[x(k)] = Append(queue[x(k)], k)
      /\ \A e \in Executors \ {x(k)} : queue'[e] = queue[e]
  BY <1>1, <1>4 DEF TypeOK
<1>7. ASSUME NEW l \in Tasks, task'[l].at = "queued"
      PROVE  \E n \in DOMAIN queue'[x(l)] : queue'[x(l)][n] = l
  <2>1. CASE l = k
    BY <1>5, <1>6, <2>1
  <2>2. CASE l # k
    <3>1. task[l].at = "queued"
      BY <1>1, <1>7, <2>2
    <3>2. PICK n \in DOMAIN queue[x(l)] : queue[x(l)][n] = l
      BY <3>1 DEF Queued
    <3>3. x(l) \in Executors
      BY <3>1, Present
    <3>4. n \in DOMAIN queue'[x(l)] /\ queue'[x(l)][n] = l
      <4>1. CASE x(l) = x(k)
        BY <1>5, <1>6, <3>2, <4>1
      <4>2. CASE x(l) # x(k)
        BY <1>6, <3>2, <3>3, <4>2
      <4>. QED  BY <4>1, <4>2
    <3>. QED  BY <3>4
  <2>. QED  BY <2>1, <2>2
<1>. QED  BY <1>2, <1>7 DEF Queued

LEMMA StartQueued ==
    ASSUME TypeOK, CallShape, Queued, NEW e \in Executors, Start(e)
    PROVE  Queued'
<1>. DEFINE k == Head(queue[e])
            x(l) == Executor(Caller(l))
<1>1. /\ UNCHANGED job
      /\ k \in Tasks /\ task'[k].at # "queued"
      /\ \A l \in Tasks \ {k} : task'[l] = task[l]
      /\ queue[e] \in Seq(Tasks) /\ Len(queue[e]) \in Nat \ {0} /\ k = queue[e][1]
  BY StartFrame
<1>2. queue[e] # <<>> /\ queue' = [queue EXCEPT ![e] = Tail(@)]
  BY DEF Start
<1>3. /\ Tail(queue[e]) \in Seq(Tasks)
      /\ Len(Tail(queue[e])) = Len(queue[e]) - 1
      /\ \A i \in 1 .. Len(Tail(queue[e])) : Tail(queue[e])[i] = queue[e][i + 1]
  BY <1>1, <1>2, HeadTailProperties
<1>4. /\ DOMAIN queue[e] = 1 .. Len(queue[e])
      /\ DOMAIN Tail(queue[e]) = 1 .. Len(queue[e]) - 1
  BY <1>1, <1>3, LenProperties
<1>5. /\ queue'[e] = Tail(queue[e])
      /\ \A y \in Executors \ {e} : queue'[y] = queue[y]
  BY <1>2 DEF TypeOK
<1>6. \A l \in Tasks : x(l)' = x(l)
  BY <1>1 DEF Executor
<1>7. ASSUME NEW l \in Tasks, task'[l].at = "queued"
      PROVE  \E n \in DOMAIN queue'[x(l)] : queue'[x(l)][n] = l
  <2>1. l # k /\ task[l].at = "queued"
    BY <1>1, <1>7
  <2>2. PICK n \in DOMAIN queue[x(l)] : queue[x(l)][n] = l
    BY <2>1 DEF Queued
  <2>3. x(l) \in Executors
    BY <2>1, Present
  <2>4. CASE x(l) = e
    <3>1. n \in 1 .. Len(queue[e]) /\ n # 1
      BY <1>1, <1>4, <2>1, <2>2, <2>4
    <3>2. n - 1 \in 1 .. Len(queue[e]) - 1 /\ (n - 1) + 1 = n
      BY <1>1, <3>1
    <3>3. queue'[e][n - 1] = queue[e][n] /\ n - 1 \in DOMAIN queue'[e]
      BY <1>3, <1>4, <1>5, <3>2
    <3>. QED  BY <2>2, <2>4, <3>3
  <2>5. CASE x(l) # e
    BY <1>5, <2>2, <2>3, <2>5
  <2>. QED  BY <2>4, <2>5
<1>. QED  BY <1>6, <1>7 DEF Queued

\* No other step touches the queues or a task that waits in one.
LEMMA QueuedPreserved ==
    ASSUME TypeOK, CallShape, Queued, Next
    PROVE  Queued'
<1>1. ASSUME NEW c \in Calls, CallStep(c)
      PROVE  Queued'
  <2>1. UNCHANGED queue
    BY <1>1, CallStepFrame
  <2>2. \A k \in Tasks : task'[k].at = "queued" =>
          task[k].at = "queued" /\ Executor(Caller(k))' = Executor(Caller(k))
    BY <1>1, CallStepFrame DEF Executor, Working
  <2>. QED  BY <2>1, <2>2 DEF Queued
<1>2. ASSUME NEW k \in Tasks, Step(k), ~Submit(k)
      PROVE  Queued'
  <2>1. UNCHANGED <<queue, job>>
    BY <1>2, StepFrame
       DEF Step, TakeLock, Borrow, BorrowFails, Perform, Operation, Finish
  <2>2. task[k].at # "new"
    BY <1>2 DEF Step, TakeLock, Borrow, BorrowFails, Perform, Operation, Finish
  <2>3. \A l \in Tasks : task'[l].at = "queued" => task[l].at = "queued"
    BY <1>2, <2>2, StepFrame
  <2>. QED  BY <2>1, <2>3 DEF Queued, Executor
<1>. QED  BY <1>1, <1>2, SubmitQueued, StartQueued DEF Next, CallStep, Begins

\* A task that works waits for a connection only while another one, that works
\* too, has it.
LEMMA WorkerGoesOn ==
    ASSUME TypeOK, CallShape, LentInv, NEW k \in Tasks, task[k].at \in Running
    PROVE  \E l \in Tasks : TaskGoesOn(l)
<1>1. CASE task[k].at # "borrow"
  BY <1>1 DEF TaskGoesOn, Running
<1>2. CASE task[k].at = "borrow" /\ Pool(k) < MaxConn
  BY <1>2 DEF TaskGoesOn
<1>3. CASE task[k].at = "borrow" /\ ~(Pool(k) < MaxConn)
  <2>1. Pool(k) \in Nat
    BY <1>3, Present DEF Pool, TypeOK
  <2>2. PICK m \in Tasks : task[m].at = "call"
    BY <1>3, <2>1, FullPool, BoundsAssumption
  <2>. QED  BY <2>2 DEF TaskGoesOn
<1>. QED  BY <1>1, <1>2, <1>3

\* While a call is under way somebody can go on, without any borrow_timeout, for
\* any number of calls, hosts, threads and connections.
THEOREM ToolCallNeverStuck == Spec => []NeverStuck
<1>1. ASSUME Inv, Queued, NEW c \in Calls, pc[c] # "idle"
      PROVE  \/ \E d \in Calls : CallGoesOn(d)
             \/ \E k \in Tasks : TaskGoesOn(k)
             \/ \E e \in Executors : queue[e] # <<>> /\ Busy(e) < MaxWorkers
  <2>1. CASE pc[c] # "fanout" \/ Complete(c)
    BY <1>1, <2>1 DEF CallGoesOn, Inv, TypeOK
  <2>2. CASE pc[c] = "fanout" /\ ~Complete(c)
    <3>1. PICK k \in TasksOf(c) : task[k].at # "done"
      BY <2>2 DEF Complete
    <3>2. k \in Tasks /\ Caller(k) = c
      BY <1>1, <2>2, JobTasks DEF Inv, CallShape, TasksOf, Caller
    <3>3. task[k].at \in Running \cup {"new", "queued"}
      BY <1>1, <2>2, <3>1, <3>2, TaskType DEF Inv, CallShape, Fanned, Places
    <3>4. CASE task[k].at \in Running \cup {"new"}
      BY <1>1, <3>2, <3>4, WorkerGoesOn DEF Inv, TaskGoesOn
    <3>5. CASE task[k].at = "queued"
      <4>. DEFINE e == Executor(Caller(k))
                  AtWork == {l \in Tasks : task[l].at \in Running /\ Executor(Caller(l)) = e}
      <4>1. e \in Executors
        BY <1>1, <3>2, <3>5, Present DEF Inv
      <4>2. queue[e] # <<>>
        <5>1. PICK n \in DOMAIN queue[e] : queue[e][n] = k
          BY <1>1, <3>2, <3>5 DEF Queued
        <5>. QED  BY <5>1, EmptySeq
      <4>3. CASE Busy(e) < MaxWorkers
        BY <4>1, <4>2, <4>3
      <4>4. CASE ~(Busy(e) < MaxWorkers)
        <5>1. Busy(e) # 0
          BY <4>4, BoundsAssumption
        <5>2. AtWork # {}
          BY <5>1, FS_EmptySet DEF Busy
        <5>3. PICK l \in Tasks : task[l].at \in Running
          BY <5>2
        <5>. QED  BY <1>1, <5>3, WorkerGoesOn DEF Inv
      <4>. QED  BY <4>3, <4>4
    <3>. QED  BY <3>3, <3>4, <3>5
  <2>. QED  BY <2>1, <2>2
<1>2. Inv /\ Queued => NeverStuck
  BY <1>1 DEF NeverStuck
<1>3. Init => Queued
  BY DEF Init, Queued, Absent
<1>4. Inv /\ Queued /\ [Next]_vars => Queued'
  <2>1. ASSUME Inv, Queued, UNCHANGED vars PROVE Queued'
    BY <2>1 DEF vars, Queued, Executor
  <2>. QED  BY <2>1, QueuedPreserved DEF Inv
<1>. QED  BY <1>2, <1>3, <1>4, Invariance, PTL DEF Spec

----------------------------------------------------------------------------
(* Calls keep the promise of HostAccess                                    *)

Works == [k \in Tasks |-> Work(k)]
Asks == [c \in Calls |-> Request(c)]
Claims == {k \in Tasks : Inside(k)}
Captured == [t \in Targets |-> locks[t].captures]

\* A task that exists is work that has been asked for, at the same host and path.
LEMMA Readings ==
    ASSUME TypeOK, CallShape, NEW k \in Tasks, task[k].at # "absent"
    PROVE  /\ Promise!Asked(k) /\ Promise!Host(k) = Host(k) /\ Promise!Path(k) = Path(k)
           /\ Promise!Exclusive(k) <=> Exclusive(Caller(k))
           /\ Promise!Captures(k) <=> Capturing(Caller(k))
           /\ Promise!Stops(k) <=> job[Caller(k)].tool = STOP
<1>1. Caller(k) \in Calls /\ job[Caller(k)] \in Jobs /\ k \in TasksOf(Caller(k))
  BY Present
<1>2. k[2] \in DOMAIN Hosts(Caller(k)) /\ k[1] = Caller(k)
  BY <1>1, JobTasks DEF Caller
<1>3. Request(Caller(k)) = [tool |-> job[Caller(k)].tool, path |-> job[Caller(k)].path,
                            hosts |-> Hosts(Caller(k))]
  BY <1>1, Distinct DEF Request, Hosts
<1>4. Request(Caller(k)) # None
  BY <1>1, <1>3, NoneAssumption DEF Jobs, Hosts
<1>. QED  BY <1>1, <1>2, <1>3, <1>4
          DEF Promise!Asked, Promise!Host, Promise!Path, Promise!Exclusive, Promise!Captures,
              Promise!Stops, Host, Path, Hosts, Caller, Exclusive, Capturing

\* Both count the same connections and the same claims.
LEMMA SameUsers ==
    ASSUME TypeOK, CallShape, NEW t
    PROVE  /\ Promise!Tasks = Tasks
           /\ Promise!Connected(t) = Connected(t)
           /\ Promise!Claimed(t) = {l \in Tasks : Holds(l) /\ Host(l) = t}
<1>1. Promise!Tasks = Tasks
  BY DEF Promise!Tasks, Tasks
<1>2. \A k \in Tasks : Work(k) = "connected" <=> task[k].at = "call"
  BY DEF Work
<1>3. \A k \in Tasks : task[k].at = "call" => Promise!Host(k) = Host(k)
  BY Readings
<1>4. Promise!Connected(t) = {k \in Tasks : Work(k) = "connected" /\ Promise!Host(k) = t}
  BY <1>1 DEF Promise!Connected
<1>5. Promise!Connected(t) = Connected(t)
  BY <1>2, <1>3, <1>4 DEF Connected
<1>6. \A k \in Tasks : Inside(k) =>
        Promise!Host(k) = Host(k) /\ (Promise!Exclusive(k) <=> Exclusive(Caller(k)))
  BY Readings DEF Inside, Holding
<1>. QED  BY <1>1, <1>5, <1>6 DEF Promise!Claimed, Holds

\* Their tasks are finite, and borrowed from a pool or from several.
LEMMA UsersCounted ==
    ASSUME TypeOK, CallShape, NEW s, NEW t
    PROVE  /\ Promise!Cardinality(Connected(t)) = Cardinality(Connected(t))
           /\ Cardinality(Connected(t)) \in Nat
           /\ Cardinality(Borrowers(s, t)) <= Cardinality(Connected(t))
<1>1. Promise!Cardinality(Connected(t)) = Cardinality(Connected(t))
  BY Zenon DEF Promise!Cardinality, Cardinality
<1>2. Connected(t) \subseteq Tasks /\ Borrowers(s, t) \subseteq Connected(t)
  BY DEF Connected, Borrowers
<1>3. IsFiniteSet(Connected(t))
  BY <1>2, TasksFinite, FS_Subset
<1>. QED  BY <1>1, <1>2, <1>3, FS_Subset, FS_CardinalityType

\* A step of a task changes that task's work and its claim, and no other's.
LEMMA OneWorks ==
    ASSUME NEW k \in Tasks, UNCHANGED <<faults, job>>,
           \A l \in Tasks \ {k} : task'[l] = task[l]
    PROVE  /\ Works' = [Works EXCEPT ![k] = Work(k)']
           /\ \A l \in Tasks \ {k} : Inside(l)' <=> Inside(l)
           /\ Asks' = Asks
<1>1. \A l \in Tasks \ {k} : Work(l)' = Work(l) /\ (Inside(l)' <=> Inside(l))
  BY DEF Work, Inside, Locking, Exclusive, Capturing, Caller
<1>2. Asks' = Asks
  BY DEF Asks, Request
<1>. QED  BY <1>1, <1>2 DEF Works

\* A step that changes no work, no claim and no capture is a stutter.
LEMMA StutterStep ==
    ASSUME UNCHANGED <<faults, Asks, Captured>>,
           \A k \in Tasks : Work(k)' = Work(k) /\ (Inside(k)' <=> Inside(k))
    PROVE  UNCHANGED Promise!vars
<1>1. {k \in Tasks : Inside(k)}' = {k \in Tasks : Inside(k)}
  OBVIOUS
<1>2. Works' = Works
  BY DEF Works
<1>. QED  BY <1>1, <1>2 DEF Works, Asks, Captured, Promise!vars

\* A task that takes a lock claims the host, or captures the path, that nobody else
\* has; one that does not, is refused because somebody else has it.
LEMMA TakeLockStep ==
    ASSUME Inv, NEW k \in Tasks, TakeLock(k)
    PROVE  Promise!Next
<1>1. /\ UNCHANGED <<faults, job>> /\ \A l \in Tasks \ {k} : task'[l] = task[l]
      /\ task[k].at = "lock" /\ Locking(Caller(k))
  BY StepFrame DEF TakeLock, Step, Inv, TaskShape
<1>2. /\ Works' = [Works EXCEPT ![k] = Work(k)'] /\ Asks' = Asks
      /\ \A l \in Tasks \ {k} : Inside(l)' <=> Inside(l)
  BY <1>1, OneWorks
<1>3. /\ Promise!Asked(k) /\ Promise!Host(k) = Host(k) /\ Promise!Path(k) = Path(k)
      /\ Promise!Exclusive(k) <=> Exclusive(Caller(k))
      /\ Promise!Captures(k) <=> Capturing(Caller(k))
      /\ Host(k) \in Targets /\ Path(k) \in Paths
      /\ ~Inside(k) /\ Work(k) = "open" /\ Works[k] = "open"
  BY <1>1, Readings, Present DEF Inv, Inside, Holding, Work, Works
<1>4. /\ Promise!Claimed(Host(k)) = {l \in Tasks : Holds(l) /\ Host(l) = Host(k)}
      /\ Promise!Tasks = Tasks
  BY SameUsers DEF Inv
<1>5. /\ Captured[Host(k)] = locks[Host(k)].captures
      /\ locks \in [Targets -> TargetLock]
  BY <1>3 DEF Captured, Inv, TypeOK
<1>6. ASSUME task'[k].at = "borrow"
      PROVE  Works' = Works /\ Claims' = Claims \cup {k}
  <2>1. Work(k)' = "open" /\ Inside(k)'
    BY <1>1, <1>6 DEF Work, Inside, Holding, Locking, Exclusive, Capturing, Caller
  <2>. QED  BY <1>2, <1>3, <2>1 DEF Works, Claims
<1>7. locks[Host(k)].holder = NoHolder => Promise!Claimed(Host(k)) = {}
  BY <1>4, HoldsLock DEF Inv
<1>8. CASE /\ Exclusive(Caller(k)) /\ task'[k].at = "borrow"
           /\ AcquireExclusive(Host(k), job[Caller(k)].tool)
  <2>1. Captured' = Captured
    BY <1>8, ExclusiveKeepsCaptures DEF Captured, Inv
  <2>2. locks[Host(k)].holder = NoHolder /\ locks[Host(k)].captures = {}
    BY <1>8 DEF AcquireExclusive, ExclusiveFree
  <2>3. Promise!Claim(k)
    BY <1>1, <1>2, <1>3, <1>5, <1>6, <1>7, <1>8, <2>1, <2>2
    DEF Works, Asks, Claims, Captured, Promise!Claim, Promise!Captured
  <2>. QED  BY <1>4, <2>3 DEF Promise!Next
<1>9. CASE /\ Capturing(Caller(k)) /\ task'[k].at = "borrow"
           /\ AcquireCapture(Host(k), Path(k))
  <2>1. /\ locks'[Host(k)].captures = locks[Host(k)].captures \cup {Path(k)}
        /\ \A u \in Targets \ {Host(k)} : locks'[u] = locks[u]
    BY <1>3, <1>5, <1>9, TakenPath
  <2>2. Captured' = [Captured EXCEPT ![Host(k)] = Captured[Host(k)] \cup {Path(k)}]
    BY <1>3, <1>5, <2>1 DEF Captured
  <2>3. locks[Host(k)].holder = NoHolder /\ Path(k) \notin locks[Host(k)].captures
    BY <1>9 DEF AcquireCapture, CaptureFree
  <2>4. Promise!Claim(k)
    BY <1>1, <1>2, <1>3, <1>5, <1>6, <1>7, <1>9, <2>2, <2>3
    DEF Works, Asks, Claims, Captured, Promise!Claim, Promise!Captured, Promise!CapturedBecomes
  <2>. QED  BY <1>4, <2>4 DEF Promise!Next
<1>10. CASE ~Free(k) /\ UNCHANGED locks /\ task'[k].at = "done" /\ ~task'[k].ok
  <2>1. Work(k)' = "failed" /\ ~Inside(k)'
    BY <1>10 DEF Work, Inside, Holding
  <2>2. Claims' = Claims /\ Captured' = Captured
    BY <1>2, <1>3, <1>10, <2>1 DEF Claims, Captured
  <2>3. CASE locks[Host(k)].holder # NoHolder
    <3>1. PICK l \in Tasks : Holds(l) /\ Host(l) = Host(k)
      BY <1>3, <2>3 DEF Inv, LocksInv
    <3>2. Promise!Claimed(Host(k)) \ {k} # {}
      BY <1>3, <1>4, <3>1 DEF Holds
    <3>3. Promise!Refuse(k)
      BY <1>1, <1>2, <1>3, <2>1, <2>2, <3>2
      DEF Works, Asks, Claims, Captured, Locking, Promise!Refuse, Promise!Goes
    <3>. QED  BY <1>4, <3>3 DEF Promise!Next
  <2>4. CASE locks[Host(k)].holder = NoHolder
    <3>1. \/ Exclusive(Caller(k)) /\ Captured[Host(k)] # {}
          \/ Capturing(Caller(k)) /\ Path(k) \in Captured[Host(k)]
      BY <1>1, <1>5, <1>10, <2>4, Distinct
      DEF Free, ExclusiveFree, CaptureFree, Locking, Exclusive, Capturing
    <3>2. Promise!Refuse(k)
      BY <1>1, <1>2, <1>3, <2>1, <2>2, <3>1
      DEF Works, Asks, Claims, Captured, Promise!Refuse, Promise!Goes, Promise!Captured
    <3>. QED  BY <1>4, <3>2 DEF Promise!Next
  <2>. QED  BY <2>3, <2>4
<1>. QED  BY <1>8, <1>9, <1>10, TakeLockCases DEF Inv

\* A task that borrows uses the host, which has room for it.
LEMMA BorrowStep ==
    ASSUME Inv, NEW k \in Tasks, Borrow(k)
    PROVE  Promise!Next
<1>1. /\ UNCHANGED <<faults, job>> /\ \A l \in Tasks \ {k} : task'[l] = task[l]
      /\ task[k].at = "borrow" /\ task'[k].at = "call" /\ Pool(k) < MaxConn
  BY StepFrame, MovesOne DEF Borrow, Step, Inv, Places, Running
<1>2. /\ Works' = [Works EXCEPT ![k] = Work(k)'] /\ Asks' = Asks
      /\ \A l \in Tasks \ {k} : Inside(l)' <=> Inside(l)
  BY <1>1, OneWorks
<1>3. /\ Promise!Asked(k) /\ Promise!Host(k) = Host(k)
      /\ Promise!Exclusive(k) \/ Promise!Captures(k) <=> Locking(Caller(k))
      /\ Host(k) \in Targets /\ job[Caller(k)].scheduler \in Calls
      /\ pc[Caller(k)] \in Fanned /\ Caller(k) \in Calls
  BY <1>1, Readings, Present DEF Inv, Locking
<1>4. Work(k)' = "connected" /\ Works[k] = "open" /\ (Inside(k)' <=> Inside(k))
  BY <1>1 DEF Work, Works, Inside, Holding, Locking, Exclusive, Capturing, Caller
<1>5. Claims' = Claims /\ Captured' = Captured
  BY <1>2, <1>4 DEF Claims, Captured, Borrow
<1>6. "race" \notin faults => Promise!Cardinality(Promise!Connected(Host(k))) < MaxConn
  <2>1. "race" \notin faults => Connected(Host(k)) = Borrowers(job[Caller(k)].scheduler, Host(k))
    BY <1>3, OnePool DEF Inv, SchedulerInv
  <2>2. Pool(k) = Cardinality(Borrowers(job[Caller(k)].scheduler, Host(k)))
    BY <1>3 DEF Inv, LentInv, Pool
  <2>. QED  BY <1>1, <2>1, <2>2, SameUsers, UsersCounted DEF Inv
<1>7. Promise!Exclusive(k) \/ Promise!Captures(k) => k \in Claims
  BY <1>1, <1>3 DEF Claims, Inside, Holding
<1>8. Promise!Connect(k)
  BY <1>1, <1>2, <1>3, <1>4, <1>5, <1>6, <1>7
  DEF Works, Asks, Claims, Captured, Promise!Connect, Promise!Goes
<1>9. Promise!Tasks = Tasks
  BY SameUsers DEF Inv
<1>. QED  BY <1>8, <1>9 DEF Promise!Next

\* A task that gets no connection is refused by a host that fails or is full.
LEMMA BorrowFailsStep ==
    ASSUME Inv, NEW k \in Tasks, BorrowFails(k)
    PROVE  Promise!Next
<1>1. /\ UNCHANGED <<faults, job>> /\ \A l \in Tasks \ {k} : task'[l] = task[l]
      /\ task[k].at = "borrow" /\ task'[k].at \in {"unlock", "done"} /\ ~task'[k].ok
      /\ Pool(k) >= MaxConn \/ "fails" \in faults
  BY StepFrame, MovesOne DEF BorrowFails, Step, Inv, Places, Running
<1>2. /\ Works' = [Works EXCEPT ![k] = Work(k)'] /\ Asks' = Asks
      /\ \A l \in Tasks \ {k} : Inside(l)' <=> Inside(l)
  BY <1>1, OneWorks
<1>3. /\ Promise!Asked(k) /\ Promise!Host(k) = Host(k)
      /\ Host(k) \in Targets /\ job[Caller(k)].scheduler \in Calls
  BY <1>1, Readings, Present DEF Inv
<1>4. Work(k)' = "failed" /\ Works[k] = "open" /\ (Inside(k)' <=> Inside(k))
  BY <1>1, StaysInside DEF Inv, Work, Works
<1>5. Claims' = Claims /\ Captured' = Captured
  BY <1>2, <1>4 DEF Claims, Captured, BorrowFails
<1>6. Pool(k) >= MaxConn => Promise!Cardinality(Promise!Connected(Host(k))) >= MaxConn
  <2>1. /\ Pool(k) = Cardinality(Borrowers(job[Caller(k)].scheduler, Host(k)))
        /\ Pool(k) \in 0 .. MaxConn
    BY <1>3 DEF Inv, LentInv, Pool, TypeOK
  <2>2. /\ Promise!Connected(Host(k)) = Connected(Host(k))
        /\ Promise!Cardinality(Connected(Host(k))) = Cardinality(Connected(Host(k)))
        /\ Cardinality(Connected(Host(k))) \in Nat
        /\ Cardinality(Borrowers(job[Caller(k)].scheduler, Host(k)))
             <= Cardinality(Connected(Host(k)))
    BY SameUsers, UsersCounted DEF Inv
  <2>. QED  BY <2>1, <2>2, BoundsAssumption
<1>7. Promise!Refuse(k)
  BY <1>1, <1>2, <1>3, <1>4, <1>5, <1>6 
  DEF Works, Asks, Claims, Captured, Promise!Refuse, Promise!Goes
<1>8. Promise!Tasks = Tasks
  BY SameUsers DEF Inv
<1>. QED  BY <1>7, <1>8 DEF Promise!Next

\* With the request over and the connection given back the work is decided.
LEMMA PerformStep ==
    ASSUME Inv, NEW k \in Tasks, Perform(k)
    PROVE  Promise!Next
<1>1. /\ UNCHANGED <<faults, job>> /\ \A l \in Tasks \ {k} : task'[l] = task[l]
      /\ task[k].at = "call" /\ task'[k].at \in {"unlock", "done"}
      /\ task'[k].ok \/ "fails" \in faults
  <2>1. PICK where \in {"unlock", "done"}, ok \in BOOLEAN :
          Moves(k, where, ok) /\ (ok \/ "fails" \in faults)
    BY DEF Perform, Operation
  <2>2. task'[k].at = where /\ task'[k].ok = ok
    BY <2>1, MovesOne DEF Inv, Places, Running
  <2>. QED  BY <2>1, <2>2, StepFrame DEF Perform, Operation, Step, Inv
<1>2. /\ Works' = [Works EXCEPT ![k] = Work(k)'] /\ Asks' = Asks
      /\ \A l \in Tasks \ {k} : Inside(l)' <=> Inside(l)
  BY <1>1, OneWorks
<1>3. /\ Work(k)' = IF task'[k].ok THEN "done" ELSE "failed"
      /\ Works[k] = "connected" /\ (Inside(k)' <=> Inside(k))
  BY <1>1, StaysInside DEF Inv, Work, Works
<1>4. Claims' = Claims /\ Captured' = Captured
  BY <1>2, <1>3 DEF Claims, Captured, Perform, Operation
<1>5. Promise!Decide(k)
  BY <1>1, <1>2, <1>3, <1>4
  DEF Works, Asks, Claims, Captured, Promise!Decide, Promise!Goes
<1>6. Promise!Tasks = Tasks
  BY SameUsers DEF Inv
<1>. QED  BY <1>5, <1>6 DEF Promise!Next

\* A task that had its host, or its path, for itself gives it free when its work is
\* decided, but a capture that was started stays; capture_stop ends it.
LEMMA FinishStep ==
    ASSUME Inv, NEW k \in Tasks, Finish(k)
    PROVE  [Promise!Next]_(Promise!vars)
<1>1. /\ UNCHANGED <<faults, job>> /\ \A l \in Tasks \ {k} : task'[l] = task[l]
      /\ task[k].at = "unlock" /\ task'[k].at = "done" /\ task'[k].ok = task[k].ok
  BY StepFrame, FinishCases DEF Finish, Step, Inv
<1>2. /\ Works' = [Works EXCEPT ![k] = Work(k)'] /\ Asks' = Asks
      /\ \A l \in Tasks \ {k} : Inside(l)' <=> Inside(l)
  BY <1>1, OneWorks
<1>3. /\ Work(k)' = Work(k) /\ ~Inside(k)'
      /\ Works[k] = IF task[k].ok THEN "done" ELSE "failed"
  BY <1>1 DEF Work, Works, Inside, Holding
<1>4. Works' = Works /\ Claims' = Claims \ {k}
  BY <1>2, <1>3 DEF Works, Claims
<1>5. /\ Promise!Asked(k) /\ Promise!Host(k) = Host(k) /\ Promise!Path(k) = Path(k)
      /\ Promise!Captures(k) <=> Capturing(Caller(k))
      /\ Promise!Stops(k) <=> job[Caller(k)].tool = STOP
      /\ Host(k) \in Targets /\ Path(k) \in Paths /\ Promise!Tasks = Tasks
  BY <1>1, Readings, Present, SameUsers DEF Inv
<1>6. k \in Claims <=> Locking(Caller(k))
  BY <1>1 DEF Claims, Inside, Holding
<1>7. Captured[Host(k)] = locks[Host(k)].captures /\ locks \in [Targets -> TargetLock]
  BY <1>5 DEF Captured, Inv, TypeOK
<1>8. CASE Exclusive(Caller(k))
  <2>1. Captured' = Captured /\ ~Capturing(Caller(k))
    BY <1>8, ExclusiveKeepsCaptures, Distinct DEF Captured, Inv, Exclusive, Capturing
  <2>2. Promise!Unclaim(k)
    BY <1>1, <1>2, <1>3, <1>4, <1>5, <1>6, <1>8, <2>1
    DEF Works, Asks, Claims, Captured, Locking, Promise!Unclaim, Promise!Decided
  <2>. QED  BY <1>5, <2>2 DEF Promise!Next
<1>9. CASE ~Exclusive(Caller(k)) /\ Stops(k)
  <2>1. ReleaseCapture(Host(k), Path(k))
    BY <1>9, FinishCases DEF Inv
  <2>2. /\ locks'[Host(k)].captures = locks[Host(k)].captures \ {Path(k)}
        /\ \A u \in Targets \ {Host(k)} : locks'[u] = locks[u]
    BY <1>5, <1>7, <2>1, FreedPath
  <2>3. Captured' = [Captured EXCEPT ![Host(k)] = Captured[Host(k)] \ {Path(k)}]
    BY <1>5, <1>7, <2>2 DEF Captured
  <2>4. CASE Capturing(Caller(k))
    <3>1. ~task[k].ok
      BY <1>9, <2>4, Distinct DEF Stops, Capturing
    <3>2. Promise!Unclaim(k)
      BY <1>1, <1>2, <1>3, <1>4, <1>5, <1>6, <2>3, <2>4, <3>1
      DEF Works, Asks, Claims, Captured, Locking, Promise!Unclaim, Promise!Decided,
          Promise!Captured, Promise!CapturedBecomes
    <3>. QED  BY <1>5, <3>2 DEF Promise!Next
  <2>5. CASE ~Capturing(Caller(k))
    <3>1. job[Caller(k)].tool = STOP /\ Claims' = Claims
      BY <1>4, <1>6, <1>9, <2>5 DEF Stops, Locking
    <3>2. Promise!Stop(k)
      BY <1>1, <1>2, <1>3, <1>4, <1>5, <2>3, <3>1
      DEF Works, Asks, Claims, Captured, Promise!Stop, Promise!Decided,
          Promise!Captured, Promise!CapturedBecomes
    <3>. QED  BY <1>5, <3>2 DEF Promise!Next
  <2>. QED  BY <2>4, <2>5
<1>10. CASE ~Exclusive(Caller(k)) /\ ~Stops(k)
  <2>1. Captured' = Captured
    BY <1>10, FinishCases DEF Captured, Inv
  <2>2. CASE Capturing(Caller(k))
    <3>1. task[k].ok
      BY <1>10, <2>2 DEF Stops
    <3>2. Promise!Unclaim(k)
      BY <1>1, <1>2, <1>3, <1>4, <1>5, <1>6, <2>1, <2>2, <3>1
      DEF Works, Asks, Claims, Captured, Locking, Promise!Unclaim, Promise!Decided
    <3>. QED  BY <1>5, <3>2 DEF Promise!Next
  <2>3. CASE ~Capturing(Caller(k))
    <3>1. Claims' = Claims
      BY <1>4, <1>6, <1>10, <2>3 DEF Locking
    <3>. QED  BY <1>1, <1>2, <1>4, <2>1, <3>1 DEF Works, Asks, Claims, Captured, Promise!vars
  <2>. QED  BY <2>2, <2>3
<1>. QED  BY <1>8, <1>9, <1>10

\* Submission and the start of a task change no work.
LEMMA SilentStep ==
    ASSUME Inv, NEW k \in Tasks, WorkStep(k),
           Submit(k) \/ \E e \in Executors : Start(e) /\ k = Head(queue[e])
    PROVE  UNCHANGED Promise!vars
<1>1. UNCHANGED <<faults, job>> /\ \A l \in Tasks \ {k} : task'[l] = task[l]
  BY WorkStepFrame DEF Inv
<1>2. \/ task[k].at \in {"new", "queued"} /\ task'[k].at \in {"queued", "lock"}
      \/ task[k].at = "queued" /\ task'[k].at = "borrow" /\ ~Locking(Caller(k))
  <2>1. CASE Submit(k)
    BY <2>1, MovesOne DEF Submit, Inv, Places, Running
  <2>2. ASSUME NEW e \in Executors, Start(e), k = Head(queue[e])
        PROVE  /\ task[k].at = "queued"
               /\ task'[k].at = IF Locking(Caller(k)) THEN "lock" ELSE "borrow"
    BY <2>2, StartFrame DEF Inv
  <2>. QED  BY <2>1, <2>2
<1>3. Work(k)' = Work(k) /\ (Inside(k)' <=> Inside(k))
  BY <1>1, <1>2 DEF Work, Inside, Holding, Locking, Exclusive, Capturing, Caller
<1>4. \A l \in Tasks \ {k} : Work(l)' = Work(l) /\ (Inside(l)' <=> Inside(l))
  BY <1>1 DEF Work, Inside, Locking, Exclusive, Capturing, Caller
<1>5. Asks' = Asks /\ Captured' = Captured
  BY <1>1, OneWorks DEF Captured, Submit, Start
<1>. QED  BY <1>1, <1>3, <1>4, <1>5, StutterStep

\* A call's steps disturb no task that has its host for itself, and no capture.
LEMMA CallKeepsInside ==
    ASSUME TypeOK, CallShape, NEW c \in Calls, CallStep(c)
    PROVE  faults' = faults /\ Claims' = Claims /\ Captured' = Captured
<1>1. \A k \in Tasks : Inside(k)' <=> Inside(k)
  BY CallStepFrame DEF Inside, Holding, Working, Running, Locking, Exclusive, Capturing
<1>. QED  BY <1>1, CallStepFrame DEF Claims, Captured

\* Begin asks.
LEMMA BeginStep ==
    ASSUME Inv, NEW c \in Calls, NEW tool \in Tools, NEW path \in Paths,
           NEW request \in Requests, NEW table \in Tables, Begin(c, tool, path, request, table)
    PROVE  Promise!Next
<1>. DEFINE hosts == Resolve(request, table)
<1>1. /\ pc[c] = "idle" /\ job[c] = None /\ task' = task
      /\ job' = [job EXCEPT ![c] = [tool |-> tool, path |-> path, hosts |-> hosts, scheduler |-> None]]
      /\ [tool |-> tool, path |-> path, hosts |-> hosts, scheduler |-> None] \in Jobs
  BY ResolveAssumption DEF Begin, Inv, CallShape, Jobs
<1>2. \A d \in Calls :
        Request(d)' = IF d = c THEN [tool |-> tool, path |-> path, hosts |-> hosts] ELSE Request(d)
  <2>1. job'[c] = [tool |-> tool, path |-> path, hosts |-> hosts, scheduler |-> None] /\ job'[c] # None
        /\ \A d \in Calls \ {c} : job'[d] = job[d]
    BY <1>1, Distinct DEF Inv, TypeOK
  <2>. QED  BY <2>1 DEF Request
<1>3. Asks' = [Asks EXCEPT ![c] = [tool |-> tool, path |-> path, hosts |-> hosts]] /\ Asks[c] = None
  BY <1>1, <1>2 DEF Asks, Request
<1>4. Works' = Works
  BY <1>1 DEF Works, Work
<1>5. faults' = faults /\ Claims' = Claims /\ Captured' = Captured
  BY CallKeepsInside DEF CallStep, Begins, Inv
<1>6. Promise!Ask(c, tool, path, hosts)
  BY <1>3, <1>4, <1>5 DEF Works, Asks, Claims, Captured, Promise!Ask
<1>. QED  BY <1>6 DEF Promise!Next

\* Until its reply a call's own steps decide nothing.
LEMMA MainStep ==
    ASSUME Inv, NEW c \in Calls, Main(c), ~Reply(c)
    PROVE  UNCHANGED Promise!vars
<1>1. faults' = faults /\ Claims' = Claims /\ Captured' = Captured
  BY CallKeepsInside DEF CallStep, Inv
<1>2. UNCHANGED <<job, task>>
      \/ (pc[c] \in {"schedule", "create"} /\ FansOut(c, scheduler))
  BY DEF Main, FindScheduler, CreateScheduler, Collect
<1>3. CASE UNCHANGED <<job, task>>
  BY <1>1, <1>3 DEF Request, Work, Claims, Captured, Promise!vars
<1>4. CASE pc[c] \in {"schedule", "create"} /\ FansOut(c, scheduler)
  <2>1. job[c] \in Jobs
    BY <1>4 DEF Inv, CallShape
  <2>2. /\ job' = [job EXCEPT ![c].scheduler = scheduler]
        /\ task' = [k \in Tasks |-> IF k \in TasksOf(c) THEN New ELSE task[k]]
    BY <1>4 DEF FansOut
  <2>3. job'[c] # None /\ job'[c].tool = job[c].tool /\ job'[c].path = job[c].path /\ job'[c].hosts = job[c].hosts
    <3>1. scheduler \in Calls \cup {None} /\ job'[c] = [job[c] EXCEPT !.scheduler = scheduler]
      BY <2>2 DEF Inv, TypeOK
    <3>2. job'[c] \in Jobs
      BY <2>1, <3>1 DEF Jobs
    <3>. QED  BY <2>1, <3>1, <3>2, Distinct DEF Jobs
  <2>4. \A d \in Calls : Request(d)' = Request(d)
    <3>1. \A d \in Calls \ {c} : job'[d] = job[d]
      BY <2>2 DEF Inv, TypeOK
    <3>. QED  BY <2>1, <2>3, <3>1, Distinct DEF Request
  <2>5. \A k \in Tasks : k \in TasksOf(c) => task[k].at = "absent"
    BY <1>4, TaskPair DEF Inv, CallShape, Fanned, TasksOf, Caller
  <2>6. \A k \in Tasks : Work(k)' = Work(k)
    <3>. SUFFICES ASSUME NEW k \in Tasks PROVE Work(k)' = Work(k)
      OBVIOUS
    <3>1. CASE k \in TasksOf(c)
      <4>1. task'[k] = New /\ task[k].at = "absent"
        BY <2>2, <2>5, <3>1
      <4>. QED  BY <4>1 DEF Work, New
    <3>2. CASE k \notin TasksOf(c)
      BY <2>2, <3>2 DEF Work
    <3>. QED  BY <3>1, <3>2
  <2>. QED  BY <1>1, <2>4, <2>6 DEF Claims, Captured, Promise!vars
<1>. QED  BY <1>2, <1>3, <1>4

\* A call replies when all its work is decided and no host is left claimed.
LEMMA ReplyStep ==
    ASSUME Inv, NEW c \in Calls, Reply(c)
    PROVE  Promise!Next
<1>1. faults' = faults /\ Claims' = Claims /\ Captured' = Captured
  BY CallKeepsInside DEF CallStep, Main, Inv
<1>2. /\ pc[c] = "reply" /\ job[c] \in Jobs /\ job' = [job EXCEPT ![c] = None]
      /\ task' = [k \in Tasks |-> IF k \in TasksOf(c) THEN Absent ELSE task[k]]
  BY DEF Reply, Inv, CallShape
<1>3. \A k \in TasksOf(c) : k \in Tasks /\ Caller(k) = c /\ task[k].at = "done"
  BY <1>2, JobTasks DEF Inv, CallShape, Fanned
<1>4. \A k \in Tasks : Caller(k) = c /\ k \notin TasksOf(c) => task[k].at = "absent"
  BY DEF Inv, CallShape
<1>5. Asks' = [Asks EXCEPT ![c] = None]
  <2>1. \A d \in Calls : job'[d] = IF d = c THEN None ELSE job[d]
    BY <1>2 DEF Inv, TypeOK
  <2>2. \A d \in Calls : Request(d)' = IF d = c THEN None ELSE Request(d)
    BY <2>1 DEF Request
  <2>. QED  BY <2>2 DEF Asks
<1>6. Works' = [k \in Tasks |-> IF k[1] = c THEN "open" ELSE Works[k]]
  <2>1. ASSUME NEW k \in Tasks
        PROVE  Work(k)' = IF Caller(k) = c THEN "open" ELSE Work(k)
    <3>1. CASE k \in TasksOf(c)
      <4>1. task'[k] = Absent /\ Caller(k) = c
        BY <1>2, <1>3, <3>1
      <4>. QED  BY <4>1 DEF Work, Absent
    <3>2. CASE k \notin TasksOf(c)
      <4>1. task'[k] = task[k]
        BY <1>2, <3>2
      <4>. QED  BY <1>4, <3>2, <4>1 DEF Work
    <3>. QED  BY <3>1, <3>2
  <2>. QED  BY <2>1 DEF Works, Caller
<1>7. Asks[c] = [tool |-> job[c].tool, path |-> job[c].path, hosts |-> Hosts(c)] /\ Asks[c] # None
  <2>1. Asks[c] = [tool |-> job[c].tool, path |-> job[c].path, hosts |-> Hosts(c)]
    BY <1>2, Distinct DEF Asks, Request, Hosts
  <2>. QED  BY <1>2, <2>1, NoneAssumption DEF Jobs, Hosts
<1>8. ASSUME NEW i \in DOMAIN Hosts(c)
      PROVE  Promise!Decided(<<c, i>>) /\ <<c, i>> \notin Claims
  <2>1. <<c, i>> \in TasksOf(c)
    BY <1>8 DEF TasksOf
  <2>2. Works[<<c, i>>] \in {"done", "failed"} /\ <<c, i>> \notin Claims
    BY <1>3, <2>1 DEF Works, Work, Claims, Inside, Holding
  <2>. QED  BY <2>2 DEF Works, Promise!Decided
<1>9. Promise!Tasks = Tasks
  BY SameUsers DEF Inv
<1>10. Promise!Answer(c)
  BY <1>1, <1>5, <1>6, <1>7, <1>8, <1>9 DEF Works, Asks, Claims, Captured, Promise!Answer
<1>. QED  BY <1>10 DEF Promise!Next

\* Every step of a call, a task or an executor is one of HostAccess, or none.
LEMMA NextHostAccess ==
    ASSUME Inv, [Next]_vars
    PROVE  [Promise!Next]_(Promise!vars)
<1>1. ASSUME NEW c \in Calls, CallStep(c) PROVE [Promise!Next]_(Promise!vars)
  BY <1>1, BeginStep, MainStep, ReplyStep DEF CallStep, Begins
<1>2. ASSUME NEW k \in Tasks, WorkStep(k) PROVE [Promise!Next]_(Promise!vars)
  BY <1>2, TakeLockStep, BorrowStep, BorrowFailsStep, PerformStep, FinishStep, SilentStep
  DEF WorkStep, Step
<1>3. CASE UNCHANGED vars
  BY <1>3, StutterStep DEF vars, Asks, Captured, Request, Work, Inside, Locking, Exclusive, Capturing, Caller
<1>. QED  BY <1>1, <1>2, <1>3, StepKinds DEF Inv

\* Initially nothing is asked, and no host is claimed.
LEMMA InitHostAccess == Init => Promise!Init
<1>. SUFFICES ASSUME Init PROVE Promise!Init
  OBVIOUS
<1>1. \A k \in Tasks : Work(k) = "open" /\ ~Inside(k)
  BY DEF Init, Absent, Work, Inside, Holding
<1>2. \A c \in Calls : Request(c) = None
  BY DEF Init, Request
<1>3. Promise!Tasks = Tasks
  BY DEF Promise!Tasks, Tasks
<1>4. \A t \in Targets : locks[t].captures = {}
  BY DEF Init, LocksInit, Unlocked
<1>. QED  BY <1>1, <1>2, <1>3, <1>4 DEF Promise!Init

\* Calls and the scheduler they share keep the promise of HostAccess: whatever
\* fails, no host has more users than it may or two claims, every piece of work is
\* decided once and fails only for a reason, and no call answers before.
THEOREM ToolCallImplementsHostAccess == Spec => ImplementsHostAccess
<1>1. Init => Promise!Init
  BY InitHostAccess
<1>2. Inv /\ [Next]_vars => [Promise!Next]_(Promise!vars)
  BY NextHostAccess
<1>. QED  BY <1>1, <1>2, Invariance, PTL DEF Spec, ImplementsHostAccess, Promise!Spec

=============================================================================
