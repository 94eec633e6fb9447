------------------------------ MODULE BatchRun ------------------------------
(***************************************************************************)
(* The bridge's write tools over the lock manager: each worker is one      *)
(* executor thread that runs the run_one of a tool call against one        *)
(* target (server.py, _run_batch and capture_stop).                        *)
(*                                                                         *)
(*   lock -> borrow a connection -> send and wait -> give back, unlock     *)
(*                                                                         *)
(* A capture session spans two calls: capture_start keeps its CAPTURE lock *)
(* when it succeeds and capture_stop, which takes no lock, removes it.     *)
(* Tools are told apart by their lock class only.  The connection pool is  *)
(* reduced to whether the borrow succeeds (TargetPool models it), and the  *)
(* target to the captures it runs and the requests it still works on.      *)
(***************************************************************************)
EXTENDS TargetLocks

CONSTANTS
    Workers,     \* executor threads
    NoPath,      \* the empty key () of an exclusive operation
    NoRequest,   \* the request of an idle worker
    Faults       \* what may happen besides the normal course; see below

READ  == "none"           \* any tool with LockClass.NONE
START == "capture_start"
STOP  == "capture_stop"

(***************************************************************************)
(* borrowFails      pool.acquire raises in a tool that runs in _run_batch  *)
(* stopBorrowFails  pool.acquire raises in capture_stop                    *)
(* timeout          the client gives up on a request (socket timeout or    *)
(*                  a broken connection)                                   *)
(* stopIncomplete   the target answers capture_stop with an error and the  *)
(*                  capture goes on                                        *)
(* async            the target acknowledges a command and goes on with it  *)
(*                  (cmd_exec wait=false)                                  *)
(* lateStop         the agent starts a session while a stop of the same    *)
(*                  path, called before, is still running                  *)
(* earlyStop        the agent stops a path while a start of it is running  *)
(***************************************************************************)
FaultKinds == {"borrowFails", "stopBorrowFails", "timeout",
               "stopIncomplete", "async", "lateStop", "earlyStop"}

ASSUME FaultsAssumption == Faults \subseteq FaultKinds
ASSUME ClassesAssumption == ExclusiveClasses \cap {READ, START, STOP} = {}
ASSUME NoRequestAssumption ==
    NoRequest \notin [op : ExclusiveClasses \cup {READ, START, STOP},
                      target : Targets, path : Paths \cup {NoPath}]

VARIABLES
    pc,         \* where each worker is
    req,        \* the request it runs
    ok,         \* run_one's ok: whether the operation succeeded so far
    capturing,  \* capturing[t]: the paths target t writes captures to
    detached,   \* requests a target works on though no worker waits for them
    sessions,   \* sessions[t]: paths whose start returned ok, no stop called since
    lost        \* history: lost[t] is the set of paths that t may capture although
                \* the bridge is done with them, no action reads it

vars == <<locks, pc, req, ok, capturing, detached, sessions, lost>>

Requests ==
    [op : ExclusiveClasses \cup {READ}, target : Targets, path : {NoPath}]
        \cup [op : {START, STOP}, target : Targets, path : Paths]

PCs == {"idle", "lock", "borrow", "sent", "served", "unlock"}

Active(w) == pc[w] # "idle"
Is(w, op) == Active(w) /\ req[w].op = op
SameKey(r, s) == r.target = s.target /\ r.path = s.path

Init ==
    /\ LocksInit
    /\ pc = [w \in Workers |-> "idle"]
    /\ req = [w \in Workers |-> NoRequest]
    /\ ok = [w \in Workers |-> TRUE]
    /\ capturing = [t \in Targets |-> {}]
    /\ detached = {}
    /\ sessions = [t \in Targets |-> {}]
    /\ lost = [t \in Targets |-> {}]

----------------------------------------------------------------------------
(* The agent's side                                                        *)

\* Whether r starts (stops) the very session an active worker stops (starts),
\* where the agent does not do that.
Overlaps(r) ==
    \E w \in Workers :
        /\ \/ Is(w, START) /\ r.op = STOP /\ "earlyStop" \notin Faults
           \/ Is(w, STOP) /\ r.op = START /\ "lateStop" \notin Faults
        /\ SameKey(req[w], r)

\* A tool call hands target r.target to worker w.  capture_stop and the
\* read-only tools begin with the borrow, the others with their lock.
Call(w, r) ==
    /\ pc[w] = "idle"
    /\ ~Overlaps(r)
    /\ pc' = [pc EXCEPT ![w] = IF r.op \in {READ, STOP} THEN "borrow" ELSE "lock"]
    /\ req' = [req EXCEPT ![w] = r]
    /\ ok' = [ok EXCEPT ![w] = TRUE]
    /\ sessions' = IF r.op = STOP
                   THEN [sessions EXCEPT ![r.target] = @ \ {r.path}]
                   ELSE sessions
    /\ UNCHANGED <<locks, capturing, detached, lost>>

\* run_one returns its TargetResult and the thread is free again.
Return(w) ==
    /\ pc' = [pc EXCEPT ![w] = "idle"]
    /\ req' = [req EXCEPT ![w] = NoRequest]
    /\ ok' = [ok EXCEPT ![w] = TRUE]

----------------------------------------------------------------------------
(* The worker                                                              *)

\* lock_mgr.acquire of an exclusive class and of a capture key.
TakeLock(w) ==
    \/ req[w].op \in ExclusiveClasses /\ AcquireExclusive(req[w].target, req[w].op)
    \/ req[w].op = START /\ AcquireCapture(req[w].target, req[w].path)

LockFree(w) ==
    IF req[w].op = START THEN CaptureFree(req[w].target, req[w].path)
                         ELSE ExclusiveFree(req[w].target)

Lock(w) ==
    /\ pc[w] = "lock"
    /\ TakeLock(w)
    /\ pc' = [pc EXCEPT ![w] = "borrow"]
    /\ UNCHANGED <<req, ok, capturing, detached, sessions, lost>>

\* LockConflict: the target is reported failed and nothing was taken.
Conflict(w) ==
    /\ pc[w] = "lock"
    /\ ~LockFree(w)
    /\ Return(w)
    /\ UNCHANGED <<locks, capturing, detached, sessions, lost>>

\* pool.acquire returns a connection and fn sends the request on it.
Borrow(w) ==
    /\ pc[w] = "borrow"
    /\ pc' = [pc EXCEPT ![w] = "sent"]
    /\ UNCHANGED <<locks, req, ok, capturing, detached, sessions, lost>>

\* lock_mgr.release for the request's own class.
FreeLock(r) ==
    IF r.op \in {START, STOP} THEN ReleaseCapture(r.target, r.path)
    ELSE IF r.op \in ExclusiveClasses THEN ReleaseExclusive(r.target, r.op)
    ELSE UNCHANGED locks

\* pool.acquire raises: _run_batch frees the lock it took, capture_stop,
\* whose borrow is outside its try block, leaves the session's lock behind.
\* (Faulty variant: no path frees the lock.)
BorrowFailsKeepingLock(w) ==
    /\ pc[w] = "borrow"
    /\ (IF req[w].op = STOP THEN "stopBorrowFails" ELSE "borrowFails") \in Faults
    /\ Return(w)
    /\ UNCHANGED <<locks, capturing, detached, sessions, lost>>

BorrowFails(w) ==
    /\ pc[w] = "borrow"
    /\ IF req[w].op = STOP
       THEN "stopBorrowFails" \in Faults /\ UNCHANGED locks
       ELSE "borrowFails" \in Faults /\ FreeLock(req[w])
    /\ Return(w)
    /\ UNCHANGED <<capturing, detached, sessions, lost>>

\* The answer arrives; ok was decided when the target answered.
Receive(w) ==
    /\ pc[w] = "served"
    /\ pc' = [pc EXCEPT ![w] = "unlock"]
    /\ UNCHANGED <<locks, req, ok, capturing, detached, sessions, lost>>

\* History: the path of r is lost, because nobody knows what became of a start
\* or a stop or because a stop failed.  It is found again when a stop of it
\* succeeds and no start of it is still on its way.
Losing(r) == [lost EXCEPT ![r.target] = @ \cup {r.path}]
Finding(r) ==
    IF \E s \in detached : s.op = START /\ SameKey(s, r)
    THEN lost ELSE [lost EXCEPT ![r.target] = @ \ {r.path}]

\* fn raises: the socket timed out or broke.  A request that has reached the
\* target and was not answered is still carried out there.
\* (Faulty variant: only an answer ends the wait.)
TimeOutAfterAnswer(w) ==
    /\ "timeout" \in Faults
    /\ pc[w] = "served"
    /\ pc' = [pc EXCEPT ![w] = "unlock"]
    /\ ok' = [ok EXCEPT ![w] = FALSE]
    /\ UNCHANGED <<locks, req, capturing, detached, sessions, lost>>

TimeOut(w) ==
    /\ "timeout" \in Faults
    /\ pc[w] \in {"sent", "served"}
    /\ pc' = [pc EXCEPT ![w] = "unlock"]
    /\ ok' = [ok EXCEPT ![w] = FALSE]
    /\ \/ UNCHANGED detached
       \/ /\ pc[w] = "sent" /\ req[w].op # READ
          /\ detached' = detached \cup {req[w]}
    /\ lost' = IF req[w].op \in {START, STOP} THEN Losing(req[w]) ELSE lost
    /\ UNCHANGED <<locks, req, capturing, sessions>>

\* The finally blocks: the connection goes back, then the lock is freed,
\* except that a capture_start that succeeded keeps its own.
\* (Faulty variants: free it even so; keep that of a failed start; keep that
\* of a failed stop.)
KeepsLockNever(w) == FALSE
KeepsLockOfFailedStart(w) == req[w].op = START
KeepsLockOfFailedStop(w) == (req[w].op = START /\ ok[w]) \/ (req[w].op = STOP /\ ~ok[w])

KeepsLock(w) == req[w].op = START /\ ok[w]

Unlock(w) ==
    /\ pc[w] = "unlock"
    /\ IF KeepsLock(w) THEN UNCHANGED locks ELSE FreeLock(req[w])
    /\ sessions' = IF req[w].op = START /\ ok[w]
                   THEN [sessions EXCEPT ![req[w].target] = @ \cup {req[w].path}]
                   ELSE sessions
    /\ Return(w)
    /\ UNCHANGED <<capturing, detached, lost>>

Advance(w) ==
    \/ Lock(w) \/ Conflict(w)
    \/ Borrow(w) \/ BorrowFails(w)
    \/ Receive(w) \/ TimeOut(w)
    \/ Unlock(w)

----------------------------------------------------------------------------
(* The target (not part of this repository)                                *)

\* The target carries out r and answers whether it succeeded.
CarryOut(r, answer) ==
    \/ r.op \in ExclusiveClasses \cup {READ} /\ UNCHANGED capturing
    \/ /\ r.op = START /\ answer
       /\ r.path \notin capturing[r.target]
       /\ capturing' = [capturing EXCEPT ![r.target] = @ \cup {r.path}]
    \/ r.op = START /\ ~answer /\ UNCHANGED capturing
    \/ r.op = STOP /\ capturing' = [capturing EXCEPT ![r.target] = @ \ {r.path}]
    \/ r.op = STOP /\ ~answer /\ "stopIncomplete" \in Faults /\ UNCHANGED capturing

Serve(w) ==
    /\ pc[w] = "sent"
    /\ \E answer \in BOOLEAN :
         /\ CarryOut(req[w], answer)
         /\ ok' = [ok EXCEPT ![w] = answer]
    /\ pc' = [pc EXCEPT ![w] = "served"]
    /\ \/ UNCHANGED detached
       \/ /\ "async" \in Faults /\ req[w].op \in ExclusiveClasses
          /\ detached' = detached \cup {req[w]}
    /\ lost' = IF req[w].op # STOP THEN lost
               ELSE IF req[w].path \in capturing'[req[w].target] THEN Losing(req[w])
               ELSE Finding(req[w])
    /\ UNCHANGED <<locks, req, sessions>>

\* The target finishes a request nobody waits for any more.
ServeDetached(r) ==
    /\ r \in detached
    /\ detached' = detached \ {r}
    /\ \E answer \in BOOLEAN : CarryOut(r, answer)
    /\ UNCHANGED <<locks, pc, req, ok, sessions, lost>>

----------------------------------------------------------------------------

Next ==
    \/ \E w \in Workers : (\E r \in Requests : Call(w, r)) \/ Advance(w) \/ Serve(w)
    \/ \E r \in detached : ServeDetached(r)

Spec == Init /\ [][Next]_vars

(***************************************************************************)
(* The bridge's threads run: the borrow ends within BORROW_TIMEOUT and     *)
(* each socket operation within the client's timeout.  Nothing is assumed  *)
(* of the agent or of the target.                                          *)
(***************************************************************************)
FairSpec == Spec /\ \A w \in Workers : WF_vars(Advance(w))

----------------------------------------------------------------------------
(* Properties                                                              *)

\* Worker w is between taking its lock and freeing it.
Holding(w) == pc[w] \in {"borrow", "sent", "served", "unlock"}
InExclusive(w, t) == Holding(w) /\ req[w].op \in ExclusiveClasses /\ req[w].target = t
Starting(w, t, p) == Holding(w) /\ req[w].op = START /\ req[w].target = t /\ req[w].path = p
Stopping(w, t, p) == Is(w, STOP) /\ req[w].target = t /\ req[w].path = p

\* Every variable has its type, and an exclusive lock is never counted twice:
\* _exclusive_count is a counter that only ever reaches one.
TypeOK ==
    /\ locks \in [Targets -> TargetLock]
    /\ \A t \in Targets : locks[t].count = IF locks[t].holder = NoHolder THEN 0 ELSE 1
    /\ pc \in [Workers -> PCs]
    /\ req \in [Workers -> Requests \cup {NoRequest}]
    /\ \A w \in Workers : pc[w] = "idle" <=> req[w] = NoRequest
    /\ ok \in [Workers -> BOOLEAN]
    /\ capturing \in [Targets -> SUBSET Paths]
    /\ detached \subseteq Requests
    /\ sessions \in [Targets -> SUBSET Paths]
    /\ lost \in [Targets -> SUBSET Paths]

\* Two workers are never both between lock and unlock of exclusive operations
\* on one target, although _release_exclusive compares classes, not owners
\* ("per-target", commands.py LockClass).
ExclusiveMutex ==
    \A v, w \in Workers, t \in Targets :
        InExclusive(v, t) /\ InExclusive(w, t) => v = w

\* An exclusive lock is never leaked: whoever holds it is a worker that will
\* still run its release, whichever of the error paths the worker takes.
ExclusiveLockAccounted ==
    \A t \in Targets : locks[t].holder # NoHolder =>
        \E w \in Workers : InExclusive(w, t) /\ req[w].op = locks[t].holder

\* From the return of a successful capture_start until somebody calls
\* capture_stop for its path, the session's lock is held ("capture_start holds
\* the lock until capture_stop").  Needs agents that do not overlap the two.
CaptureHeldUntilStop ==
    \A t \in Targets : sessions[t] \subseteq locks[t].captures

\* A capture lock is never leaked: it belongs to an open session, to a start
\* still running or to a stop that will remove it.  Needs stops that get a
\* connection: see StopFreesLock.
CaptureLockAccounted ==
    \A t \in Targets : \A p \in locks[t].captures :
        \/ p \in sessions[t]
        \/ \E w \in Workers : Starting(w, t, p) \/ Stopping(w, t, p)

\* What the lock is for (replay_run: exclusive with captures on the same target):
\* while a target works on an exclusive operation that a call waits for, it works
\* on no other such operation, and what it captures all the same is a path the
\* bridge has given up: nobody knows whether its start or its last stop was carried
\* out, or the target answered that it was not.  Needs agents that do not overlap
\* the start and the stop of a session.
WorkingOn(t) ==
    {w \in Workers : pc[w] = "sent" /\ req[w].op \in ExclusiveClasses /\ req[w].target = t}

TargetExclusion ==
    \A t \in Targets :
        /\ WorkingOn(t) # {} => capturing[t] \subseteq lost[t]
        /\ \A v, w \in WorkingOn(t) : v = w

\* The workers implement the abstract arbiter: a start opens its session when
\* it takes the lock, a call of stop closes it.
Arbiter ==
    INSTANCE TargetArbiter WITH
        exclusive <- [t \in Targets |-> {w \in Workers : InExclusive(w, t)}],
        capture   <- [t \in Targets |->
                        sessions[t] \cup {p \in Paths : \E w \in Workers : Starting(w, t, p)}]

ImplementsArbiter == Arbiter!Spec

\* Every call returns, though the target may never answer, and an exclusive lock
\* that is taken is freed.
CallReturns ==
    /\ \A w \in Workers : Active(w) ~> ~Active(w)
    /\ \A t \in Targets : locks[t].holder # NoHolder ~> locks[t].holder = NoHolder

\* A call of capture_stop frees the path's lock, whether the stop succeeds or
\* not (server.py:498).
StopFreesLock ==
    \A w \in Workers, t \in Targets, p \in Paths :
        Stopping(w, t, p) ~> p \notin locks[t].captures

============================================================================
