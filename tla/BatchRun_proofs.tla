-------------------------- MODULE BatchRun_proofs --------------------------
(***************************************************************************)
(* Safety of the locks around the write tools, for any number of workers,  *)
(* targets, paths and lock classes, and every choice of Faults.            *)
(***************************************************************************)
EXTENDS BatchRun, TLAPS

----------------------------------------------------------------------------
(* Requests                                                                *)

\* A request names an operation, a target and, for captures, a path.
LEMMA RequestFields ==
    ASSUME NEW r \in Requests
    PROVE  /\ r.op \in ExclusiveClasses \cup {READ, START, STOP}
           /\ r.target \in Targets
           /\ r.op \in {START, STOP} => r.path \in Paths
           /\ r # NoRequest
<1>1. \/ r \in [op : ExclusiveClasses \cup {READ}, target : Targets, path : {NoPath}]
      \/ r \in [op : {START, STOP}, target : Targets, path : Paths]
  BY DEF Requests
<1>2. r \in [op : ExclusiveClasses \cup {READ, START, STOP},
             target : Targets, path : Paths \cup {NoPath}]
  BY <1>1
<1>3. r.op \in {START, STOP} => r.path \in Paths
  BY <1>1, ClassesAssumption DEF READ, START, STOP
<1>. QED  BY <1>2, <1>3, NoRequestAssumption

\* A worker that is not idle runs a request.
LEMMA ActiveRequest ==
    ASSUME TypeOK, NEW w \in Workers, pc[w] # "idle"
    PROVE  /\ req[w] \in Requests
           /\ req[w].op \in ExclusiveClasses \cup {READ, START, STOP}
           /\ req[w].target \in Targets
           /\ req[w].op \in {START, STOP} => req[w].path \in Paths
<1>1. req[w] \in Requests
  BY DEF TypeOK
<1>. QED  BY <1>1, RequestFields

----------------------------------------------------------------------------
(* Type correctness                                                        *)

LockType(lk) ==
    lk \in TargetLock /\ lk.count = IF lk.holder = NoHolder THEN 0 ELSE 1

\* The lock manager's operations keep the lock table well formed.
LEMMA LockOperationTypes ==
    ASSUME locks \in [Targets -> TargetLock], \A t \in Targets : LockType(locks[t]),
           NEW r \in Requests,
           \/ r.op \in ExclusiveClasses /\ AcquireExclusive(r.target, r.op)
           \/ r.op = START /\ AcquireCapture(r.target, r.path)
           \/ FreeLock(r)
    PROVE  locks' \in [Targets -> TargetLock] /\ \A t \in Targets : LockType(locks'[t])
<1>1. /\ r.op \in ExclusiveClasses \cup {READ, START, STOP}
      /\ r.target \in Targets
      /\ r.op \in {START, STOP} => r.path \in Paths
  BY RequestFields
<1>. DEFINE lk == locks[r.target]
<1>2. lk \in TargetLock /\ LockType(lk)
  BY <1>1
<1>3. CASE r.op \in ExclusiveClasses /\ AcquireExclusive(r.target, r.op)
  BY <1>1, <1>2, <1>3, NoHolderAssumption
     DEF AcquireExclusive, ExclusiveFree, TargetLock, LockType
<1>4. ASSUME r.op \in {START, STOP},
             \/ AcquireCapture(r.target, r.path)
             \/ ReleaseCapture(r.target, r.path)
      PROVE  locks' \in [Targets -> TargetLock] /\ \A t \in Targets : LockType(locks'[t])
  BY <1>1, <1>2, <1>4 DEF AcquireCapture, ReleaseCapture, TargetLock, LockType
<1>5. ASSUME r.op \in ExclusiveClasses, ReleaseExclusive(r.target, r.op)
      PROVE  locks' \in [Targets -> TargetLock] /\ \A t \in Targets : LockType(locks'[t])
  <2>1. CASE lk.holder = r.op
    <3>1. lk.count = 1
      BY <1>2, <1>5, <2>1, NoHolderAssumption DEF LockType
    <3>2. Lowered(lk) = [captures |-> lk.captures, count |-> 0, holder |-> NoHolder]
      BY <3>1 DEF Lowered
    <3>3. Lowered(lk) \in TargetLock /\ LockType(Lowered(lk))
      BY <1>2, <3>2 DEF TargetLock, LockType
    <3>4. locks' = [locks EXCEPT ![r.target] = Lowered(lk)]
      BY <1>5, <2>1 DEF ReleaseExclusive
    <3>. QED  BY <1>1, <3>3, <3>4
  <2>2. CASE lk.holder # r.op
    BY <1>5, <2>2 DEF ReleaseExclusive
  <2>. QED  BY <2>1, <2>2
<1>6. CASE FreeLock(r)
  BY <1>1, <1>4, <1>5, <1>6 DEF FreeLock
<1>. QED  BY <1>3, <1>4, <1>6

\* In the initial state nothing is locked and nobody works.
LEMMA InitTypeOK == Init => TypeOK
BY DEF Init, LocksInit, Unlocked, TypeOK, TargetLock, PCs

\* Every step keeps the types.
LEMMA NextTypeOK == TypeOK /\ [Next]_vars => TypeOK'
<1>. SUFFICES ASSUME TypeOK, [Next]_vars PROVE TypeOK'
  OBVIOUS
<1>. USE DEF PCs
<1>0. \A t \in Targets : LockType(locks[t])
  BY DEF TypeOK, LockType
<1>1. ASSUME NEW w \in Workers, NEW r \in Requests, Call(w, r) PROVE TypeOK'
  <2>1. r.target \in Targets /\ r # NoRequest
    BY RequestFields
  <2>. QED  BY <1>1, <2>1 DEF Call, TypeOK
<1>2. ASSUME NEW w \in Workers, Lock(w) PROVE TypeOK'
  <2>1. req[w] \in Requests
    BY <1>2, ActiveRequest DEF Lock
  <2>2. locks' \in [Targets -> TargetLock] /\ \A t \in Targets : LockType(locks'[t])
    BY <1>0, <1>2, <2>1, LockOperationTypes DEF Lock, TakeLock, TypeOK
  <2>. QED  BY <1>2, <2>2 DEF Lock, TypeOK, LockType
<1>3. ASSUME NEW w \in Workers, Conflict(w) PROVE TypeOK'
  BY <1>3 DEF Conflict, Return, TypeOK
<1>4. ASSUME NEW w \in Workers, Borrow(w) PROVE TypeOK'
  BY <1>4 DEF Borrow, TypeOK
<1>5. ASSUME NEW w \in Workers, BorrowFails(w) PROVE TypeOK'
  <2>1. req[w] \in Requests
    BY <1>5, ActiveRequest DEF BorrowFails
  <2>2. locks' \in [Targets -> TargetLock] /\ \A t \in Targets : LockType(locks'[t])
    BY <1>0, <1>5, <2>1, LockOperationTypes DEF BorrowFails, TypeOK
  <2>. QED  BY <1>5, <2>2 DEF BorrowFails, Return, TypeOK, LockType
<1>6. ASSUME NEW w \in Workers, Receive(w) PROVE TypeOK'
  BY <1>6 DEF Receive, TypeOK
<1>7. ASSUME NEW w \in Workers, TimeOut(w) PROVE TypeOK'
  <2>1. req[w] \in Requests
    BY <1>7, ActiveRequest DEF TimeOut
  <2>2. req[w].target \in Targets /\ (req[w].op \in {START, STOP} => req[w].path \in Paths)
    BY <2>1, RequestFields
  <2>3. lost' \in [Targets -> SUBSET Paths]
    BY <1>7, <2>2 DEF TimeOut, Losing, TypeOK
  <2>. QED  BY <1>7, <2>1, <2>3 DEF TimeOut, TypeOK
<1>8. ASSUME NEW w \in Workers, Unlock(w) PROVE TypeOK'
  <2>1. /\ req[w] \in Requests /\ req[w].target \in Targets
        /\ req[w].op = START => req[w].path \in Paths
    BY <1>8, ActiveRequest DEF Unlock
  <2>2. locks' \in [Targets -> TargetLock] /\ \A t \in Targets : LockType(locks'[t])
    BY <1>0, <1>8, <2>1, LockOperationTypes DEF Unlock, TypeOK
  <2>3. sessions' \in [Targets -> SUBSET Paths]
    BY <1>8, <2>1 DEF Unlock, KeepsLock, TypeOK
  <2>. QED  BY <1>8, <2>2, <2>3 DEF Unlock, Return, TypeOK, LockType
<1>9. ASSUME NEW r \in Requests, NEW answer \in BOOLEAN, CarryOut(r, answer)
      PROVE  capturing' \in [Targets -> SUBSET Paths]
  <2>1. r.target \in Targets /\ (r.op \in {START, STOP} => r.path \in Paths)
    BY RequestFields
  <2>. QED  BY <1>9, <2>1 DEF CarryOut, TypeOK
<1>10. ASSUME NEW w \in Workers, Serve(w) PROVE TypeOK'
  <2>1. req[w] \in Requests
    BY <1>10, ActiveRequest DEF Serve
  <2>2. capturing' \in [Targets -> SUBSET Paths]
    BY <1>9, <1>10, <2>1 DEF Serve
  <2>3. req[w].target \in Targets /\ (req[w].op \in {START, STOP} => req[w].path \in Paths)
    BY <2>1, RequestFields
  <2>4. lost' \in [Targets -> SUBSET Paths]
    BY <1>10, <2>3 DEF Serve, Losing, Finding, TypeOK
  <2>. QED  BY <1>10, <2>1, <2>2, <2>4 DEF Serve, TypeOK
<1>11. ASSUME NEW r \in detached, ServeDetached(r) PROVE TypeOK'
  <2>1. r \in Requests
    BY DEF TypeOK
  <2>2. capturing' \in [Targets -> SUBSET Paths]
    BY <1>9, <1>11, <2>1 DEF ServeDetached
  <2>. QED  BY <1>11, <2>2 DEF ServeDetached, TypeOK
<1>12. CASE UNCHANGED vars
  BY <1>12 DEF vars, TypeOK
<1>. QED  BY <1>1, <1>2, <1>3, <1>4, <1>5, <1>6, <1>7, <1>8, <1>10, <1>11, <1>12
          DEF Next, Advance

\* Every variable keeps its type, and no exclusive lock is counted twice.
THEOREM BatchTypeCorrect == Spec => []TypeOK
BY InitTypeOK, NextTypeOK, PTL DEF Spec

----------------------------------------------------------------------------
(* Exclusive locks                                                         *)

\* A worker inside an exclusive operation is recorded as the holder by its
\* class; with that, the class comparison of _release_exclusive frees the
\* caller's own lock and nobody else's.
LockInv ==
    /\ \A w \in Workers, t \in Targets : InExclusive(w, t) => locks[t].holder = req[w].op
    /\ ExclusiveMutex
    /\ ExclusiveLockAccounted

\* A step that changes neither the holders nor who is inside keeps LockInv.
LEMMA SameHolders ==
    ASSUME LockInv,
           \A t \in Targets : locks'[t].holder = locks[t].holder,
           \A w \in Workers, t \in Targets : InExclusive(w, t)' <=> InExclusive(w, t),
           \A w \in Workers, t \in Targets : InExclusive(w, t) => req'[w] = req[w]
    PROVE  LockInv'
BY DEF LockInv, ExclusiveMutex, ExclusiveLockAccounted

\* A worker frees its lock and returns: if it was inside an exclusive
\* operation, it alone leaves, and the target's lock becomes free.
LEMMA LeavePreserves ==
    ASSUME TypeOK, LockInv, NEW w \in Workers, Holding(w), FreeLock(req[w]), Return(w)
    PROVE  LockInv'
<1>1. /\ req[w] \in Requests
      /\ req[w].op \in ExclusiveClasses \cup {READ, START, STOP}
      /\ req[w].target \in Targets
      /\ req[w].op \in {START, STOP} => req[w].path \in Paths
  BY ActiveRequest DEF Holding
<1>2. \A v \in Workers \ {w}, t \in Targets :
          /\ InExclusive(v, t)' <=> InExclusive(v, t)
          /\ req'[v] = req[v]
  BY DEF InExclusive, Holding, Return, TypeOK
<1>3. \A t \in Targets : ~InExclusive(w, t)'
  BY DEF InExclusive, Holding, Return, TypeOK
<1>4. CASE req[w].op \in ExclusiveClasses
  <2>. DEFINE t0 == req[w].target
  <2>1. InExclusive(w, t0) /\ \A t \in Targets : InExclusive(w, t) => t = t0
    BY <1>4 DEF InExclusive
  <2>2. locks[t0].holder = req[w].op /\ locks[t0].count = 1
    BY <1>1, <1>4, <2>1, NoHolderAssumption DEF LockInv, TypeOK
  <2>3. locks' = [locks EXCEPT ![t0] = Lowered(@)]
    BY <1>4, <2>2, ClassesAssumption DEF FreeLock, ReleaseExclusive, START, STOP
  <2>4. locks'[t0].holder = NoHolder
    BY <1>1, <2>2, <2>3 DEF TypeOK, Lowered
  <2>5. \A t \in Targets \ {t0} : locks'[t] = locks[t]
    BY <2>3 DEF TypeOK
  <2>6. \A v \in Workers, t \in Targets : t = t0 => ~InExclusive(v, t)'
    BY <1>1, <1>2, <1>3, <2>1 DEF LockInv, ExclusiveMutex
  <2>7. \A v \in Workers, t \in Targets : t # t0 => (InExclusive(v, t)' <=> InExclusive(v, t))
    BY <1>2, <1>3, <2>1
  <2>8. \A v \in Workers, t \in Targets : InExclusive(v, t)' => req'[v] = req[v] /\ InExclusive(v, t)
    BY <1>2, <1>3
  <2>9. \A v \in Workers, t \in Targets : InExclusive(v, t)' => locks'[t].holder = req'[v].op
    BY <2>5, <2>6, <2>8 DEF LockInv
  <2>10. ExclusiveMutex'
    BY <2>8 DEF LockInv, ExclusiveMutex
  <2>11. ExclusiveLockAccounted'
    <3>. SUFFICES ASSUME NEW t \in Targets, locks'[t].holder # NoHolder
                  PROVE  \E v \in Workers : InExclusive(v, t)' /\ req'[v].op = locks'[t].holder
      BY DEF ExclusiveLockAccounted
    <3>1. t # t0 /\ locks'[t] = locks[t]
      BY <2>4, <2>5
    <3>2. PICK v \in Workers : InExclusive(v, t) /\ req[v].op = locks[t].holder
      BY <3>1 DEF LockInv, ExclusiveLockAccounted
    <3>3. v # w
      BY <2>1, <3>1, <3>2
    <3>. QED  BY <1>2, <3>1, <3>2, <3>3
  <2>. QED  BY <2>9, <2>10, <2>11 DEF LockInv
<1>5. CASE req[w].op \notin ExclusiveClasses
  <2>1. \A t \in Targets : ~InExclusive(w, t)
    BY <1>5 DEF InExclusive
  <2>2. \A t \in Targets : locks'[t].holder = locks[t].holder
    BY <1>1, <1>5 DEF FreeLock, ReleaseCapture, TypeOK, TargetLock
  <2>. QED  BY <1>2, <1>3, <2>1, <2>2, SameHolders
<1>. QED  BY <1>4, <1>5

\* Nobody works and nothing is locked initially.
LEMMA InitLockInv == Init => LockInv
BY DEF Init, LocksInit, Unlocked, LockInv, InExclusive, Holding,
       ExclusiveMutex, ExclusiveLockAccounted

\* Every step keeps LockInv, whatever Faults allows.
LEMMA NextLockInv == TypeOK /\ LockInv /\ [Next]_vars => LockInv'
<1>. SUFFICES ASSUME TypeOK, LockInv, [Next]_vars PROVE LockInv'
  OBVIOUS
<1>. USE DEF PCs
<1>1. ASSUME NEW w \in Workers, NEW r \in Requests, Call(w, r) PROVE LockInv'
  <2>1. pc[w] = "idle" /\ r.target \in Targets /\ r.op \in ExclusiveClasses \cup {READ, START, STOP}
    BY <1>1, RequestFields DEF Call
  <2>2. \A t \in Targets : InExclusive(w, t)' <=> InExclusive(w, t)
    BY <1>1, <2>1, ClassesAssumption DEF Call, TypeOK, InExclusive, Holding
  <2>3. \A v \in Workers \ {w} : pc'[v] = pc[v] /\ req'[v] = req[v]
    BY <1>1 DEF Call, TypeOK
  <2>4. \A t \in Targets : ~InExclusive(w, t)
    BY <2>1 DEF InExclusive, Holding
  <2>. QED  BY <1>1, <2>2, <2>3, <2>4, SameHolders DEF Call, InExclusive, Holding
<1>2. ASSUME NEW w \in Workers, Lock(w) PROVE LockInv'
  <2>1. /\ req[w].op \in ExclusiveClasses \cup {READ, START, STOP}
        /\ req[w].target \in Targets
        /\ req[w].op = START => req[w].path \in Paths
    BY <1>2, ActiveRequest DEF Lock
  <2>2. /\ pc[w] = "lock" /\ pc' = [pc EXCEPT ![w] = "borrow"] /\ req' = req
    BY <1>2 DEF Lock
  <2>3. CASE req[w].op = START /\ AcquireCapture(req[w].target, req[w].path)
    <3>1. \A t \in Targets : locks'[t].holder = locks[t].holder
      BY <2>1, <2>3 DEF AcquireCapture, TypeOK, TargetLock
    <3>2. \A v \in Workers, t \in Targets : InExclusive(v, t)' <=> InExclusive(v, t)
      BY <2>2, <2>3, ClassesAssumption DEF TypeOK, InExclusive, Holding
    <3>. QED  BY <2>2, <3>1, <3>2, SameHolders
  <2>4. CASE req[w].op \in ExclusiveClasses /\ AcquireExclusive(req[w].target, req[w].op)
    <3>. DEFINE t0 == req[w].target
    <3>1. locks[t0].holder = NoHolder
      BY <2>4 DEF AcquireExclusive, ExclusiveFree
    <3>2. \A v \in Workers : ~InExclusive(v, t0)
      BY <2>1, <3>1, NoHolderAssumption DEF LockInv, InExclusive
    <3>3. locks'[t0].holder = req[w].op
      BY <2>1, <2>4 DEF AcquireExclusive, TypeOK, TargetLock
    <3>4. \A t \in Targets : t # t0 => locks'[t] = locks[t]
      BY <2>4 DEF AcquireExclusive, TypeOK
    <3>5. \A v \in Workers, t \in Targets :
             InExclusive(v, t)' <=> InExclusive(v, t) \/ (v = w /\ t = t0)
      BY <2>2, <2>4 DEF TypeOK, InExclusive, Holding
    <3>6. (\A v \in Workers, t \in Targets : InExclusive(v, t) => locks[t].holder = req[v].op)'
      BY <2>2, <3>2, <3>3, <3>4, <3>5 DEF LockInv
    <3>7. ExclusiveMutex'
      BY <3>2, <3>5 DEF LockInv, ExclusiveMutex
    <3>8. ExclusiveLockAccounted'
      BY <2>1, <2>2, <3>3, <3>4, <3>5 DEF LockInv, ExclusiveLockAccounted
    <3>. QED  BY <3>6, <3>7, <3>8 DEF LockInv
  <2>. QED  BY <1>2, <2>3, <2>4 DEF Lock, TakeLock
<1>3. ASSUME NEW w \in Workers, Conflict(w) PROVE LockInv'
  <2>1. pc[w] = "lock" /\ pc' = [pc EXCEPT ![w] = "idle"]
    BY <1>3 DEF Conflict, Return
  <2>2. \A v \in Workers \ {w} : pc'[v] = pc[v] /\ req'[v] = req[v]
    BY <1>3 DEF Conflict, Return, TypeOK
  <2>3. \A t \in Targets : ~InExclusive(w, t) /\ ~InExclusive(w, t)'
    BY <2>1 DEF TypeOK, InExclusive, Holding
  <2>. QED  BY <1>3, <2>2, <2>3, SameHolders DEF Conflict, InExclusive, Holding
<1>4. ASSUME NEW w \in Workers, BorrowFails(w) PROVE LockInv'
  <2>1. pc[w] = "borrow" /\ Holding(w) /\ Return(w)
    BY <1>4 DEF BorrowFails, Holding
  <2>2. CASE FreeLock(req[w])
    BY <2>1, <2>2, LeavePreserves
  <2>3. CASE req[w].op = STOP /\ UNCHANGED locks
    <3>1. \A v \in Workers \ {w} : pc'[v] = pc[v] /\ req'[v] = req[v]
      BY <2>1 DEF Return, TypeOK
    <3>2. \A t \in Targets : ~InExclusive(w, t) /\ ~InExclusive(w, t)'
      BY <2>1, <2>3, ClassesAssumption DEF Return, TypeOK, InExclusive, Holding
    <3>. QED  BY <2>3, <3>1, <3>2, SameHolders DEF InExclusive, Holding
  <2>. QED  BY <1>4, <2>2, <2>3 DEF BorrowFails
<1>5. ASSUME NEW w \in Workers, Unlock(w) PROVE LockInv'
  <2>1. pc[w] = "unlock" /\ Holding(w) /\ Return(w)
    BY <1>5 DEF Unlock, Holding
  <2>2. CASE FreeLock(req[w])
    BY <2>1, <2>2, LeavePreserves
  <2>3. CASE req[w].op = START /\ UNCHANGED locks
    <3>1. \A v \in Workers \ {w} : pc'[v] = pc[v] /\ req'[v] = req[v]
      BY <2>1 DEF Return, TypeOK
    <3>2. \A t \in Targets : ~InExclusive(w, t) /\ ~InExclusive(w, t)'
      BY <2>1, <2>3, ClassesAssumption DEF Return, TypeOK, InExclusive, Holding
    <3>. QED  BY <2>3, <3>1, <3>2, SameHolders DEF InExclusive, Holding
  <2>. QED  BY <1>5, <2>2, <2>3 DEF Unlock, KeepsLock
<1>6. ASSUME NEW w \in Workers, Borrow(w) \/ Receive(w) \/ TimeOut(w) \/ Serve(w)
      PROVE  LockInv'
  <2>1. /\ UNCHANGED <<locks, req>>
        /\ \A v \in Workers : Holding(v)' <=> Holding(v)
    BY <1>6 DEF Borrow, Receive, TimeOut, Serve, TypeOK, Holding
  <2>2. \A v \in Workers, t \in Targets : InExclusive(v, t)' <=> InExclusive(v, t)
    BY <2>1 DEF InExclusive
  <2>. QED  BY <2>1, <2>2, SameHolders
<1>7. ASSUME NEW r \in detached, ServeDetached(r) PROVE LockInv'
  BY <1>7, SameHolders DEF ServeDetached, InExclusive, Holding
<1>8. CASE UNCHANGED vars
  BY <1>8, SameHolders DEF vars, InExclusive, Holding
<1>. QED  BY <1>1, <1>2, <1>3, <1>4, <1>5, <1>6, <1>7, <1>8 DEF Next, Advance

\* LockInv holds in every reachable state.
THEOREM BatchLockInvariant == Spec => []LockInv
BY InitTypeOK, NextTypeOK, InitLockInv, NextLockInv, PTL DEF Spec

\* Two workers are never inside exclusive operations on one target.
THEOREM BatchExclusiveMutex == Spec => []ExclusiveMutex
<1>1. LockInv => ExclusiveMutex
  BY DEF LockInv
<1>. QED  BY <1>1, BatchLockInvariant, PTL

\* An exclusive lock that is held belongs to a worker that will free it.
THEOREM BatchExclusiveLockAccounted == Spec => []ExclusiveLockAccounted
<1>1. LockInv => ExclusiveLockAccounted
  BY DEF LockInv
<1>. QED  BY <1>1, BatchLockInvariant, PTL

----------------------------------------------------------------------------
(* Capture sessions                                                        *)

\* Why a session keeps its lock: the only steps that remove a capture key are
\* those of a start that fails and of a stop, and neither can be under way for
\* the key of an open session.
SessionInv ==
    /\ \A w \in Workers, t \in Targets, p \in Paths :
         Starting(w, t, p) => p \in locks[t].captures /\ p \notin sessions[t]
    /\ \A v, w \in Workers, t \in Targets, p \in Paths :
         Starting(v, t, p) /\ Starting(w, t, p) => v = w
    /\ CaptureHeldUntilStop
    /\ \A w \in Workers, t \in Targets, p \in Paths :
         Stopping(w, t, p) => p \notin sessions[t]
    /\ \A v, w \in Workers : Is(v, START) /\ Is(w, STOP) => ~SameKey(req[v], req[w])

\* A worker that leaves frees at most the key it started or stopped.
LEMMA FreeLockCaptures ==
    ASSUME TypeOK, NEW w \in Workers, pc[w] # "idle", FreeLock(req[w])
    PROVE  \A t \in Targets, p \in Paths :
              p \in locks'[t].captures <=>
                  /\ p \in locks[t].captures
                  /\ ~(req[w].op \in {START, STOP} /\ req[w].target = t /\ req[w].path = p)
<1>1. /\ req[w].op \in ExclusiveClasses \cup {READ, START, STOP}
      /\ req[w].target \in Targets
      /\ req[w].op \in {START, STOP} => req[w].path \in Paths
  BY ActiveRequest
<1>2. CASE req[w].op \in {START, STOP}
  BY <1>1, <1>2 DEF FreeLock, ReleaseCapture, TypeOK, TargetLock
<1>3. CASE req[w].op \notin {START, STOP}
  BY <1>1, <1>3 DEF FreeLock, ReleaseExclusive, Lowered, TypeOK, TargetLock
<1>. QED  BY <1>2, <1>3

\* A step that leaves locks, sessions and requests alone and moves no worker
\* across its lock keeps SessionInv.
LEMMA SameSessions ==
    ASSUME SessionInv, UNCHANGED <<locks, req, sessions>>,
           \A w \in Workers : (Holding(w)' <=> Holding(w)) /\ (Active(w)' <=> Active(w))
    PROVE  SessionInv'
BY DEF SessionInv, CaptureHeldUntilStop, Starting, Stopping, Is, SameKey

\* A worker frees its key and returns.
LEMMA LeaveSessions ==
    ASSUME TypeOK, SessionInv, NEW w \in Workers, Holding(w),
           FreeLock(req[w]), Return(w), UNCHANGED sessions
    PROVE  SessionInv'
<1>1. pc[w] # "idle"
  BY DEF Holding
<1>2. /\ \A v \in Workers \ {w} : req'[v] = req[v] /\ pc'[v] = pc[v]
      /\ pc'[w] = "idle"
  BY DEF Return, TypeOK
<1>3. \A v \in Workers, t \in Targets, p \in Paths :
          /\ Starting(v, t, p)' => v # w /\ Starting(v, t, p)
          /\ Stopping(v, t, p)' => v # w /\ Stopping(v, t, p)
  BY <1>2 DEF Starting, Stopping, Is, Active, Holding
<1>4. \A v \in Workers, op \in {START, STOP} : Is(v, op)' => v # w /\ Is(v, op)
  BY <1>2 DEF Is, Active
<1>5. \A t \in Targets, p \in Paths :
          p \in locks'[t].captures <=>
              /\ p \in locks[t].captures
              /\ ~(req[w].op \in {START, STOP} /\ req[w].target = t /\ req[w].path = p)
  BY <1>1, FreeLockCaptures
<1>6. ASSUME NEW t \in Targets, NEW p \in Paths,
             req[w].op \in {START, STOP}, req[w].target = t, req[w].path = p
      PROVE  /\ p \notin sessions[t]
             /\ \A v \in Workers \ {w} : ~Starting(v, t, p)
  <2>1. CASE req[w].op = START
    <3>1. Starting(w, t, p)
      BY <1>6, <2>1 DEF Starting
    <3>. QED  BY <3>1 DEF SessionInv
  <2>2. CASE req[w].op = STOP
    <3>1. Stopping(w, t, p) /\ Is(w, STOP)
      BY <1>1, <1>6, <2>2 DEF Stopping, Is, Active
    <3>2. \A v \in Workers : Starting(v, t, p) => Is(v, START) /\ SameKey(req[v], req[w])
      BY <1>6 DEF Starting, Is, Active, Holding, SameKey
    <3>. QED  BY <3>1, <3>2 DEF SessionInv
  <2>. QED  BY <1>6, <2>1, <2>2
<1>7. \A v \in Workers, t \in Targets, p \in Paths :
          Starting(v, t, p)' => p \in locks'[t].captures /\ p \notin sessions'[t]
  BY <1>3, <1>5, <1>6 DEF SessionInv
<1>8. \A u, v \in Workers, t \in Targets, p \in Paths :
          Starting(u, t, p)' /\ Starting(v, t, p)' => u = v
  BY <1>3 DEF SessionInv
<1>9. CaptureHeldUntilStop'
  BY <1>5, <1>6 DEF SessionInv, CaptureHeldUntilStop, TypeOK
<1>10. \A v \in Workers, t \in Targets, p \in Paths : Stopping(v, t, p)' => p \notin sessions'[t]
  BY <1>3 DEF SessionInv
<1>11. \A u, v \in Workers : Is(u, START)' /\ Is(v, STOP)' => ~SameKey(req[u], req[v])'
  BY <1>2, <1>4 DEF SessionInv, SameKey
<1>. QED  BY <1>7, <1>8, <1>9, <1>10, <1>11 DEF SessionInv

\* There are no sessions initially.
LEMMA InitSessionInv == Init => SessionInv
BY DEF Init, LocksInit, Unlocked, SessionInv, Starting, Stopping, Is, Active,
       Holding, CaptureHeldUntilStop

\* The agent does not overlap the start and the stop of one session.
Orderly == Faults \cap {"lateStop", "earlyStop"} = {}

\* Every step keeps SessionInv when agents do not overlap the two.
LEMMA NextSessionInv ==
    ASSUME Orderly, TypeOK, SessionInv, [Next]_vars
    PROVE  SessionInv'
<1>1. ASSUME NEW w \in Workers, NEW r \in Requests, Call(w, r) PROVE SessionInv'
  <2>1. /\ pc[w] = "idle" /\ ~Overlaps(r)
        /\ r.target \in Targets /\ (r.op \in {START, STOP} => r.path \in Paths)
        /\ locks' = locks
    BY <1>1, RequestFields DEF Call
  <2>2. /\ \A v \in Workers \ {w} : req'[v] = req[v] /\ pc'[v] = pc[v]
        /\ req'[w] = r /\ pc'[w] \in {"lock", "borrow"}
        /\ r.op # STOP => sessions' = sessions
        /\ pc'[w] = "borrow" => r.op \in {READ, STOP}
    BY <1>1 DEF Call, TypeOK
  <2>3. /\ \A t \in Targets : sessions'[t] \subseteq sessions[t]
        /\ r.op = STOP => r.path \notin sessions'[r.target]
    BY <1>1, <2>1 DEF Call, TypeOK
  <2>4. \A v \in Workers, t \in Targets, p \in Paths :
          /\ Starting(v, t, p)' => Starting(v, t, p)
          /\ Stopping(v, t, p)' =>
               \/ v = w /\ r.op = STOP /\ r.target = t /\ r.path = p
               \/ Stopping(v, t, p)
    BY <2>1, <2>2 DEF Starting, Stopping, Is, Active, Holding, READ, START, STOP
  <2>5. \A u, v \in Workers : Is(u, START)' /\ Is(v, STOP)' => ~SameKey(req[u], req[v])'
    <3>. SUFFICES ASSUME NEW u \in Workers, NEW v \in Workers, Is(u, START)', Is(v, STOP)'
                  PROVE  ~SameKey(req[u], req[v])'
      OBVIOUS
    <3>1. u # v
      BY DEF Is, START, STOP
    <3>2. CASE u # w /\ v # w
      BY <2>2, <3>2 DEF SessionInv, Is, Active, SameKey
    <3>3. CASE u = w
      BY <2>1, <2>2, <3>1, <3>3 DEF Orderly, Overlaps, Is, Active, SameKey
    <3>4. CASE v = w
      BY <2>1, <2>2, <3>1, <3>4 DEF Orderly, Overlaps, Is, Active, SameKey
    <3>. QED  BY <3>2, <3>3, <3>4
  <2>. QED  BY <2>1, <2>3, <2>4, <2>5 DEF SessionInv, CaptureHeldUntilStop
<1>2. ASSUME NEW w \in Workers, Lock(w) PROVE SessionInv'
  <2>1. /\ req[w].op \in ExclusiveClasses \cup {READ, START, STOP}
        /\ req[w].target \in Targets
        /\ req[w].op = START => req[w].path \in Paths
    BY <1>2, ActiveRequest DEF Lock
  <2>2. /\ pc[w] = "lock" /\ UNCHANGED <<req, sessions>>
        /\ \A v \in Workers : (Active(v)' <=> Active(v)) /\ (Holding(v)' <=> Holding(v) \/ v = w)
    BY <1>2 DEF Lock, TypeOK, Active, Holding
  <2>3. CASE req[w].op = START /\ AcquireCapture(req[w].target, req[w].path)
    <3>1. \A t \in Targets, p \in Paths :
            p \in locks'[t].captures <=>
                p \in locks[t].captures \/ (t = req[w].target /\ p = req[w].path)
      BY <2>1, <2>3 DEF AcquireCapture, TypeOK, TargetLock
    <3>2. req[w].path \notin locks[req[w].target].captures
      BY <2>3 DEF AcquireCapture, CaptureFree
    <3>3. \A v \in Workers, t \in Targets, p \in Paths :
            /\ Starting(v, t, p)' =>
                  Starting(v, t, p) \/ (v = w /\ t = req[w].target /\ p = req[w].path)
            /\ Stopping(v, t, p)' => Stopping(v, t, p)
      BY <2>2 DEF Starting, Stopping, Is
    <3>4. \A u, v \in Workers : Is(u, START)' /\ Is(v, STOP)' => ~SameKey(req[u], req[v])'
      BY <2>2 DEF SessionInv, Is, SameKey
    <3>5. \A v \in Workers, t \in Targets, p \in Paths :
            Starting(v, t, p)' => p \in locks'[t].captures /\ p \notin sessions'[t]
      BY <2>1, <2>2, <2>3, <3>1, <3>2, <3>3 DEF SessionInv, CaptureHeldUntilStop
    <3>6. \A u, v \in Workers, t \in Targets, p \in Paths :
            Starting(u, t, p)' /\ Starting(v, t, p)' => u = v
      BY <3>2, <3>3 DEF SessionInv
    <3>7. CaptureHeldUntilStop'
      BY <2>2, <3>1 DEF SessionInv, CaptureHeldUntilStop, TypeOK
    <3>8. \A v \in Workers, t \in Targets, p \in Paths : Stopping(v, t, p)' => p \notin sessions'[t]
      BY <2>2, <3>3 DEF SessionInv
    <3>. QED  BY <3>4, <3>5, <3>6, <3>7, <3>8 DEF SessionInv
  <2>4. CASE req[w].op \in ExclusiveClasses /\ AcquireExclusive(req[w].target, req[w].op)
    <3>1. \A t \in Targets : locks'[t].captures = locks[t].captures
      BY <2>1, <2>4 DEF AcquireExclusive, TypeOK, TargetLock
    <3>2. \A v \in Workers, t \in Targets, p \in Paths :
            /\ Starting(v, t, p)' => Starting(v, t, p)
            /\ Stopping(v, t, p)' => Stopping(v, t, p)
      BY <2>2, <2>4, ClassesAssumption DEF Starting, Stopping, Is
    <3>3. \A u, v \in Workers : Is(u, START)' /\ Is(v, STOP)' => ~SameKey(req[u], req[v])'
      BY <2>2 DEF SessionInv, Is, SameKey
    <3>. QED  BY <2>2, <3>1, <3>2, <3>3 DEF SessionInv, CaptureHeldUntilStop
  <2>. QED  BY <1>2, <2>3, <2>4 DEF Lock, TakeLock
<1>3. ASSUME NEW w \in Workers, Conflict(w) PROVE SessionInv'
  <2>1. /\ pc'[w] = "idle" /\ UNCHANGED <<locks, sessions>>
        /\ \A v \in Workers \ {w} : req'[v] = req[v] /\ pc'[v] = pc[v]
    BY <1>3 DEF Conflict, Return, TypeOK
  <2>2. \A v \in Workers, t \in Targets, p \in Paths :
          /\ Starting(v, t, p)' => Starting(v, t, p)
          /\ Stopping(v, t, p)' => Stopping(v, t, p)
    BY <2>1 DEF Starting, Stopping, Is, Active, Holding
  <2>3. \A u, v \in Workers : Is(u, START)' /\ Is(v, STOP)' => ~SameKey(req[u], req[v])'
    BY <2>1 DEF SessionInv, Is, Active, SameKey
  <2>. QED  BY <2>1, <2>2, <2>3 DEF SessionInv, CaptureHeldUntilStop
<1>4. ASSUME NEW w \in Workers, BorrowFails(w) PROVE SessionInv'
  <2>1. Holding(w) /\ Return(w) /\ UNCHANGED sessions
    BY <1>4 DEF BorrowFails, Holding
  <2>2. CASE FreeLock(req[w])
    BY <2>1, <2>2, LeaveSessions
  <2>3. CASE req[w].op = STOP /\ UNCHANGED locks
    <3>1. /\ pc'[w] = "idle"
          /\ \A v \in Workers \ {w} : req'[v] = req[v] /\ pc'[v] = pc[v]
      BY <2>1 DEF Return, TypeOK
    <3>2. \A v \in Workers, t \in Targets, p \in Paths :
            /\ Starting(v, t, p)' => Starting(v, t, p)
            /\ Stopping(v, t, p)' => Stopping(v, t, p)
      BY <3>1 DEF Starting, Stopping, Is, Active, Holding
    <3>3. \A u, v \in Workers : Is(u, START)' /\ Is(v, STOP)' => ~SameKey(req[u], req[v])'
      BY <3>1 DEF SessionInv, Is, Active, SameKey
    <3>. QED  BY <2>1, <2>3, <3>2, <3>3 DEF SessionInv, CaptureHeldUntilStop
  <2>. QED  BY <1>4, <2>2, <2>3 DEF BorrowFails
<1>5. ASSUME NEW w \in Workers, Unlock(w) PROVE SessionInv'
  <2>1. Holding(w) /\ Return(w) /\ pc[w] # "idle"
    BY <1>5 DEF Unlock, Holding
  <2>2. CASE FreeLock(req[w]) /\ UNCHANGED sessions
    BY <2>1, <2>2, LeaveSessions
  <2>3. CASE /\ req[w].op = START /\ UNCHANGED locks
             /\ sessions' = [sessions EXCEPT ![req[w].target] = @ \cup {req[w].path}]
    <3>1. req[w].target \in Targets /\ req[w].path \in Paths
      BY <2>1, <2>3, ActiveRequest
    <3>2. /\ pc'[w] = "idle"
          /\ \A v \in Workers \ {w} : req'[v] = req[v] /\ pc'[v] = pc[v]
      BY <2>1 DEF Return, TypeOK
    <3>3. \A v \in Workers, t \in Targets, p \in Paths :
            /\ Starting(v, t, p)' => v # w /\ Starting(v, t, p)
            /\ Stopping(v, t, p)' => v # w /\ Stopping(v, t, p)
      BY <3>2 DEF Starting, Stopping, Is, Active, Holding
    <3>4. \A u, v \in Workers : Is(u, START)' /\ Is(v, STOP)' => ~SameKey(req[u], req[v])'
      BY <3>2 DEF SessionInv, Is, Active, SameKey
    <3>5. Starting(w, req[w].target, req[w].path) /\ Is(w, START)
      BY <2>1, <2>3 DEF Starting, Is, Active
    <3>6. \A t \in Targets, p \in Paths :
            p \in sessions'[t] => p \in sessions[t] \/ (t = req[w].target /\ p = req[w].path)
      BY <2>3, <3>1 DEF TypeOK
    <3>7. \A v \in Workers :
            Stopping(v, req[w].target, req[w].path) => Is(v, STOP) /\ SameKey(req[w], req[v])
      BY DEF Stopping, SameKey
    <3>8. \A v \in Workers, t \in Targets, p \in Paths :
            Starting(v, t, p)' => p \in locks'[t].captures /\ p \notin sessions'[t]
      BY <2>3, <3>1, <3>3, <3>5, <3>6 DEF SessionInv
    <3>9. CaptureHeldUntilStop'
      BY <2>3, <3>1, <3>5 DEF SessionInv, CaptureHeldUntilStop, TypeOK
    <3>10. \A v \in Workers, t \in Targets, p \in Paths : Stopping(v, t, p)' => p \notin sessions'[t]
      BY <3>3, <3>5, <3>6, <3>7 DEF SessionInv
    <3>11. \A u, v \in Workers, t \in Targets, p \in Paths :
            Starting(u, t, p)' /\ Starting(v, t, p)' => u = v
      BY <3>3 DEF SessionInv
    <3>. QED  BY <3>4, <3>8, <3>9, <3>10, <3>11 DEF SessionInv
  <2>. QED  BY <1>5, <2>2, <2>3 DEF Unlock, KeepsLock
<1>6. ASSUME NEW w \in Workers, Borrow(w) \/ Receive(w) \/ TimeOut(w) \/ Serve(w)
      PROVE  SessionInv'
  <2>1. /\ UNCHANGED <<locks, req, sessions>>
        /\ \A v \in Workers : (Holding(v)' <=> Holding(v)) /\ (Active(v)' <=> Active(v))
    BY <1>6 DEF Borrow, Receive, TimeOut, Serve, TypeOK, Holding, Active
  <2>. QED  BY <2>1, SameSessions
<1>7. ASSUME NEW r \in detached, ServeDetached(r) PROVE SessionInv'
  BY <1>7, SameSessions DEF ServeDetached, Holding, Active
<1>8. CASE UNCHANGED vars
  BY <1>8, SameSessions DEF vars, Holding, Active
<1>. QED  BY <1>1, <1>2, <1>3, <1>4, <1>5, <1>6, <1>7, <1>8 DEF Next, Advance

\* When agents do not overlap the start and the stop of a session, the CAPTURE
\* lock is held from the return of capture_start until capture_stop is called,
\* whichever connections fail, whichever answers are lost.
THEOREM BatchCaptureHeldUntilStop ==
    ASSUME Orderly
    PROVE  Spec => []CaptureHeldUntilStop
<1>1. Init => TypeOK /\ SessionInv
  BY InitTypeOK, InitSessionInv
<1>2. TypeOK /\ SessionInv /\ [Next]_vars => (TypeOK /\ SessionInv)'
  BY NextTypeOK, NextSessionInv
<1>3. SessionInv => CaptureHeldUntilStop
  BY DEF SessionInv
<1>. QED  BY <1>1, <1>2, <1>3, PTL DEF Spec

----------------------------------------------------------------------------
(* No capture lock is left behind                                          *)

\* Somebody answers for the key p of t: an open session, or a start or a stop
\* that is under way.
Covered(t, p) ==
    p \in sessions[t] \/ \E w \in Workers : Starting(w, t, p) \/ Stopping(w, t, p)

\* capture_stop takes no lock, so no stop ends with a conflict.
StopsTakeNoLock == \A w \in Workers : pc[w] = "lock" => req[w].op # STOP

\* Only Call moves a worker to its lock, and never a stop.
LEMMA NextStopsTakeNoLock ==
    ASSUME TypeOK, StopsTakeNoLock, [Next]_vars
    PROVE  StopsTakeNoLock'
<1>1. ASSUME NEW w \in Workers, NEW r \in Requests, Call(w, r) PROVE StopsTakeNoLock'
  BY <1>1 DEF Call, StopsTakeNoLock, TypeOK
<1>2. ASSUME NEW w \in Workers, Advance(w) \/ Serve(w) PROVE StopsTakeNoLock'
  BY <1>2 DEF Advance, Lock, Conflict, Borrow, BorrowFails, Receive, TimeOut, Unlock,
              Return, Serve, StopsTakeNoLock, TypeOK
<1>3. ASSUME NEW r \in detached, ServeDetached(r) PROVE StopsTakeNoLock'
  BY <1>3 DEF ServeDetached, StopsTakeNoLock
<1>4. CASE UNCHANGED vars
  BY <1>4 DEF vars, StopsTakeNoLock
<1>. QED  BY <1>1, <1>2, <1>3, <1>4 DEF Next

\* A step that takes a key's cover away takes the key, or opens or closes its
\* session.
LEMMA StillCovered ==
    ASSUME CaptureLockAccounted,
           \A t \in Targets, p \in Paths :
              p \in locks'[t].captures =>
                 /\ p \in Paths
                 /\ Covered(t, p)' \/ (p \in locks[t].captures /\ (Covered(t, p) => Covered(t, p)')),
           \A t \in Targets : locks'[t].captures \subseteq Paths
    PROVE  CaptureLockAccounted'
BY DEF CaptureLockAccounted, Covered

\* A worker that leaves without its key takes only its own cover with it.
LEMMA LeaveCovered ==
    ASSUME TypeOK, CaptureLockAccounted, NEW w \in Workers, Holding(w),
           FreeLock(req[w]), Return(w), UNCHANGED sessions, TypeOK'
    PROVE  CaptureLockAccounted'
<1>1. \A v \in Workers \ {w} : req'[v] = req[v] /\ pc'[v] = pc[v]
  BY DEF Return, TypeOK
<1>2. \A t \in Targets, p \in Paths :
          p \in locks'[t].captures <=>
              /\ p \in locks[t].captures
              /\ ~(req[w].op \in {START, STOP} /\ req[w].target = t /\ req[w].path = p)
  BY FreeLockCaptures DEF Holding
<1>3. \A v \in Workers \ {w}, t \in Targets, p \in Paths :
          /\ Starting(v, t, p) => Starting(v, t, p)'
          /\ Stopping(v, t, p) => Stopping(v, t, p)'
  BY <1>1 DEF Starting, Stopping, Is, Active, Holding
<1>4. \A t \in Targets, p \in Paths :
          p \in locks'[t].captures => ~Starting(w, t, p) /\ ~Stopping(w, t, p)
  BY <1>2 DEF Starting, Stopping, Is
<1>5. \A t \in Targets, p \in Paths :
          p \in locks'[t].captures => p \in locks[t].captures /\ (Covered(t, p) => Covered(t, p)')
  BY <1>2, <1>3, <1>4 DEF Covered
<1>6. \A t \in Targets : locks'[t].captures \subseteq Paths
  BY DEF TypeOK, TargetLock
<1>. QED  BY <1>5, <1>6, StillCovered

\* Nothing is locked initially.
LEMMA InitCovered == Init => CaptureLockAccounted
BY DEF Init, LocksInit, Unlocked, CaptureLockAccounted

\* Every step keeps it, overlapping agents or not, when stops get a connection.
LEMMA NextCovered ==
    ASSUME "stopBorrowFails" \notin Faults, TypeOK, TypeOK', StopsTakeNoLock,
           CaptureLockAccounted, [Next]_vars
    PROVE  CaptureLockAccounted'
<1>0. \A t \in Targets : locks'[t].captures \subseteq Paths
  BY DEF TypeOK, TargetLock
<1>1. ASSUME NEW w \in Workers, NEW r \in Requests, Call(w, r) PROVE CaptureLockAccounted'
  <2>1. /\ pc[w] = "idle" /\ locks' = locks /\ req'[w] = r /\ pc'[w] # "idle"
        /\ r.target \in Targets
        /\ \A v \in Workers \ {w} : req'[v] = req[v] /\ pc'[v] = pc[v]
    BY <1>1, RequestFields DEF Call, TypeOK
  <2>2. \A v \in Workers, t \in Targets, p \in Paths :
          /\ Starting(v, t, p) => Starting(v, t, p)'
          /\ Stopping(v, t, p) => Stopping(v, t, p)'
    BY <2>1 DEF Starting, Stopping, Is, Active, Holding
  <2>3. \A t \in Targets, p \in Paths :
          p \in sessions[t] => p \in sessions'[t] \/ Stopping(w, t, p)'
    BY <1>1, <2>1 DEF Call, TypeOK, Stopping, Is, Active
  <2>. QED  BY <1>0, <2>1, <2>2, <2>3, StillCovered DEF Covered
<1>2. ASSUME NEW w \in Workers, Lock(w) PROVE CaptureLockAccounted'
  <2>1. /\ req[w].op \in ExclusiveClasses \cup {READ, START, STOP}
        /\ req[w].target \in Targets
        /\ req[w].op = START => req[w].path \in Paths
    BY <1>2, ActiveRequest DEF Lock
  <2>2. /\ UNCHANGED <<req, sessions>> /\ Holding(w)'
        /\ \A v \in Workers : (Active(v) => Active(v)') /\ (Holding(v) => Holding(v)')
    BY <1>2 DEF Lock, TypeOK, Active, Holding
  <2>3. \A v \in Workers, t \in Targets, p \in Paths :
          /\ Starting(v, t, p) => Starting(v, t, p)'
          /\ Stopping(v, t, p) => Stopping(v, t, p)'
    BY <2>2 DEF Starting, Stopping, Is
  <2>4. \A t \in Targets, p \in Paths :
          p \in locks'[t].captures => p \in locks[t].captures \/ Starting(w, t, p)'
    <3>1. CASE req[w].op = START /\ AcquireCapture(req[w].target, req[w].path)
      BY <2>1, <2>2, <3>1 DEF AcquireCapture, TypeOK, TargetLock, Starting
    <3>2. CASE AcquireExclusive(req[w].target, req[w].op)
      BY <2>1, <3>2 DEF AcquireExclusive, TypeOK, TargetLock
    <3>. QED  BY <1>2, <3>1, <3>2 DEF Lock, TakeLock
  <2>. QED  BY <1>0, <2>2, <2>3, <2>4, StillCovered DEF Covered
<1>3. ASSUME NEW w \in Workers, Conflict(w) PROVE CaptureLockAccounted'
  <2>1. /\ UNCHANGED <<locks, sessions>> /\ pc[w] = "lock"
        /\ \A v \in Workers \ {w} : req'[v] = req[v] /\ pc'[v] = pc[v]
    BY <1>3 DEF Conflict, Return, TypeOK
  <2>2. \A t \in Targets, p \in Paths : ~Starting(w, t, p)
    BY <2>1 DEF Starting, Holding
  <2>3. \A t \in Targets, p \in Paths : ~Stopping(w, t, p)
    BY <2>1 DEF StopsTakeNoLock, Stopping, Is
  <2>. QED  BY <1>0, <2>1, <2>2, <2>3, StillCovered
            DEF Covered, Starting, Stopping, Is, Active, Holding
<1>4. ASSUME NEW w \in Workers, BorrowFails(w) PROVE CaptureLockAccounted'
  BY <1>4, LeaveCovered DEF BorrowFails, Holding
<1>5. ASSUME NEW w \in Workers, Unlock(w) PROVE CaptureLockAccounted'
  <2>1. Holding(w) /\ Return(w) /\ pc[w] # "idle"
    BY <1>5 DEF Unlock, Holding
  <2>2. CASE FreeLock(req[w]) /\ UNCHANGED sessions
    BY <2>1, <2>2, LeaveCovered
  <2>3. CASE /\ req[w].op = START /\ UNCHANGED locks
             /\ sessions' = [sessions EXCEPT ![req[w].target] = @ \cup {req[w].path}]
    <3>1. req[w].target \in Targets /\ req[w].path \in Paths
      BY <2>1, <2>3, ActiveRequest
    <3>2. \A v \in Workers \ {w} : req'[v] = req[v] /\ pc'[v] = pc[v]
      BY <2>1 DEF Return, TypeOK
    <3>3. \A t \in Targets, p \in Paths :
            /\ p \in sessions[t] => p \in sessions'[t]
            /\ Starting(w, t, p) => p \in sessions'[t]
            /\ ~Stopping(w, t, p)
      BY <2>3, <3>1 DEF TypeOK, Starting, Stopping, Is, START, STOP
    <3>4. \A v \in Workers \ {w}, t \in Targets, p \in Paths :
            /\ Starting(v, t, p) => Starting(v, t, p)'
            /\ Stopping(v, t, p) => Stopping(v, t, p)'
      BY <3>2 DEF Starting, Stopping, Is, Active, Holding
    <3>5. \A t \in Targets, p \in Paths : Covered(t, p) => Covered(t, p)'
      BY <3>3, <3>4 DEF Covered
    <3>. QED  BY <1>0, <2>3, <3>5, StillCovered
  <2>. QED  BY <1>5, <2>2, <2>3 DEF Unlock, KeepsLock
<1>6. ASSUME NEW w \in Workers, Borrow(w) \/ Receive(w) \/ TimeOut(w) \/ Serve(w)
      PROVE  CaptureLockAccounted'
  <2>1. /\ UNCHANGED <<locks, req, sessions>>
        /\ \A v \in Workers : (Holding(v)' <=> Holding(v)) /\ (Active(v)' <=> Active(v))
    BY <1>6 DEF Borrow, Receive, TimeOut, Serve, TypeOK, Holding, Active
  <2>. QED  BY <2>1 DEF CaptureLockAccounted, Starting, Stopping, Is
<1>7. ASSUME NEW r \in detached, ServeDetached(r) PROVE CaptureLockAccounted'
  BY <1>7 DEF ServeDetached, CaptureLockAccounted, Starting, Stopping, Is, Active, Holding
<1>8. CASE UNCHANGED vars
  BY <1>8 DEF vars, CaptureLockAccounted, Starting, Stopping, Is, Active, Holding
<1>. QED  BY <1>1, <1>2, <1>3, <1>4, <1>5, <1>6, <1>7, <1>8 DEF Next, Advance

\* When stops get a connection, no capture lock is left without an open
\* session, a start or a stop that answers for it: every path through run_one
\* that fails takes its key away, and no session loses its own unnoticed.
THEOREM BatchCaptureLockAccounted ==
    ASSUME "stopBorrowFails" \notin Faults
    PROVE  Spec => []CaptureLockAccounted
<1>. DEFINE Inv == TypeOK /\ StopsTakeNoLock /\ CaptureLockAccounted
<1>1. Init => Inv
  BY InitTypeOK, InitCovered DEF Init, StopsTakeNoLock
<1>2. Inv /\ [Next]_vars => Inv'
  BY NextTypeOK, NextStopsTakeNoLock, NextCovered
<1>. QED  BY <1>1, <1>2, PTL DEF Spec

============================================================================
