----------------------- MODULE TargetRegistry_proofs -----------------------
(***************************************************************************)
(* The listener flag and remove_target, for any number of targets, ports   *)
(* and workers, and any choice of Scenarios.                               *)
(***************************************************************************)
EXTENDS TargetRegistry, TLAPS

----------------------------------------------------------------------------
(* Types                                                                   *)

\* What a worker's place says of its job, and how often a lock is counted.
Shape ==
    /\ \A t \in Targets : locks[t].count = IF locks[t].holder = NoHolder THEN 0 ELSE 1
    /\ \A w \in Workers :
         /\ pc[w] # "idle" => job[w] \in Jobs
         /\ pc[w] \in {"locks", "flag", "delete"} => job[w].op = "remove"
         /\ pc[w] \in {"lock", "sent", "served", "unlock"} => job[w].op \in {"start", "stop"}

\* A worker that is not idle works on a key.
LEMMA WorksOnKey ==
    ASSUME Shape, NEW w \in Workers, pc[w] # "idle"
    PROVE  Key(w) \in Keys /\ Host(w) \in Targets /\ job[w].op \in {"remove", "start", "stop"}
BY DEF Shape, Key, Host, Keys, Jobs

\* The lock manager's operations keep the lock table well formed.
LEMMA LockTypes ==
    ASSUME locks \in [Targets -> TargetLock],
           \A t \in Targets : locks[t].count = IF locks[t].holder = NoHolder THEN 0 ELSE 1,
           NEW t0 \in Targets, NEW c \in ExclusiveClasses, NEW p \in Paths \cup {NoJob},
           \/ AcquireExclusive(t0, c) \/ ReleaseExclusive(t0, c)
           \/ p \in Paths /\ (AcquireCapture(t0, p) \/ ReleaseCapture(t0, p))
    PROVE  /\ locks' \in [Targets -> TargetLock]
           /\ \A t \in Targets : locks'[t].count = IF locks'[t].holder = NoHolder THEN 0 ELSE 1
           /\ \A t \in Targets : t # t0 => locks'[t] = locks[t]
<1>1. CASE AcquireExclusive(t0, c)
  BY <1>1, NoHolderAssumption DEF AcquireExclusive, ExclusiveFree, TargetLock
<1>2. CASE p \in Paths /\ (AcquireCapture(t0, p) \/ ReleaseCapture(t0, p))
  BY <1>2 DEF AcquireCapture, ReleaseCapture, TargetLock
<1>3. CASE ReleaseExclusive(t0, c) /\ locks[t0].holder = c
  <2>1. locks[t0].count = 1
    BY <1>3, NoHolderAssumption
  <2>2. Lowered(locks[t0]) =
            [captures |-> locks[t0].captures, count |-> 0, holder |-> NoHolder]
    BY <2>1 DEF Lowered
  <2>3. locks' = [locks EXCEPT ![t0] = Lowered(locks[t0])]
    BY <1>3 DEF ReleaseExclusive
  <2>. QED  BY <2>2, <2>3 DEF TargetLock
<1>4. CASE ReleaseExclusive(t0, c) /\ locks[t0].holder # c
  BY <1>4 DEF ReleaseExclusive
<1>. QED  BY <1>1, <1>2, <1>3, <1>4

\* What a step of worker w leaves alone.
WorkerStep(w) ==
    \/ \E j \in Jobs : Begin(w, j)
    \/ Pass(w) \/ Refuse(w) \/ Delete(w)
    \/ Lock(w) \/ Conflict(w) \/ Serve(w) \/ Fails(w) \/ WriteFlag(w) \/ Unlock(w)

Others(w) == \A v \in Workers \ {w} : pc'[v] = pc[v] /\ job'[v] = job[v] /\ Key(v)' = Key(v)

\* A step of a worker moves nobody else.
LEMMA OthersStay ==
    ASSUME TypeOK, NEW w \in Workers, WorkerStep(w)
    PROVE  Others(w) /\ UNCHANGED faults
BY DEF WorkerStep, Others, Begin, Pass, Refuse, Delete, Lock, Conflict, Serve, Fails,
       WriteFlag, Unlock, Return, Goes, Key, TypeOK

\* Nobody works and nothing is registered initially.
LEMMA InitTypes == Init => TypeOK /\ Shape
BY DEF Init, LocksInit, Unlocked, TypeOK, Shape, TargetLock, PCs

\* Every step keeps the types.
LEMMA NextTypes == TypeOK /\ Shape /\ [Next]_vars => TypeOK' /\ Shape'
<1>. SUFFICES ASSUME TypeOK, Shape, [Next]_vars PROVE TypeOK' /\ Shape'
  OBVIOUS
<1>. USE DEF PCs
<1>1. ASSUME NEW k \in Keys, Add(k) \/ TargetRestarts(k) PROVE TypeOK' /\ Shape'
  BY <1>1 DEF Add, TargetRestarts, Silenced, TypeOK, Shape
<1>2. ASSUME NEW w \in Workers, NEW j \in Jobs, Begin(w, j) PROVE TypeOK' /\ Shape'
  <2>1. j.op \in {"remove", "start", "stop"}
    BY DEF Jobs
  <2>. QED  BY <1>2, <2>1 DEF Begin, Goes, TypeOK, Shape
<1>3. ASSUME NEW w \in Workers, Pass(w) \/ Refuse(w) \/ Delete(w) \/ Conflict(w) \/ Fails(w)
      PROVE  TypeOK' /\ Shape'
  BY <1>3 DEF Pass, Refuse, Delete, Conflict, Fails, Return, Goes, TypeOK, Shape
<1>4. ASSUME NEW w \in Workers, Lock(w) PROVE TypeOK' /\ Shape'
  <2>1. Host(w) \in Targets /\ AcquireExclusive(Host(w), SYSTEM)
    BY <1>4, WorksOnKey DEF Lock
  <2>2. /\ locks' \in [Targets -> TargetLock]
        /\ \A t \in Targets : locks'[t].count = IF locks'[t].holder = NoHolder THEN 0 ELSE 1
    BY <2>1, LockTypes, SystemAssumption DEF TypeOK, Shape
  <2>. QED  BY <1>4, <2>2 DEF Lock, Goes, TypeOK, Shape
<1>5. ASSUME NEW w \in Workers, Serve(w) PROVE TypeOK' /\ Shape'
  <2>1. Key(w) \in Keys
    BY <1>5, WorksOnKey DEF Serve
  <2>. QED  BY <1>5, <2>1 DEF Serve, Silenced, Goes, TypeOK, Shape
<1>6. ASSUME NEW w \in Workers, WriteFlag(w) PROVE TypeOK' /\ Shape'
  BY <1>6 DEF WriteFlag, Goes, TypeOK, Shape
<1>7. ASSUME NEW w \in Workers, Unlock(w) PROVE TypeOK' /\ Shape'
  <2>1. Host(w) \in Targets /\ ReleaseExclusive(Host(w), SYSTEM)
    BY <1>7, WorksOnKey DEF Unlock
  <2>2. /\ locks' \in [Targets -> TargetLock]
        /\ \A t \in Targets : locks'[t].count = IF locks'[t].holder = NoHolder THEN 0 ELSE 1
    BY <2>1, LockTypes, SystemAssumption DEF TypeOK, Shape
  <2>. QED  BY <1>7, <2>2 DEF Unlock, Return, Goes, TypeOK, Shape
<1>8. ASSUME NEW t0 \in Targets, OtherTool(t0) PROVE TypeOK' /\ Shape'
  <2>1. /\ locks' \in [Targets -> TargetLock]
        /\ \A t \in Targets : locks'[t].count = IF locks'[t].holder = NoHolder THEN 0 ELSE 1
    BY <1>8, LockTypes, SystemAssumption DEF OtherTool, TypeOK, Shape
  <2>. QED  BY <1>8, <2>1 DEF OtherTool, TypeOK, Shape
<1>9. CASE BridgeRestarts
  BY <1>9 DEF BridgeRestarts, Unlocked, TargetLock, TypeOK, Shape
<1>10. CASE UNCHANGED vars
  BY <1>10 DEF vars, TypeOK, Shape
<1>. QED  BY <1>1, <1>2, <1>3, <1>4, <1>5, <1>6, <1>7, <1>8, <1>9, <1>10 DEF Next

\* Every variable keeps its type, and only rows have a flag.
THEOREM RegistryTypeCorrect == Spec => []TypeOK
BY InitTypes, NextTypes, PTL DEF Spec

----------------------------------------------------------------------------
(* One socket_listen call at a time on a target                            *)

InLock(w) == pc[w] \in {"sent", "served", "unlock"}

\* The workers inside socket_listen hold their targets' locks, one for each.
LockedInv ==
    /\ \A w \in Workers : InLock(w) => locks[Host(w)].holder = SYSTEM
    /\ \A v, w \in Workers : InLock(v) /\ InLock(w) /\ Host(v) = Host(w) => v = w

\* Every step keeps LockedInv: no other tool frees a SYSTEM lock.
LEMMA NextLocked ==
    ASSUME TypeOK, Shape, LockedInv, [Next]_vars
    PROVE  LockedInv'
<1>. USE DEF InLock
<1>1. ASSUME NEW w \in Workers, WorkerStep(w), UNCHANGED locks, InLock(w)' => InLock(w),
             UNCHANGED job \/ ~InLock(w)'
      PROVE  LockedInv'
  BY <1>1, OthersStay DEF Others, LockedInv, Host, Key
<1>2. ASSUME NEW w \in Workers, NEW j \in Jobs, Begin(w, j) PROVE LockedInv'
  <2>1. ~InLock(w)'
    BY <1>2 DEF Begin, Goes, TypeOK
  <2>. QED  BY <1>1, <1>2, <2>1 DEF WorkerStep, Begin
<1>3. ASSUME NEW w \in Workers, Pass(w) \/ Refuse(w) \/ Delete(w) \/ Conflict(w)
      PROVE  LockedInv'
  <2>1. ~InLock(w)' /\ UNCHANGED locks
    BY <1>3 DEF Pass, Refuse, Delete, Conflict, Return, Goes, TypeOK
  <2>. QED  BY <1>1, <1>3, <2>1 DEF WorkerStep
<1>4. ASSUME NEW w \in Workers, Serve(w) \/ Fails(w) \/ WriteFlag(w) PROVE LockedInv'
  <2>1. InLock(w) /\ UNCHANGED <<locks, job>>
    BY <1>4 DEF Serve, Fails, WriteFlag
  <2>. QED  BY <1>1, <1>4, <2>1 DEF WorkerStep
<1>5. ASSUME NEW w \in Workers, Lock(w) PROVE LockedInv'
  <2>1. /\ Host(w) \in Targets /\ Host(w)' = Host(w)
        /\ AcquireExclusive(Host(w), SYSTEM)
    BY <1>5, WorksOnKey DEF Lock, Host, Key
  <2>2. /\ locks'[Host(w)].holder = SYSTEM
        /\ \A t \in Targets : t # Host(w) => locks'[t] = locks[t]
        /\ locks[Host(w)].holder # SYSTEM
    BY <2>1, SystemAssumption, NoHolderAssumption
       DEF AcquireExclusive, ExclusiveFree, TypeOK, TargetLock
  <2>3. Others(w)
    BY <1>5, OthersStay DEF WorkerStep
  <2>4. \A v \in Workers \ {w} :
            InLock(v)' => InLock(v) /\ Host(v)' = Host(v) /\ Host(v) # Host(w)
    BY <2>2, <2>3 DEF LockedInv, Others, Host
  <2>5. \A v \in Workers \ {w} : InLock(v)' => locks'[Host(v)'].holder = SYSTEM
    BY <2>2, <2>4, WorksOnKey DEF LockedInv
  <2>. QED  BY <2>1, <2>2, <2>4, <2>5 DEF LockedInv
<1>6. ASSUME NEW w \in Workers, Unlock(w) PROVE LockedInv'
  <2>1. Host(w) \in Targets /\ InLock(w) /\ ReleaseExclusive(Host(w), SYSTEM) /\ ~InLock(w)'
    BY <1>6, WorksOnKey DEF Unlock, Return, Goes, TypeOK
  <2>2. \A t \in Targets : t # Host(w) => locks'[t] = locks[t]
    BY <2>1 DEF ReleaseExclusive, TypeOK
  <2>3. Others(w)
    BY <1>6, OthersStay DEF WorkerStep
  <2>4. \A v \in Workers \ {w} :
            InLock(v)' => InLock(v) /\ Host(v)' = Host(v) /\ Host(v) # Host(w)
    BY <2>1, <2>3 DEF LockedInv, Others, Host
  <2>. QED  BY <2>1, <2>2, <2>4, WorksOnKey DEF LockedInv
<1>7. ASSUME NEW t0 \in Targets, OtherTool(t0) PROVE LockedInv'
  <2>1. /\ UNCHANGED <<pc, job>>
        /\ \A w \in Workers : Host(w)' = Host(w)
    BY <1>7 DEF OtherTool, Host, Key
  <2>2. \A t \in Targets : locks[t].holder = SYSTEM => locks'[t].holder = SYSTEM
    <3>1. ASSUME NEW c \in ExclusiveClasses \ {SYSTEM},
                 AcquireExclusive(t0, c) \/ (locks[t0].holder = c /\ ReleaseExclusive(t0, c))
          PROVE  \A t \in Targets : locks[t].holder = SYSTEM => locks'[t].holder = SYSTEM
      BY <3>1, SystemAssumption, NoHolderAssumption
         DEF AcquireExclusive, ExclusiveFree, ReleaseExclusive, TypeOK, TargetLock
    <3>2. ASSUME NEW p \in Paths,
                 AcquireCapture(t0, p) \/ (p \in locks[t0].captures /\ ReleaseCapture(t0, p))
          PROVE  \A t \in Targets : locks[t].holder = SYSTEM => locks'[t].holder = SYSTEM
      BY <3>2 DEF AcquireCapture, ReleaseCapture, TypeOK, TargetLock
    <3>. QED  BY <1>7, <3>1, <3>2 DEF OtherTool
  <2>. QED  BY <2>1, <2>2, WorksOnKey DEF LockedInv
<1>8. ASSUME NEW k \in Keys, Add(k) \/ TargetRestarts(k) PROVE LockedInv'
  BY <1>8 DEF Add, TargetRestarts, LockedInv, Host, Key
<1>9. CASE BridgeRestarts
  BY <1>9 DEF BridgeRestarts, LockedInv
<1>10. CASE UNCHANGED vars
  BY <1>10 DEF vars, LockedInv, Host, Key
<1>. QED  BY <1>2, <1>3, <1>4, <1>5, <1>6, <1>7, <1>8, <1>9, <1>10 DEF Next

----------------------------------------------------------------------------
(* The flag follows the listener                                           *)

\* A worker that has its answer and not yet written the flag knows how things
\* stand at the target, because nobody else may change them.
AnswerHolds ==
    \A w \in Workers : pc[w] = "served" =>
        /\ job[w].op = "stop" => Key(w) \notin listening
        /\ job[w].op = "start" /\ "restart" \notin faults => Key(w) \in listening

\* Workers that serve and worker v's answer are about different keys.
LEMMA OneServed ==
    ASSUME LockedInv, NEW w \in Workers, pc[w] = "sent",
           NEW v \in Workers, pc[v] = "served"
    PROVE  Key(v) # Key(w)
BY DEF LockedInv, InLock, Host

\* Every step keeps AnswerHolds.
LEMMA NextAnswerHolds ==
    ASSUME TypeOK, Shape, LockedInv, AnswerHolds, [Next]_vars
    PROVE  AnswerHolds'
<1>1. ASSUME NEW w \in Workers, WorkerStep(w), ~Serve(w) PROVE AnswerHolds'
  <2>1. pc'[w] # "served" /\ UNCHANGED listening
    BY <1>1 DEF WorkerStep, Begin, Pass, Refuse, Delete, Lock, Conflict, Fails,
                WriteFlag, Unlock, Return, Goes, TypeOK
  <2>. QED  BY <1>1, <2>1, OthersStay DEF Others, AnswerHolds
<1>2. ASSUME NEW w \in Workers, Serve(w) PROVE AnswerHolds'
  <2>1. /\ pc[w] = "sent" /\ Key(w) \in Keys /\ Key(w)' = Key(w) /\ job' = job
        /\ UNCHANGED faults
    BY <1>2, WorksOnKey DEF Serve, Key
  <2>2. \/ job[w].op = "start" /\ listening' = listening \cup {Key(w)}
        \/ job[w].op = "stop" /\ listening' = listening \ {Key(w)}
    BY <1>2 DEF Serve, Silenced
  <2>3. \A v \in Workers \ {w} :
            pc'[v] = "served" => pc[v] = "served" /\ Key(v)' = Key(v) /\ Key(v) # Key(w)
    BY <1>2, <2>1, OneServed, OthersStay DEF Others, WorkerStep
  <2>. QED  BY <2>1, <2>2, <2>3 DEF AnswerHolds
<1>3. ASSUME NEW k \in Keys, Add(k) \/ TargetRestarts(k) PROVE AnswerHolds'
  BY <1>3 DEF Add, TargetRestarts, Silenced, AnswerHolds, Key
<1>4. ASSUME NEW t \in Targets, OtherTool(t) PROVE AnswerHolds'
  BY <1>4 DEF OtherTool, AnswerHolds, Key
<1>5. CASE BridgeRestarts
  BY <1>5 DEF BridgeRestarts, AnswerHolds
<1>6. CASE UNCHANGED vars
  BY <1>6 DEF vars, AnswerHolds, Key
<1>. QED  BY <1>1, <1>2, <1>3, <1>4, <1>5, <1>6 DEF Next, WorkerStep

\* A step of a worker keeps the answers of the others, and its own unless it
\* writes the flag or fails.
LEMMA AnsweredStays ==
    ASSUME TypeOK, NEW w \in Workers, WorkerStep(w), NEW k \in Keys, NEW op \in {"start", "stop"},
           NEW v \in Workers, Answered(v, op, k)
    PROVE  Answered(v, op, k)' \/ (v = w /\ (WriteFlag(w) \/ Fails(w)))
<1>1. CASE v # w
  BY <1>1, OthersStay DEF Others, Answered
<1>2. CASE v = w
  BY <1>2 DEF Answered, WorkerStep, Begin, Pass, Refuse, Delete, Lock, Conflict, Serve, Unlock
<1>. QED  BY <1>1, <1>2

\* Every step keeps ListenerFlagged.
LEMMA NextListenerFlagged ==
    ASSUME TypeOK, Shape, LockedInv, AnswerHolds, ListenerFlagged, [Next]_vars
    PROVE  ListenerFlagged'
<1>. SUFFICES ASSUME faults' \cap {"timeout", "bridge", "stray"} = {},
                     NEW k \in Keys, k \in (registered \cap listening \cap Modern)'
              PROVE  k \in flagged' \/ \E w \in Workers : Answered(w, "start", k)'
  BY NextTypes DEF ListenerFlagged, TypeOK
<1>0. faults' = faults /\ Modern' = Modern
  BY DEF Next, vars, Add, TargetRestarts, Begin, Pass, Refuse, Delete, Lock, Conflict,
         Serve, Fails, WriteFlag, Unlock, OtherTool, BridgeRestarts
<1>1. k \in registered \cap listening =>
          k \in flagged \/ \E w \in Workers : Answered(w, "start", k)
  BY <1>0 DEF ListenerFlagged
<1>2. ASSUME NEW w \in Workers, WorkerStep(w), k \in registered \cap listening
      PROVE  k \in flagged' \/ \E v \in Workers : Answered(v, "start", k)'
  <2>1. CASE WriteFlag(w)
    <3>1. job[w].op \in {"start", "stop"} /\ pc[w] = "served"
      BY <2>1 DEF WriteFlag, Shape
    <3>2. CASE Key(w) = k
      <4>1. job[w].op = "start"
        BY <1>2, <3>1, <3>2 DEF AnswerHolds
      <4>. QED  BY <1>0, <1>2, <2>1, <3>2, <4>1 DEF WriteFlag
    <3>3. CASE Key(w) # k
      <4>1. k \in flagged => k \in flagged'
        BY <2>1, <3>3 DEF WriteFlag
      <4>2. \A v \in Workers : Answered(v, "start", k) => v # w
        BY <3>3 DEF Answered
      <4>. QED  BY <1>1, <1>2, <2>1, <4>1, <4>2, AnsweredStays DEF Others, Fails
    <3>. QED  BY <3>2, <3>3
  <2>2. CASE ~WriteFlag(w)
    <3>1. k \in flagged => k \in flagged'
      <4>1. CASE Delete(w)
        BY <4>1 DEF Delete
      <4>2. CASE ~Delete(w)
        BY <1>2, <2>2, <4>2 DEF WorkerStep, Begin, Pass, Refuse, Lock, Conflict, Serve,
                                Fails, Unlock
      <4>. QED  BY <4>1, <4>2
    <3>2. \A v \in Workers : Answered(v, "start", k) => ~(v = w /\ Fails(w))
      BY <1>0 DEF Answered, Fails
    <3>. QED  BY <1>1, <1>2, <2>2, <3>1, <3>2, AnsweredStays
  <2>. QED  BY <2>1, <2>2
<1>3. ASSUME NEW w \in Workers, WorkerStep(w), k \notin registered \cap listening
      PROVE  k \in flagged' \/ \E v \in Workers : Answered(v, "start", k)'
  <2>1. Serve(w) /\ job[w].op = "start" /\ Key(w) = k
    BY <1>3 DEF WorkerStep, Begin, Pass, Refuse, Delete, Lock, Conflict, Serve, Fails,
                WriteFlag, Unlock, Silenced
  <2>2. Answered(w, "start", k)'
    BY <2>1 DEF Serve, Goes, Answered, Key, TypeOK
  <2>. QED  BY <2>2
<1>4. ASSUME NEW j \in Keys, Add(j) \/ TargetRestarts(j)
      PROVE  k \in flagged' \/ \E w \in Workers : Answered(w, "start", k)'
  <2>1. k \in registered \cap listening
    BY <1>0, <1>4 DEF Add, TargetRestarts, Silenced
  <2>. QED  BY <1>1, <1>4, <2>1 DEF Add, TargetRestarts, Answered, Key
<1>5. ASSUME NEW t \in Targets, OtherTool(t)
      PROVE  k \in flagged' \/ \E w \in Workers : Answered(w, "start", k)'
  BY <1>1, <1>5 DEF OtherTool, Answered, Key
<1>6. ~BridgeRestarts
  BY <1>0 DEF BridgeRestarts
<1>7. CASE UNCHANGED vars
  BY <1>1, <1>7 DEF vars, Answered, Key
<1>. QED  BY <1>2, <1>3, <1>4, <1>5, <1>6, <1>7 DEF Next, WorkerStep

\* Every step keeps FlaggedListens.
LEMMA NextFlaggedListens ==
    ASSUME TypeOK, Shape, LockedInv, AnswerHolds, FlaggedListens, [Next]_vars
    PROVE  FlaggedListens'
<1>. SUFFICES ASSUME faults' \cap {"timeout", "bridge", "restart"} = {}, NEW k \in Keys,
                     k \in flagged'
              PROVE  k \in listening' \/ \E w \in Workers : Answered(w, "stop", k)'
  BY NextTypes DEF FlaggedListens, TypeOK
<1>0. faults' = faults
  BY DEF Next, vars, Add, TargetRestarts, Begin, Pass, Refuse, Delete, Lock, Conflict,
         Serve, Fails, WriteFlag, Unlock, OtherTool, BridgeRestarts
<1>1. k \in flagged => k \in listening \/ \E w \in Workers : Answered(w, "stop", k)
  BY <1>0 DEF FlaggedListens
<1>2. ASSUME NEW w \in Workers, WriteFlag(w)
      PROVE  k \in listening' \/ \E v \in Workers : Answered(v, "stop", k)'
  <2>1. /\ job[w].op \in {"start", "stop"} /\ pc[w] = "served"
        /\ listening' = listening
    BY <1>2 DEF WriteFlag, Shape
  <2>2. CASE Key(w) = k
    <3>1. job[w].op = "start"
      BY <1>2, <2>1, <2>2 DEF WriteFlag
    <3>. QED  BY <1>0, <2>1, <2>2, <3>1 DEF AnswerHolds
  <2>3. CASE Key(w) # k
    <3>1. k \in flagged
      BY <1>2, <2>3 DEF WriteFlag
    <3>2. \A v \in Workers : Answered(v, "stop", k) => v # w
      BY <2>3 DEF Answered
    <3>. QED  BY <1>1, <1>2, <2>1, <3>1, <3>2, AnsweredStays DEF WorkerStep
  <2>. QED  BY <2>2, <2>3
<1>3. ASSUME NEW w \in Workers, Serve(w)
      PROVE  k \in listening' \/ \E v \in Workers : Answered(v, "stop", k)'
  <2>1. k \in flagged /\ WorkerStep(w) /\ ~Fails(w) /\ ~WriteFlag(w)
    BY <1>3 DEF Serve, WorkerStep, Fails, WriteFlag, Goes, TypeOK
  <2>2. CASE k \in listening /\ k \notin listening'
    <3>1. job[w].op = "stop" /\ Key(w) = k
      BY <1>3, <2>2 DEF Serve, Silenced
    <3>2. Answered(w, "stop", k)'
      BY <1>3, <3>1 DEF Serve, Goes, Answered, Key, TypeOK
    <3>. QED  BY <3>2
  <2>3. CASE k \notin listening
    BY <1>1, <2>1, <2>3, AnsweredStays
  <2>. QED  BY <2>2, <2>3
<1>4. ASSUME NEW w \in Workers, WorkerStep(w), ~WriteFlag(w), ~Serve(w)
      PROVE  k \in listening' \/ \E v \in Workers : Answered(v, "stop", k)'
  <2>1. k \in flagged /\ listening' = listening
    BY <1>4 DEF WorkerStep, Begin, Pass, Refuse, Delete, Lock, Conflict, Fails, Unlock
  <2>2. \A v \in Workers : Answered(v, "stop", k) => ~(v = w /\ Fails(w))
    BY <1>0 DEF Answered, Fails
  <2>. QED  BY <1>1, <1>4, <2>1, <2>2, AnsweredStays
<1>5. ASSUME NEW j \in Keys, Add(j) \/ TargetRestarts(j)
      PROVE  k \in listening' \/ \E w \in Workers : Answered(w, "stop", k)'
  BY <1>0, <1>1, <1>5 DEF Add, TargetRestarts, Answered, Key
<1>6. ASSUME NEW t \in Targets, OtherTool(t)
      PROVE  k \in listening' \/ \E w \in Workers : Answered(w, "stop", k)'
  BY <1>1, <1>6 DEF OtherTool, Answered, Key
<1>7. ~BridgeRestarts
  BY <1>0 DEF BridgeRestarts
<1>8. CASE UNCHANGED vars
  BY <1>1, <1>8 DEF vars, Answered, Key
<1>. QED  BY <1>2, <1>3, <1>4, <1>5, <1>6, <1>7, <1>8 DEF Next, WorkerStep

----------------------------------------------------------------------------
(* remove_target                                                           *)

\* A remove that is watched works on a target that listens.  Once it has found
\* no lock there, no start can be about to write the flag, so the row has it,
\* and it keeps it: no stop has been served, or the remove would not be watched.
WatchInv ==
    \A w \in watched :
        /\ pc[w] \in {"locks", "flag", "delete"}
        /\ Key(w) \in listening
        /\ faults \cap {"timeout", "bridge", "stray"} = {} /\ Key(w) \in Modern =>
             /\ pc[w] \in {"flag", "delete"} /\ Key(w) \in registered => Key(w) \in flagged
             /\ pc[w] = "delete" => Key(w) \notin registered

\* Every step keeps WatchInv.
LEMMA NextWatch ==
    ASSUME TypeOK, Shape, LockedInv, AnswerHolds, ListenerFlagged, WatchInv, [Next]_vars
    PROVE  WatchInv'
<1>1. ASSUME NEW w \in Workers, NEW j \in Jobs, Begin(w, j) PROVE WatchInv'
  <2>1. WorkerStep(w) /\ UNCHANGED <<registered, flagged, listening>>
    BY <1>1 DEF WorkerStep, Begin
  <2>2. w \notin watched
    BY <1>1 DEF Begin, WatchInv
  <2>3. w \in watched' => pc'[w] = "locks" /\ Key(w)' \in listening'
    BY <1>1, <2>2 DEF Begin, Goes, Key, TypeOK
  <2>4. watched' \subseteq watched \cup {w} /\ watched \subseteq Workers
    BY <1>1 DEF Begin, TypeOK
  <2>. QED  BY <2>1, <2>2, <2>3, <2>4, OthersStay DEF WatchInv, Others
<1>2. ASSUME NEW w \in Workers, Pass(w) PROVE WatchInv'
  <2>1. /\ WorkerStep(w) /\ UNCHANGED <<faults, registered, flagged, listening, watched, job>>
        /\ Key(w)' = Key(w)
    BY <1>2 DEF WorkerStep, Pass, Key
  <2>2. \A u \in watched \ {w} : pc'[u] = pc[u] /\ Key(u)' = Key(u)
    BY <2>1, OthersStay DEF Others, TypeOK
  <2>3. CASE pc[w] = "locks"
    <3>1. pc'[w] = "flag" /\ ~HasActive(Host(w)) /\ Key(w) \in Keys
      BY <1>2, <2>3, WorksOnKey DEF Pass, Passes, Goes, TypeOK
    <3>2. \A v \in Workers : Answered(v, "start", Key(w)) => FALSE
      <4>. SUFFICES ASSUME NEW v \in Workers, Answered(v, "start", Key(w)) PROVE FALSE
        OBVIOUS
      <4>1. InLock(v) /\ Host(v) = Host(w)
        BY DEF Answered, InLock, Host
      <4>2. locks[Host(w)].holder = SYSTEM
        BY <4>1 DEF LockedInv
      <4>. QED  BY <3>1, <4>2, SystemAssumption, NoHolderAssumption DEF HasActive
    <3>3. w \in watched /\ faults \cap {"timeout", "bridge", "stray"} = {} /\ Key(w) \in Modern
            /\ Key(w) \in registered => Key(w) \in flagged
      BY <3>2 DEF ListenerFlagged, WatchInv
    <3>. QED  BY <2>1, <2>2, <3>1, <3>3 DEF WatchInv
  <2>4. CASE pc[w] = "flag"
    <3>1. pc'[w] = "delete" /\ Key(w) \notin flagged
      BY <1>2, <2>4 DEF Pass, Passes, Goes, TypeOK
    <3>. QED  BY <2>1, <2>2, <2>4, <3>1 DEF WatchInv
  <2>. QED  BY <1>2, <2>3, <2>4 DEF Pass
<1>3. ASSUME NEW w \in Workers, Refuse(w) \/ Delete(w) \/ Conflict(w) \/ Unlock(w)
      PROVE  WatchInv'
  <2>1. /\ WorkerStep(w) /\ UNCHANGED <<faults, listening>> /\ watched' = watched \ {w}
        /\ registered' \subseteq registered
        /\ \A k \in registered' : k \in flagged => k \in flagged'
    BY <1>3 DEF WorkerStep, Refuse, Delete, Conflict, Unlock, Return
  <2>2. \A u \in watched' : u \in watched /\ pc'[u] = pc[u] /\ Key(u)' = Key(u)
    BY <2>1, OthersStay DEF Others, TypeOK
  <2>. QED  BY <2>1, <2>2 DEF WatchInv
<1>4. ASSUME NEW w \in Workers, Lock(w) \/ Serve(w) \/ Fails(w) \/ WriteFlag(w)
      PROVE  WatchInv'
  <2>1. /\ WorkerStep(w) /\ w \notin watched /\ UNCHANGED <<faults, registered>>
        /\ watched' \subseteq watched
    BY <1>4 DEF WorkerStep, Lock, Serve, Fails, WriteFlag, Silenced, WatchInv
  <2>2. \A u \in watched' : u \in watched /\ pc'[u] = pc[u] /\ Key(u)' = Key(u)
    BY <2>1, OthersStay DEF Others, TypeOK
  <2>3. \A u \in watched' : Key(u) \in listening'
    BY <1>4, <2>1 DEF Lock, Serve, Fails, WriteFlag, Silenced, WatchInv
  <2>4. \A u \in watched' : Key(u) \in flagged => Key(u) \in flagged'
    <3>1. CASE WriteFlag(w)
      <4>1. job[w].op = "stop" => \A u \in watched' : Key(u) # Key(w)
        BY <2>1, <3>1 DEF WriteFlag, AnswerHolds, WatchInv
      <4>. QED  BY <3>1, <4>1 DEF WriteFlag
    <3>2. CASE ~WriteFlag(w)
      BY <1>4, <3>2 DEF Lock, Serve, Fails
    <3>. QED  BY <3>1, <3>2
  <2>. QED  BY <2>1, <2>2, <2>3, <2>4 DEF WatchInv
<1>5. ASSUME NEW k \in Keys, Add(k) PROVE WatchInv'
  <2>1. \A u \in watched : Key(u)' = Key(u)
    BY <1>5 DEF Add, Key
  <2>. QED  BY <1>5, <2>1 DEF Add, WatchInv
<1>6. ASSUME NEW k \in Keys, TargetRestarts(k) PROVE WatchInv'
  <2>1. \A u \in watched' : u \in watched /\ Key(u)' = Key(u) /\ Key(u) \in listening'
    BY <1>6 DEF TargetRestarts, Silenced, Key, TypeOK, WatchInv
  <2>. QED  BY <1>6, <2>1 DEF TargetRestarts, WatchInv
<1>7. ASSUME NEW t \in Targets, OtherTool(t) PROVE WatchInv'
  BY <1>7 DEF OtherTool, WatchInv, Key
<1>8. CASE BridgeRestarts
  BY <1>8 DEF BridgeRestarts, WatchInv
<1>9. CASE UNCHANGED vars
  BY <1>9 DEF vars, WatchInv, Key
<1>. QED  BY <1>1, <1>2, <1>3, <1>4, <1>5, <1>6, <1>7, <1>8, <1>9 DEF Next, WorkerStep

----------------------------------------------------------------------------
(* Theorems                                                                *)

IInv ==
    /\ TypeOK /\ Shape /\ LockedInv /\ AnswerHolds
    /\ ListenerFlagged /\ FlaggedListens /\ WatchInv

\* The inductive invariant holds in every reachable state.
THEOREM RegistryInvariant == Spec => []IInv
<1>1. Init => IInv
  BY InitTypes DEF Init, IInv, LockedInv, InLock, AnswerHolds, ListenerFlagged,
                   FlaggedListens, WatchInv
<1>2. IInv /\ [Next]_vars => IInv'
  BY NextTypes, NextLocked, NextAnswerHolds, NextListenerFlagged, NextFlaggedListens,
     NextWatch DEF IInv
<1>. QED  BY <1>1, <1>2, PTL DEF Spec

\* A registered target that listens has its flag or a start about to write it,
\* when answers arrive and targets are registered before they listen.
THEOREM RegistryListenerFlagged == Spec => []ListenerFlagged
<1>1. IInv => ListenerFlagged
  BY DEF IInv
<1>. QED  BY <1>1, RegistryInvariant, PTL

\* A flag belongs to a target that listens or to a stop about to clear it, when
\* answers arrive and targets do not restart.
THEOREM RegistryFlaggedListens == Spec => []FlaggedListens
<1>1. IInv => FlaggedListens
  BY DEF IInv
<1>. QED  BY <1>1, RegistryInvariant, PTL

\* remove_target deletes no row whose target has been listening since the call
\* began, although it tests and deletes in three steps.
THEOREM RegistryRemoveSparesListener == Spec => []RemoveSparesListener
<1>1. IInv => RemoveSparesListener
  BY DEF IInv, WatchInv, RemoveSparesListener
<1>. QED  BY <1>1, RegistryInvariant, PTL

============================================================================
