------------------------ MODULE BatchArbiter_proofs ------------------------
(***************************************************************************)
(* What the locks are for.  The workers and their locks implement the      *)
(* abstract arbiter, as long as agents do not overlap the start and the    *)
(* stop of a capture session.  What follows for the target itself: beside  *)
(* an exclusive operation that a call waits for it runs no other one, and  *)
(* captures only paths whose start or stop the bridge has given up,        *)
(* whichever answers are lost, stops incomplete or commands in the         *)
(* background.                                                             *)
(***************************************************************************)
EXTENDS BatchRun_proofs

----------------------------------------------------------------------------
(* The refinement mapping                                                  *)

\* Path p of target t belongs to a session or to a start under way.
Open(t, p) == p \in sessions[t] \/ \E w \in Workers : Starting(w, t, p)

\* The abstract variables in terms of InExclusive and Open.
LEMMA Mapping ==
    ASSUME sessions \in [Targets -> SUBSET Paths]
    PROVE  [t \in Targets |->
              sessions[t] \cup {p \in Paths : \E w \in Workers : Starting(w, t, p)}]
           = [t \in Targets |-> {p \in Paths : Open(t, p)}]
<1>1. \A t \in Targets :
        sessions[t] \cup {p \in Paths : \E w \in Workers : Starting(w, t, p)}
          = {p \in Paths : Open(t, p)}
  BY DEF Open
<1>. QED  BY <1>1

SameExclusive == \A w \in Workers, t \in Targets : InExclusive(w, t)' <=> InExclusive(w, t)
SameOpen == \A t \in Targets, p \in Paths : Open(t, p)' <=> Open(t, p)

\* Both mappings, now and after the step.
LEMMA MappedStates ==
    ASSUME TypeOK, TypeOK'
    PROVE  /\ [t \in Targets |->
                 sessions[t] \cup {p \in Paths : \E w \in Workers : Starting(w, t, p)}]
              = [t \in Targets |-> {p \in Paths : Open(t, p)}]
           /\ [t \in Targets |->
                 sessions[t] \cup {p \in Paths : \E w \in Workers : Starting(w, t, p)}]'
              = [t \in Targets |-> {p \in Paths : Open(t, p)'}]
           /\ [t \in Targets |-> {w \in Workers : InExclusive(w, t)}]'
              = [t \in Targets |-> {w \in Workers : InExclusive(w, t)'}]
<1>1. sessions \in [Targets -> SUBSET Paths]
  BY DEF TypeOK
<1>2. (sessions \in [Targets -> SUBSET Paths])'
  BY DEF TypeOK
<1>3. \A t \in Targets :
        (sessions[t] \cup {p \in Paths : \E w \in Workers : Starting(w, t, p)})'
          = {p \in Paths : Open(t, p)'}
  BY <1>2 DEF Open
<1>. QED  BY <1>1, <1>3, Mapping

\* A step that changes neither is a stutter of the arbiter.
LEMMA StutterStep ==
    ASSUME TypeOK, TypeOK', SameExclusive, SameOpen
    PROVE  UNCHANGED Arbiter!vars
<1>1. \A t \in Targets : {p \in Paths : Open(t, p)'} = {p \in Paths : Open(t, p)}
  BY DEF SameOpen
<1>2. \A t \in Targets : {w \in Workers : InExclusive(w, t)'} = {w \in Workers : InExclusive(w, t)}
  BY DEF SameExclusive
<1>. QED  BY <1>1, <1>2, MappedStates DEF Arbiter!vars

\* A worker takes target t0 to itself.
LEMMA EnterStep ==
    ASSUME TypeOK, TypeOK', NEW w0 \in Workers, NEW t0 \in Targets,
           \A v \in Workers : ~InExclusive(v, t0),
           \A p \in Paths : ~Open(t0, p),
           \A v \in Workers, t \in Targets :
               InExclusive(v, t)' <=> InExclusive(v, t) \/ (v = w0 /\ t = t0),
           SameOpen
    PROVE  Arbiter!Next
<1>1. \A t \in Targets : {p \in Paths : Open(t, p)'} = {p \in Paths : Open(t, p)}
  BY DEF SameOpen
<1>2. \A t \in Targets :
        {w \in Workers : InExclusive(w, t)'} =
            IF t = t0 THEN {w0} ELSE {w \in Workers : InExclusive(w, t)}
  OBVIOUS
<1>3. {w \in Workers : InExclusive(w, t0)} = {} /\ {p \in Paths : Open(t0, p)} = {}
  OBVIOUS
<1>4. Arbiter!EnterExclusive(t0, w0)
  BY <1>1, <1>2, <1>3, MappedStates DEF Arbiter!EnterExclusive
<1>. QED  BY <1>4 DEF Arbiter!Next

\* The one worker inside leaves target t0.
LEMMA LeaveStep ==
    ASSUME TypeOK, TypeOK', NEW w0 \in Workers, NEW t0 \in Targets,
           \A v \in Workers : InExclusive(v, t0) <=> v = w0,
           \A v \in Workers, t \in Targets :
               InExclusive(v, t)' <=> InExclusive(v, t) /\ t # t0,
           SameOpen
    PROVE  Arbiter!Next
<1>1. \A t \in Targets : {p \in Paths : Open(t, p)'} = {p \in Paths : Open(t, p)}
  BY DEF SameOpen
<1>2. \A t \in Targets :
        {w \in Workers : InExclusive(w, t)'} =
            IF t = t0 THEN {} ELSE {w \in Workers : InExclusive(w, t)}
  OBVIOUS
<1>3. {w \in Workers : InExclusive(w, t0)} = {w0}
  OBVIOUS
<1>4. Arbiter!LeaveExclusive(t0, w0)
  BY <1>1, <1>2, <1>3, MappedStates DEF Arbiter!LeaveExclusive
<1>. QED  BY <1>4 DEF Arbiter!Next

\* Path p0 of target t0 is opened while nobody has the target to itself.
LEMMA OpenStep ==
    ASSUME TypeOK, TypeOK', NEW t0 \in Targets, NEW p0 \in Paths,
           \A v \in Workers : ~InExclusive(v, t0),
           ~Open(t0, p0),
           \A t \in Targets, p \in Paths :
               Open(t, p)' <=> Open(t, p) \/ (t = t0 /\ p = p0),
           SameExclusive
    PROVE  Arbiter!Next
<1>1. \A t \in Targets : {w \in Workers : InExclusive(w, t)'} = {w \in Workers : InExclusive(w, t)}
  BY DEF SameExclusive
<1>2. \A t \in Targets :
        {p \in Paths : Open(t, p)'} =
            IF t = t0 THEN {p \in Paths : Open(t, p)} \cup {p0} ELSE {p \in Paths : Open(t, p)}
  OBVIOUS
<1>3. {w \in Workers : InExclusive(w, t0)} = {} /\ p0 \notin {p \in Paths : Open(t0, p)}
  OBVIOUS
<1>4. [t \in Targets |-> {p \in Paths : Open(t, p)'}]
        = [[t \in Targets |-> {p \in Paths : Open(t, p)}] EXCEPT ![t0] = @ \cup {p0}]
  BY <1>2
<1>5. [t \in Targets |-> {w \in Workers : InExclusive(w, t)'}]
        = [t \in Targets |-> {w \in Workers : InExclusive(w, t)}]
  BY <1>1
<1>6. Arbiter!OpenCapture(t0, p0)
  BY <1>3, <1>4, <1>5, MappedStates DEF Arbiter!OpenCapture
<1>. QED  BY <1>6 DEF Arbiter!Next

\* Path p0 of target t0 is closed.
LEMMA CloseStep ==
    ASSUME TypeOK, TypeOK', NEW t0 \in Targets, NEW p0 \in Paths,
           Open(t0, p0),
           \A t \in Targets, p \in Paths :
               Open(t, p)' <=> Open(t, p) /\ ~(t = t0 /\ p = p0),
           SameExclusive
    PROVE  Arbiter!Next
<1>1. \A t \in Targets : {w \in Workers : InExclusive(w, t)'} = {w \in Workers : InExclusive(w, t)}
  BY DEF SameExclusive
<1>2. \A t \in Targets :
        {p \in Paths : Open(t, p)'} =
            IF t = t0 THEN {p \in Paths : Open(t, p)} \ {p0} ELSE {p \in Paths : Open(t, p)}
  OBVIOUS
<1>3. p0 \in {p \in Paths : Open(t0, p)}
  OBVIOUS
<1>4. Arbiter!CloseCapture(t0, p0)
  BY <1>1, <1>2, <1>3, MappedStates DEF Arbiter!CloseCapture
<1>. QED  BY <1>4 DEF Arbiter!Next

\* Nothing is open initially.
LEMMA InitArbiter == Init => Arbiter!Init
<1>. SUFFICES ASSUME Init PROVE Arbiter!Init
  OBVIOUS
<1>1. \A w \in Workers, t \in Targets :
        ~InExclusive(w, t) /\ \A p \in Paths : ~Starting(w, t, p)
  BY DEF Init, InExclusive, Starting, Holding
<1>2. \A t \in Targets : {w \in Workers : InExclusive(w, t)} = {}
  BY <1>1
<1>3. \A t \in Targets :
        sessions[t] \cup {p \in Paths : \E w \in Workers : Starting(w, t, p)} = {}
  BY <1>1 DEF Init
<1>. QED  BY <1>2, <1>3 DEF Arbiter!Init

----------------------------------------------------------------------------
(* Every step of a worker is a step of the arbiter                         *)

\* Worker w leaves with FreeLock: it leaves the target if it had it to itself,
\* closes the path if it was starting, and changes nothing otherwise.
LEMMA LeavingImplements ==
    ASSUME TypeOK, TypeOK', LockInv, SessionInv,
           NEW w \in Workers, Holding(w), FreeLock(req[w]), Return(w), UNCHANGED sessions
    PROVE  [Arbiter!Next]_(Arbiter!vars)
<1>1. /\ req[w].op \in ExclusiveClasses \cup {READ, START, STOP}
      /\ req[w].target \in Targets
      /\ req[w].op \in {START, STOP} => req[w].path \in Paths
  BY ActiveRequest DEF Holding
<1>2. /\ pc'[w] = "idle"
      /\ \A v \in Workers \ {w} : req'[v] = req[v] /\ pc'[v] = pc[v]
  BY DEF Return, TypeOK
<1>3. \A v \in Workers, t \in Targets : InExclusive(v, t)' <=> InExclusive(v, t) /\ v # w
  BY <1>2 DEF InExclusive, Holding
<1>4. \A v \in Workers, t \in Targets, p \in Paths :
          Starting(v, t, p)' <=> Starting(v, t, p) /\ v # w
  BY <1>2 DEF Starting, Holding
<1>5. CASE req[w].op \in ExclusiveClasses
  <2>1. \A t \in Targets : InExclusive(w, t) <=> t = req[w].target
    BY <1>5 DEF InExclusive
  <2>2. \A v \in Workers : InExclusive(v, req[w].target) <=> v = w
    BY <1>1, <2>1 DEF LockInv, ExclusiveMutex
  <2>3. \A v \in Workers, t \in Targets :
          InExclusive(v, t)' <=> InExclusive(v, t) /\ t # req[w].target
    BY <1>3, <2>1, <2>2
  <2>4. \A t \in Targets, p \in Paths : ~Starting(w, t, p)
    BY <1>5, ClassesAssumption DEF Starting
  <2>5. SameOpen
    BY <1>4, <2>4 DEF SameOpen, Open
  <2>6. Arbiter!Next
    BY <1>1, <2>2, <2>3, <2>5, LeaveStep
  <2>. QED  BY <2>6
<1>6. CASE req[w].op \notin ExclusiveClasses
  <2>1. SameExclusive
    BY <1>3, <1>6 DEF SameExclusive, InExclusive
  <2>2. CASE req[w].op = START
    <3>1. PICK t0 \in Targets, p0 \in Paths : t0 = req[w].target /\ p0 = req[w].path
      BY <1>1, <2>2
    <3>2. \A t \in Targets, p \in Paths : Starting(w, t, p) <=> t = t0 /\ p = p0
      BY <2>2, <3>1 DEF Starting
    <3>3. Open(t0, p0)
      BY <3>2 DEF Open
    <3>4. p0 \notin sessions[t0] /\ \A v \in Workers : Starting(v, t0, p0) => v = w
      BY <3>2 DEF SessionInv
    <3>5. \A t \in Targets, p \in Paths : Open(t, p)' <=> Open(t, p) /\ ~(t = t0 /\ p = p0)
      BY <1>4, <3>2, <3>4 DEF Open
    <3>6. Arbiter!Next
      BY <2>1, <3>3, <3>5, CloseStep
    <3>. QED  BY <3>6
  <2>3. CASE req[w].op # START
    <3>1. SameOpen
      BY <1>4, <2>3 DEF SameOpen, Open, Starting
    <3>. QED  BY <2>1, <3>1, StutterStep
  <2>. QED  BY <2>2, <2>3
<1>. QED  BY <1>5, <1>6

\* Every step of BatchRun is one of the arbiter or a stutter.
LEMMA NextImplements ==
    ASSUME TypeOK, TypeOK', LockInv, SessionInv, Orderly, [Next]_vars
    PROVE  [Arbiter!Next]_(Arbiter!vars)
<1>1. ASSUME NEW w \in Workers, NEW r \in Requests, Call(w, r)
      PROVE  [Arbiter!Next]_(Arbiter!vars)
  <2>1. /\ pc[w] = "idle" /\ r.target \in Targets
        /\ r.op \in ExclusiveClasses \cup {READ, START, STOP}
        /\ r.op \in {START, STOP} => r.path \in Paths
    BY <1>1, RequestFields DEF Call
  <2>2. /\ \A v \in Workers \ {w} : req'[v] = req[v] /\ pc'[v] = pc[v]
        /\ req'[w] = r /\ pc'[w] \in {"lock", "borrow"}
        /\ pc'[w] = "borrow" => r.op \in {READ, STOP}
    BY <1>1 DEF Call, TypeOK
  <2>3. \A t \in Targets :
          /\ ~InExclusive(w, t)' /\ ~InExclusive(w, t)
          /\ \A p \in Paths : ~Starting(w, t, p)' /\ ~Starting(w, t, p)
    BY <2>1, <2>2, ClassesAssumption DEF InExclusive, Starting, Holding, READ, START, STOP
  <2>4. SameExclusive
    <3>1. \A v \in Workers \ {w}, t \in Targets : InExclusive(v, t)' <=> InExclusive(v, t)
      BY <2>2 DEF InExclusive, Holding
    <3>2. \A t \in Targets : InExclusive(w, t)' <=> InExclusive(w, t)
      BY <2>3
    <3>. QED  BY <3>1, <3>2 DEF SameExclusive
  <2>5. \A v \in Workers, t \in Targets, p \in Paths : Starting(v, t, p)' <=> Starting(v, t, p)
    BY <2>2, <2>3 DEF Starting, Holding
  <2>6. CASE r.op = STOP /\ r.path \in sessions[r.target]
    <3>1. \A t \in Targets, p \in Paths :
            p \in sessions'[t] <=> p \in sessions[t] /\ ~(t = r.target /\ p = r.path)
      BY <1>1, <2>1, <2>6 DEF Call, TypeOK
    <3>2. \A v \in Workers : ~Starting(v, r.target, r.path)
      BY <2>1, <2>6 DEF SessionInv
    <3>3. Open(r.target, r.path)
      BY <2>6 DEF Open
    <3>4. \A t \in Targets, p \in Paths :
            Open(t, p)' <=> Open(t, p) /\ ~(t = r.target /\ p = r.path)
      BY <2>5, <3>1, <3>2 DEF Open
    <3>5. r.target \in Targets /\ r.path \in Paths
      BY <2>1, <2>6
    <3>6. Arbiter!Next
      BY <2>4, <3>3, <3>4, <3>5, CloseStep
    <3>. QED  BY <3>6
  <2>7. CASE ~(r.op = STOP /\ r.path \in sessions[r.target])
    <3>1. \A t \in Targets, p \in Paths : p \in sessions'[t] <=> p \in sessions[t]
      BY <1>1, <2>1, <2>7 DEF Call, TypeOK
    <3>2. SameOpen
      BY <2>5, <3>1 DEF SameOpen, Open
    <3>. QED  BY <2>4, <3>2, StutterStep
  <2>. QED  BY <2>6, <2>7
<1>2. ASSUME NEW w \in Workers, Lock(w) PROVE [Arbiter!Next]_(Arbiter!vars)
  <2>1. /\ req[w].target \in Targets
        /\ req[w].op = START => req[w].path \in Paths
    BY <1>2, ActiveRequest DEF Lock
  <2>2. /\ UNCHANGED <<req, sessions>> /\ ~Holding(w) /\ Holding(w)'
        /\ \A v \in Workers \ {w} : Holding(v)' <=> Holding(v)
    BY <1>2 DEF Lock, TypeOK, Holding
  <2>3. ASSUME locks[req[w].target].holder = NoHolder
        PROVE  \A v \in Workers : ~InExclusive(v, req[w].target)
    BY <2>1, <2>3, NoHolderAssumption DEF LockInv, InExclusive
  <2>4. CASE req[w].op = START /\ AcquireCapture(req[w].target, req[w].path)
    <3>1. PICK t0 \in Targets, p0 \in Paths : t0 = req[w].target /\ p0 = req[w].path
      BY <2>1, <2>4
    <3>2. \A v \in Workers : ~InExclusive(v, t0)
      BY <2>3, <2>4, <3>1 DEF AcquireCapture, CaptureFree
    <3>3. p0 \notin locks[t0].captures
      BY <2>4, <3>1 DEF AcquireCapture, CaptureFree
    <3>4. ~Open(t0, p0)
      BY <3>3 DEF Open, SessionInv, CaptureHeldUntilStop
    <3>5. \A v \in Workers, t \in Targets, p \in Paths :
            Starting(v, t, p)' <=> Starting(v, t, p) \/ (v = w /\ t = t0 /\ p = p0)
      BY <2>2, <2>4, <3>1 DEF Starting
    <3>6. \A t \in Targets, p \in Paths : Open(t, p)' <=> Open(t, p) \/ (t = t0 /\ p = p0)
      BY <2>2, <3>5 DEF Open
    <3>7. SameExclusive
      BY <2>2, <2>4, ClassesAssumption DEF SameExclusive, InExclusive
    <3>8. Arbiter!Next
      BY <3>2, <3>4, <3>6, <3>7, OpenStep
    <3>. QED  BY <3>8
  <2>5. CASE req[w].op \in ExclusiveClasses /\ AcquireExclusive(req[w].target, req[w].op)
    <3>1. \A v \in Workers : ~InExclusive(v, req[w].target)
      BY <2>3, <2>5 DEF AcquireExclusive, ExclusiveFree
    <3>2. locks[req[w].target].captures = {}
      BY <2>5 DEF AcquireExclusive, ExclusiveFree
    <3>3. \A p \in Paths : ~Open(req[w].target, p)
      BY <2>1, <3>2 DEF Open, SessionInv, CaptureHeldUntilStop
    <3>4. \A v \in Workers, t \in Targets :
            InExclusive(v, t)' <=> InExclusive(v, t) \/ (v = w /\ t = req[w].target)
      BY <2>2, <2>5 DEF InExclusive
    <3>5. SameOpen
      BY <2>2, <2>5, ClassesAssumption DEF SameOpen, Open, Starting
    <3>6. Arbiter!Next
      BY <2>1, <3>1, <3>3, <3>4, <3>5, EnterStep
    <3>. QED  BY <3>6
  <2>. QED  BY <1>2, <2>4, <2>5 DEF Lock, TakeLock
<1>3. ASSUME UNCHANGED sessions,
             NEW w \in Workers, Return(w),
             \A t \in Targets : ~InExclusive(w, t) /\ \A p \in Paths : ~Starting(w, t, p)
      PROVE  [Arbiter!Next]_(Arbiter!vars)
  <2>1. /\ pc'[w] = "idle"
        /\ \A v \in Workers \ {w} : req'[v] = req[v] /\ pc'[v] = pc[v]
    BY <1>3 DEF Return, TypeOK
  <2>2. SameExclusive
    <3>1. \A v \in Workers \ {w}, t \in Targets : InExclusive(v, t)' <=> InExclusive(v, t)
      BY <2>1 DEF InExclusive, Holding
    <3>2. \A t \in Targets : InExclusive(w, t)' <=> InExclusive(w, t)
      BY <1>3, <2>1 DEF InExclusive, Holding
    <3>. QED  BY <3>1, <3>2 DEF SameExclusive
  <2>3. \A v \in Workers, t \in Targets, p \in Paths : Starting(v, t, p)' <=> Starting(v, t, p)
    BY <1>3, <2>1 DEF Starting, Holding
  <2>4. SameOpen
    BY <1>3, <2>3 DEF SameOpen, Open
  <2>. QED  BY <2>2, <2>4, StutterStep
<1>4. ASSUME NEW w \in Workers, Conflict(w) PROVE [Arbiter!Next]_(Arbiter!vars)
  <2>1. ~Holding(w)
    BY <1>4 DEF Conflict, Holding
  <2>. QED  BY <1>3, <1>4, <2>1 DEF Conflict, InExclusive, Starting
<1>5. ASSUME NEW w \in Workers, BorrowFails(w) PROVE [Arbiter!Next]_(Arbiter!vars)
  <2>1. Holding(w) /\ Return(w) /\ UNCHANGED sessions
    BY <1>5 DEF BorrowFails, Holding
  <2>2. CASE FreeLock(req[w])
    BY <2>1, <2>2, LeavingImplements
  <2>3. CASE req[w].op = STOP
    BY <1>3, <2>1, <2>3, ClassesAssumption DEF InExclusive, Starting, START, STOP
  <2>. QED  BY <1>5, <2>2, <2>3 DEF BorrowFails
<1>6. ASSUME NEW w \in Workers, Unlock(w) PROVE [Arbiter!Next]_(Arbiter!vars)
  <2>1. Holding(w) /\ Return(w) /\ pc[w] # "idle"
    BY <1>6 DEF Unlock, Holding
  <2>2. CASE FreeLock(req[w]) /\ UNCHANGED sessions
    BY <2>1, <2>2, LeavingImplements
  <2>3. CASE /\ req[w].op = START
             /\ sessions' = [sessions EXCEPT ![req[w].target] = @ \cup {req[w].path}]
    <3>1. req[w].target \in Targets /\ req[w].path \in Paths
      BY <2>1, <2>3, ActiveRequest
    <3>2. /\ pc'[w] = "idle"
          /\ \A v \in Workers \ {w} : req'[v] = req[v] /\ pc'[v] = pc[v]
      BY <2>1 DEF Return, TypeOK
    <3>3. SameExclusive
      BY <2>3, <3>2, ClassesAssumption DEF SameExclusive, InExclusive, Holding
    <3>4. \A t \in Targets, p \in Paths :
            p \in sessions'[t] <=> p \in sessions[t] \/ (t = req[w].target /\ p = req[w].path)
      BY <2>3, <3>1 DEF TypeOK
    <3>5. \A v \in Workers, t \in Targets, p \in Paths :
            Starting(v, t, p)' <=> Starting(v, t, p) /\ v # w
      BY <3>2 DEF Starting, Holding
    <3>6. \A t \in Targets, p \in Paths :
            Starting(w, t, p) <=> t = req[w].target /\ p = req[w].path
      BY <2>1, <2>3 DEF Starting
    <3>7. SameOpen
      BY <3>4, <3>5, <3>6 DEF SameOpen, Open
    <3>. QED  BY <3>3, <3>7, StutterStep
  <2>. QED  BY <1>6, <2>2, <2>3 DEF Unlock, KeepsLock
<1>7. ASSUME UNCHANGED <<req, sessions>>, \A v \in Workers : Holding(v)' <=> Holding(v)
      PROVE  [Arbiter!Next]_(Arbiter!vars)
  <2>1. SameExclusive /\ SameOpen
    BY <1>7 DEF SameExclusive, SameOpen, InExclusive, Open, Starting
  <2>. QED  BY <2>1, StutterStep
<1>8. ASSUME NEW w \in Workers, Borrow(w) \/ Receive(w) \/ TimeOut(w) \/ Serve(w)
      PROVE  [Arbiter!Next]_(Arbiter!vars)
  <2>1. UNCHANGED <<req, sessions>> /\ \A v \in Workers : Holding(v)' <=> Holding(v)
    BY <1>8 DEF Borrow, Receive, TimeOut, Serve, TypeOK, Holding
  <2>. QED  BY <1>7, <2>1
<1>9. ASSUME NEW r \in detached, ServeDetached(r) PROVE [Arbiter!Next]_(Arbiter!vars)
  BY <1>7, <1>9 DEF ServeDetached, Holding
<1>10. CASE UNCHANGED vars
  BY <1>7, <1>10 DEF vars, Holding
<1>. QED  BY <1>1, <1>2, <1>4, <1>5, <1>6, <1>8, <1>9, <1>10 DEF Next, Advance

\* The workers implement the arbiter, whatever fails besides, when agents do
\* not overlap the start and the stop of one session.
THEOREM BatchImplementsArbiter ==
    ASSUME Orderly
    PROVE  Spec => ImplementsArbiter
<1>1. Init => TypeOK /\ LockInv /\ SessionInv /\ Arbiter!Init
  BY InitTypeOK, InitLockInv, InitSessionInv, InitArbiter
<1>2. /\ TypeOK /\ LockInv /\ SessionInv /\ [Next]_vars
      => (TypeOK /\ LockInv /\ SessionInv)' /\ [Arbiter!Next]_(Arbiter!vars)
  BY NextTypeOK, NextLockInv, NextSessionInv, NextImplements
<1>. QED  BY <1>1, <1>2, PTL DEF Spec, ImplementsArbiter, Arbiter!Spec

----------------------------------------------------------------------------
(* What the target runs                                                    *)

Answered(w) == pc[w] \in {"served", "unlock"}

\* t captures p, and the bridge has not given the path up.
Live(t, p) == p \in capturing[t] /\ p \notin lost[t]

\* What is live is locked.  A start that has not succeeded, and a stop that has
\* been answered or given up, work on a path that is not live: their releases,
\* which remove keys from the lock, are harmless.  A start that is carried out
\* although nobody waits for it makes no path live.
TargetInv ==
    /\ \A t \in Targets : locks[t].captures # {} => locks[t].holder = NoHolder
    /\ \A t \in Targets, p \in Paths : Live(t, p) => p \in locks[t].captures
    /\ \A w \in Workers, t \in Targets, p \in Paths :
         Starting(w, t, p) /\ ~(Answered(w) /\ ok[w]) => ~Live(t, p)
    /\ \A w \in Workers, t \in Targets, p \in Paths :
         Stopping(w, t, p) /\ Answered(w) => ~Live(t, p)
    /\ \A r \in detached : r.op = START => r.path \in lost[r.target]

\* A step that takes no lock, moves no worker and makes no path live keeps it.
LEMMA QuietStep ==
    ASSUME TargetInv, UNCHANGED locks,
           \A t \in Targets, p \in Paths : Live(t, p)' => Live(t, p),
           \A r \in detached' : r.op = START => r.path \in lost'[r.target],
           \A w \in Workers, t \in Targets, p \in Paths :
               /\ Starting(w, t, p)' /\ ~(Answered(w)' /\ ok'[w]) /\ Live(t, p)'
                    => Starting(w, t, p) /\ ~(Answered(w) /\ ok[w])
               /\ Stopping(w, t, p)' /\ Answered(w)' /\ Live(t, p)'
                    => Stopping(w, t, p) /\ Answered(w)
    PROVE  TargetInv'
BY DEF TargetInv

\* A lock that is freed keeps one mode only.
LEMMA FreeLockMode ==
    ASSUME TypeOK, NEW w \in Workers, pc[w] # "idle", FreeLock(req[w]),
           \A t \in Targets : locks[t].captures # {} => locks[t].holder = NoHolder
    PROVE  \A t \in Targets : locks'[t].captures # {} => locks'[t].holder = NoHolder
<1>1. /\ req[w].op \in ExclusiveClasses \cup {READ, START, STOP}
      /\ req[w].target \in Targets
      /\ req[w].op \in {START, STOP} => req[w].path \in Paths
  BY ActiveRequest
<1>2. CASE req[w].op \in {START, STOP}
  BY <1>1, <1>2 DEF FreeLock, ReleaseCapture, TypeOK, TargetLock
<1>3. CASE req[w].op \notin {START, STOP}
  BY <1>1, <1>3, NoHolderAssumption DEF FreeLock, ReleaseExclusive, Lowered, TypeOK, TargetLock
<1>. QED  BY <1>2, <1>3

\* A worker leaves; whoever holds one of the keys it frees captures nothing.
LEMMA LeavePreservesTarget ==
    ASSUME TypeOK, TargetInv, NEW w \in Workers, pc[w] # "idle", Return(w),
           UNCHANGED <<capturing, detached, lost>>,
           \/ UNCHANGED locks
           \/ /\ FreeLock(req[w])
              /\ req[w].op \in {START, STOP} => ~Live(req[w].target, req[w].path)
    PROVE  TargetInv'
<1>1. /\ pc'[w] = "idle"
      /\ \A v \in Workers \ {w} : req'[v] = req[v] /\ pc'[v] = pc[v] /\ ok'[v] = ok[v]
  BY DEF Return, TypeOK
<1>2. \A v \in Workers, t \in Targets, p \in Paths :
        /\ Starting(v, t, p)' => v # w /\ Starting(v, t, p)
        /\ Stopping(v, t, p)' => v # w /\ Stopping(v, t, p)
  BY <1>1 DEF Starting, Stopping, Is, Active, Holding
<1>3. \A v \in Workers \ {w} : Answered(v)' <=> Answered(v)
  BY <1>1 DEF Answered
<1>4. \A v \in Workers, t \in Targets, p \in Paths :
        /\ Starting(v, t, p)' /\ ~(Answered(v)' /\ ok'[v]) => ~Live(t, p)'
        /\ Stopping(v, t, p)' /\ Answered(v)' => ~Live(t, p)'
  BY <1>1, <1>2, <1>3 DEF TargetInv, Live
<1>5. /\ \A t \in Targets : locks'[t].captures # {} => locks'[t].holder = NoHolder
      /\ \A t \in Targets, p \in Paths : Live(t, p)' => p \in locks'[t].captures
  <2>1. CASE UNCHANGED locks
    BY <2>1 DEF TargetInv, Live
  <2>2. CASE /\ FreeLock(req[w])
             /\ req[w].op \in {START, STOP} => ~Live(req[w].target, req[w].path)
    <3>1. \A t \in Targets : locks'[t].captures # {} => locks'[t].holder = NoHolder
      BY <2>2, FreeLockMode DEF TargetInv
    <3>2. \A t \in Targets, p \in Paths :
            p \in locks'[t].captures <=>
                /\ p \in locks[t].captures
                /\ ~(req[w].op \in {START, STOP} /\ req[w].target = t /\ req[w].path = p)
      BY <2>2, FreeLockCaptures
    <3>3. \A t \in Targets, p \in Paths : Live(t, p)' => p \in locks'[t].captures
      BY <2>2, <3>2 DEF TargetInv, Live
    <3>. QED  BY <3>1, <3>3
  <2>. QED  BY <2>1, <2>2
<1>. QED  BY <1>4, <1>5 DEF TargetInv

\* Nothing runs initially.
LEMMA InitTargetInv == Init => TargetInv
BY DEF Init, LocksInit, Unlocked, TargetInv, Live, Starting, Stopping, Is, Active, Holding

\* Every step keeps TargetInv.
LEMMA NextTargetInv ==
    ASSUME Orderly, TypeOK, SessionInv, TargetInv, [Next]_vars
    PROVE  TargetInv'
<1>1. ASSUME NEW w \in Workers, NEW r \in Requests, Call(w, r) PROVE TargetInv'
  <2>1. /\ pc[w] = "idle" /\ UNCHANGED <<locks, capturing, detached, lost>>
        /\ \A v \in Workers \ {w} : req'[v] = req[v] /\ pc'[v] = pc[v] /\ ok'[v] = ok[v]
        /\ req'[w] = r /\ pc'[w] \in {"lock", "borrow"}
        /\ pc'[w] = "borrow" => r.op \in {READ, STOP}
    BY <1>1 DEF Call, TypeOK
  <2>2. \A v \in Workers, t \in Targets, p \in Paths :
          /\ Starting(v, t, p)' => v # w /\ Starting(v, t, p)
          /\ Stopping(v, t, p)' /\ Answered(v)' => v # w /\ Stopping(v, t, p)
    BY <2>1 DEF Starting, Stopping, Is, Active, Holding, Answered, READ, START, STOP
  <2>3. \A v \in Workers \ {w} : (Answered(v)' <=> Answered(v)) /\ ok'[v] = ok[v]
    BY <2>1 DEF Answered
  <2>. QED  BY <2>1, <2>2, <2>3, QuietStep DEF Live, TargetInv
<1>2. ASSUME NEW w \in Workers, Lock(w) PROVE TargetInv'
  <2>1. /\ req[w].target \in Targets
        /\ req[w].op = START => req[w].path \in Paths
    BY <1>2, ActiveRequest DEF Lock
  <2>2. /\ pc[w] = "lock" /\ UNCHANGED <<req, ok, capturing, detached, lost>>
        /\ \A v \in Workers : (Active(v)' <=> Active(v)) /\ (Holding(v)' <=> Holding(v) \/ v = w)
        /\ \A v \in Workers : Answered(v)' <=> Answered(v)
    BY <1>2 DEF Lock, TypeOK, Active, Holding, Answered
  <2>3. CASE req[w].op = START /\ AcquireCapture(req[w].target, req[w].path)
    <3>1. \A t \in Targets, p \in Paths :
            p \in locks'[t].captures <=>
                p \in locks[t].captures \/ (t = req[w].target /\ p = req[w].path)
      BY <2>1, <2>3 DEF AcquireCapture, TypeOK, TargetLock
    <3>2. ~Live(req[w].target, req[w].path)
      BY <2>1, <2>3 DEF AcquireCapture, CaptureFree, TargetInv
    <3>3. \A v \in Workers, t \in Targets, p \in Paths :
            /\ Starting(v, t, p)' =>
                  Starting(v, t, p) \/ (v = w /\ t = req[w].target /\ p = req[w].path)
            /\ Stopping(v, t, p)' => Stopping(v, t, p)
      BY <2>2 DEF Starting, Stopping, Is
    <3>4. \A t \in Targets : locks'[t].captures # {} => locks'[t].holder = NoHolder
      BY <2>1, <2>3 DEF AcquireCapture, CaptureFree, TypeOK, TargetLock, TargetInv
    <3>5. \A t \in Targets, p \in Paths : Live(t, p)' => p \in locks'[t].captures
      BY <2>2, <3>1 DEF TargetInv, Live
    <3>6. \A v \in Workers, t \in Targets, p \in Paths :
            /\ Starting(v, t, p)' /\ ~(Answered(v)' /\ ok'[v]) => ~Live(t, p)'
            /\ Stopping(v, t, p)' /\ Answered(v)' => ~Live(t, p)'
      BY <2>2, <3>2, <3>3 DEF TargetInv, Live
    <3>. QED  BY <2>2, <3>4, <3>5, <3>6 DEF TargetInv
  <2>4. CASE req[w].op \in ExclusiveClasses /\ AcquireExclusive(req[w].target, req[w].op)
    <3>1. \A t \in Targets : locks'[t].captures = locks[t].captures
      BY <2>1, <2>4 DEF AcquireExclusive, TypeOK, TargetLock
    <3>2. \A t \in Targets : locks'[t].captures # {} => locks'[t].holder = NoHolder
      BY <2>1, <2>4 DEF AcquireExclusive, ExclusiveFree, TypeOK, TargetLock, TargetInv
    <3>3. \A v \in Workers, t \in Targets, p \in Paths :
            /\ Starting(v, t, p)' => Starting(v, t, p)
            /\ Stopping(v, t, p)' => Stopping(v, t, p)
      BY <2>2, <2>4, ClassesAssumption DEF Starting, Stopping, Is
    <3>. QED  BY <2>2, <3>1, <3>2, <3>3 DEF TargetInv, Live
  <2>. QED  BY <1>2, <2>3, <2>4 DEF Lock, TakeLock
<1>3. ASSUME NEW w \in Workers, Conflict(w) PROVE TargetInv'
  BY <1>3, LeavePreservesTarget DEF Conflict
<1>4. ASSUME NEW w \in Workers, BorrowFails(w) PROVE TargetInv'
  <2>1. pc[w] = "borrow" /\ Return(w) /\ UNCHANGED <<capturing, detached, lost>>
    BY <1>4 DEF BorrowFails
  <2>2. CASE req[w].op = STOP /\ UNCHANGED locks
    BY <2>1, <2>2, LeavePreservesTarget
  <2>3. CASE req[w].op # STOP /\ FreeLock(req[w])
    <3>1. /\ req[w].target \in Targets
          /\ req[w].op = START => req[w].path \in Paths
      BY <2>1, ActiveRequest
    <3>2. req[w].op = START => ~Live(req[w].target, req[w].path)
      <4>1. ~Answered(w)
        BY <2>1 DEF Answered
      <4>2. req[w].op = START => Starting(w, req[w].target, req[w].path)
        BY <2>1 DEF Starting, Holding
      <4>. QED  BY <3>1, <4>1, <4>2 DEF TargetInv
    <3>. QED  BY <2>1, <2>3, <3>2, LeavePreservesTarget
  <2>. QED  BY <1>4, <2>2, <2>3 DEF BorrowFails
<1>5. ASSUME NEW w \in Workers, Unlock(w) PROVE TargetInv'
  <2>1. pc[w] = "unlock" /\ Return(w) /\ UNCHANGED <<capturing, detached, lost>>
    BY <1>5 DEF Unlock
  <2>2. /\ req[w].target \in Targets
        /\ req[w].op \in {START, STOP} => req[w].path \in Paths
    BY <2>1, ActiveRequest
  <2>3. CASE KeepsLock(w)
    BY <1>5, <2>1, <2>3, LeavePreservesTarget DEF Unlock
  <2>4. CASE ~KeepsLock(w)
    <3>1. Answered(w) /\ FreeLock(req[w])
      BY <1>5, <2>1, <2>4 DEF Unlock, Answered
    <3>2. req[w].op = START => ~Live(req[w].target, req[w].path)
      <4>1. req[w].op = START => Starting(w, req[w].target, req[w].path) /\ ~ok[w]
        BY <2>1, <2>4 DEF Starting, Holding, KeepsLock
      <4>. QED  BY <2>2, <4>1 DEF TargetInv
    <3>3. req[w].op = STOP => ~Live(req[w].target, req[w].path)
      <4>1. req[w].op = STOP => Stopping(w, req[w].target, req[w].path)
        BY <2>1 DEF Stopping, Is, Active
      <4>. QED  BY <2>2, <3>1, <4>1 DEF TargetInv
    <3>. QED  BY <2>1, <3>1, <3>2, <3>3, LeavePreservesTarget
  <2>. QED  BY <2>3, <2>4
<1>6. ASSUME NEW w \in Workers, Borrow(w) PROVE TargetInv'
  <2>1. /\ UNCHANGED <<locks, req, ok, capturing, detached, lost>>
        /\ \A v \in Workers : /\ Holding(v)' <=> Holding(v)
                              /\ Active(v)' <=> Active(v)
                              /\ Answered(v)' <=> Answered(v)
    BY <1>6 DEF Borrow, TypeOK, Holding, Active, Answered
  <2>. QED  BY <2>1 DEF TargetInv, Live, Starting, Stopping, Is
<1>7. ASSUME NEW w \in Workers, Receive(w) PROVE TargetInv'
  <2>1. /\ UNCHANGED <<locks, req, ok, capturing, detached, lost>>
        /\ \A v \in Workers : /\ Holding(v)' <=> Holding(v)
                              /\ Active(v)' <=> Active(v)
                              /\ Answered(v)' <=> Answered(v)
    BY <1>7 DEF Receive, TypeOK, Holding, Active, Answered
  <2>. QED  BY <2>1 DEF TargetInv, Live, Starting, Stopping, Is
<1>8. ASSUME NEW w \in Workers, TimeOut(w) PROVE TargetInv'
  <2>1. /\ pc[w] \in {"sent", "served"} /\ UNCHANGED <<locks, req, capturing>>
        /\ pc' = [pc EXCEPT ![w] = "unlock"] /\ ok' = [ok EXCEPT ![w] = FALSE]
        /\ detached' \subseteq detached \cup {req[w]}
        /\ lost' = IF req[w].op \in {START, STOP} THEN Losing(req[w]) ELSE lost
    BY <1>8 DEF TimeOut
  <2>2. /\ req[w].target \in Targets
        /\ req[w].op \in {START, STOP} => req[w].path \in Paths
    BY <2>1, ActiveRequest
  <2>3. /\ \A t \in Targets : lost[t] \subseteq lost'[t]
        /\ req[w].op \in {START, STOP} => req[w].path \in lost'[req[w].target]
    BY <2>1, <2>2 DEF Losing, TypeOK
  <2>4. \A t \in Targets, p \in Paths : Live(t, p)' => Live(t, p)
    BY <2>1, <2>3 DEF Live
  <2>5. \A r \in detached' : r.op = START => r.path \in lost'[r.target]
    <3>1. ASSUME NEW r \in detached, r.op = START PROVE r.path \in lost'[r.target]
      <4>1. r.target \in Targets
        BY RequestFields DEF TypeOK
      <4>. QED  BY <2>3, <3>1, <4>1 DEF TargetInv
    <3>. QED  BY <2>1, <2>3, <3>1
  <2>6. \A t \in Targets, p \in Paths :
          Live(t, p)' => ~Starting(w, t, p)' /\ ~Stopping(w, t, p)'
    BY <2>1, <2>3 DEF Live, Starting, Stopping, Is
  <2>7. \A v \in Workers \ {w} : pc'[v] = pc[v] /\ ok'[v] = ok[v]
    BY <2>1 DEF TypeOK
  <2>8. \A v \in Workers \ {w}, t \in Targets, p \in Paths :
          /\ Starting(v, t, p)' <=> Starting(v, t, p)
          /\ Stopping(v, t, p)' <=> Stopping(v, t, p)
          /\ Answered(v)' <=> Answered(v)
    BY <2>1, <2>7 DEF Starting, Stopping, Is, Active, Holding, Answered
  <2>. QED  BY <2>1, <2>4, <2>5, <2>6, <2>7, <2>8, QuietStep
<1>9. ASSUME NEW w \in Workers, Serve(w) PROVE TargetInv'
  <2>1. /\ pc[w] = "sent" /\ UNCHANGED <<locks, req>>
        /\ pc' = [pc EXCEPT ![w] = "served"]
        /\ \A r \in detached' : r.op = START => r \in detached
    BY <1>9, ClassesAssumption DEF Serve
  <2>2. PICK answer \in BOOLEAN :
          CarryOut(req[w], answer) /\ ok' = [ok EXCEPT ![w] = answer]
    BY <1>9 DEF Serve
  <2>3. /\ req[w].target \in Targets
        /\ req[w].op \in ExclusiveClasses \cup {READ, START, STOP}
        /\ req[w].op \in {START, STOP} => req[w].path \in Paths
    BY <2>1, ActiveRequest
  <2>4. /\ \A v \in Workers, t \in Targets, p \in Paths :
             /\ Starting(v, t, p)' <=> Starting(v, t, p)
             /\ Stopping(v, t, p)' <=> Stopping(v, t, p)
        /\ \A v \in Workers \ {w} : (Answered(v)' <=> Answered(v)) /\ ok'[v] = ok[v]
        /\ ~Answered(w) /\ Answered(w)' /\ ok'[w] = answer
    BY <2>1, <2>2 DEF TypeOK, Starting, Stopping, Is, Active, Holding, Answered
  <2>5. CASE req[w].op = START /\ answer
    <3>1. PICK t0 \in Targets, p0 \in Paths : t0 = req[w].target /\ p0 = req[w].path
      BY <2>3, <2>5
    <3>2. capturing' = [capturing EXCEPT ![t0] = @ \cup {p0}] /\ lost' = lost
      BY <1>9, <2>2, <2>5, <3>1, ClassesAssumption DEF Serve, CarryOut, READ, START, STOP
    <3>3. \A t \in Targets, p \in Paths : Live(t, p)' => Live(t, p) \/ (t = t0 /\ p = p0)
      BY <3>2 DEF TypeOK, Live
    <3>4. Starting(w, t0, p0) /\ Is(w, START)
      BY <2>1, <2>5, <3>1 DEF Starting, Holding, Is, Active
    <3>5. p0 \in locks[t0].captures /\ \A v \in Workers : Starting(v, t0, p0) => v = w
      BY <3>4 DEF SessionInv
    <3>6. \A v \in Workers : ~Stopping(v, t0, p0)
      BY <3>1, <3>4 DEF SessionInv, Stopping, SameKey
    <3>7. \A t \in Targets, p \in Paths : Live(t, p)' => p \in locks'[t].captures
      BY <2>1, <3>3, <3>5 DEF TargetInv
    <3>8. \A v \in Workers, t \in Targets, p \in Paths :
            Starting(v, t, p)' /\ ~(Answered(v)' /\ ok'[v]) => ~Live(t, p)'
      <4>1. SUFFICES ASSUME NEW v \in Workers, NEW t \in Targets, NEW p \in Paths,
                            Starting(v, t, p)', ~(Answered(v)' /\ ok'[v])
                     PROVE  ~Live(t, p)'
        OBVIOUS
      <4>2. Answered(w)' /\ ok'[w]
        BY <2>4, <2>5
      <4>3. v # w
        BY <4>1, <4>2
      <4>4. Starting(v, t, p) /\ ~(Answered(v) /\ ok[v])
        BY <2>4, <4>1, <4>3
      <4>5. ~Live(t, p) /\ ~(t = t0 /\ p = p0)
        BY <3>5, <4>3, <4>4 DEF TargetInv
      <4>. QED  BY <3>3, <4>5
    <3>9. \A v \in Workers, t \in Targets, p \in Paths :
            Stopping(v, t, p)' /\ Answered(v)' => ~Live(t, p)'
      <4>1. \A t \in Targets, p \in Paths : ~Stopping(w, t, p)
        BY <2>5 DEF Stopping, Is, START, STOP
      <4>. QED  BY <2>4, <3>3, <3>6, <4>1 DEF TargetInv
    <3>10. \A r \in detached' : r.op = START => r.path \in lost'[r.target]
      BY <2>1, <3>2 DEF TargetInv
    <3>. QED  BY <2>1, <3>7, <3>8, <3>9, <3>10 DEF TargetInv
  <2>6. CASE req[w].op = STOP
    <3>1. PICK t0 \in Targets, p0 \in Paths : t0 = req[w].target /\ p0 = req[w].path
      BY <2>3, <2>6
    <3>2. /\ \A t \in Targets : capturing'[t] \subseteq capturing[t]
          /\ \A t \in Targets \ {t0} : capturing'[t] = capturing[t]
      BY <2>2, <2>6, <3>1, ClassesAssumption DEF CarryOut, TypeOK, READ, START, STOP
    <3>3. lost' = IF p0 \in capturing'[t0] THEN Losing(req[w]) ELSE Finding(req[w])
      BY <1>9, <2>6, <3>1 DEF Serve
    <3>4. ~Live(t0, p0)' /\ \A t \in Targets, p \in Paths : Live(t, p)' => Live(t, p)
      <4>1. CASE p0 \in capturing'[t0]
        BY <3>1, <3>2, <3>3, <4>1 DEF Losing, Live, TypeOK
      <4>2. CASE p0 \notin capturing'[t0]
        <5>1. \A t \in Targets, p \in Paths :
                p \in lost[t] => p \in lost'[t] \/ (t = t0 /\ p = p0)
          BY <3>1, <3>3, <4>2 DEF Finding, TypeOK
        <5>. QED  BY <3>2, <4>2, <5>1 DEF Live
      <4>. QED  BY <4>1, <4>2
    <3>5. \A r \in detached' : r.op = START => r.path \in lost'[r.target]
      <4>. SUFFICES ASSUME NEW r \in detached, r.op = START
                    PROVE  r.path \in lost'[r.target]
        BY <2>1
      <4>1. r.path \in lost[r.target] /\ r.target \in Targets
        BY RequestFields DEF TargetInv, TypeOK
      <4>2. CASE lost' = Losing(req[w])
        BY <3>1, <4>1, <4>2 DEF Losing, TypeOK
      <4>3. CASE lost' = lost
        BY <4>1, <4>3
      <4>4. CASE lost' = [lost EXCEPT ![t0] = @ \ {p0}] /\ ~SameKey(r, req[w])
        BY <3>1, <4>1, <4>4 DEF SameKey, TypeOK
      <4>. QED  BY <3>1, <3>3, <4>2, <4>3, <4>4 DEF Finding
    <3>6. \A v \in Workers, t \in Targets, p \in Paths :
            /\ ~Starting(w, t, p)'
            /\ Stopping(w, t, p)' => t = t0 /\ p = p0
      BY <2>4, <2>6, <3>1 DEF Starting, Stopping, START, STOP
    <3>. QED  BY <2>1, <2>4, <3>4, <3>5, <3>6, QuietStep
  <2>7. CASE req[w].op # STOP /\ ~(req[w].op = START /\ answer)
    <3>1. capturing' = capturing /\ lost' = lost
      BY <1>9, <2>2, <2>7, ClassesAssumption DEF Serve, CarryOut, START, STOP
    <3>2. \A t \in Targets, p \in Paths :
            ~Stopping(w, t, p) /\ (Starting(w, t, p) => ~answer)
      BY <2>7 DEF Starting, Stopping, Is
    <3>3. \A t \in Targets, p \in Paths : Live(t, p)' <=> Live(t, p)
      BY <3>1 DEF Live
    <3>4. \A r \in detached' : r.op = START => r.path \in lost'[r.target]
      BY <2>1, <3>1 DEF TargetInv
    <3>. QED  BY <2>1, <2>4, <3>2, <3>3, <3>4, QuietStep
  <2>. QED  BY <2>5, <2>6, <2>7
<1>10. ASSUME NEW r \in detached, ServeDetached(r) PROVE TargetInv'
  <2>1. r.target \in Targets /\ UNCHANGED <<locks, pc, req, ok, lost>> /\ detached' \subseteq detached
    BY <1>10, RequestFields DEF ServeDetached, TypeOK
  <2>2. PICK answer \in BOOLEAN : CarryOut(r, answer)
    BY <1>10 DEF ServeDetached
  <2>3. \A t \in Targets, p \in Paths :
          p \in capturing'[t] =>
              p \in capturing[t] \/ (r.op = START /\ r.target = t /\ r.path = p)
    BY <2>1, <2>2 DEF CarryOut, TypeOK
  <2>4. \A t \in Targets, p \in Paths : Live(t, p)' => Live(t, p)
    BY <2>1, <2>3 DEF Live, TargetInv
  <2>5. \A s \in detached' : s.op = START => s.path \in lost'[s.target]
    BY <2>1 DEF TargetInv
  <2>. QED  BY <2>1, <2>4, <2>5, QuietStep
            DEF Starting, Stopping, Is, Active, Holding, Answered
<1>11. CASE UNCHANGED vars
  BY <1>11, QuietStep DEF vars, Live, TargetInv, Starting, Stopping, Is, Active, Holding, Answered
<1>. QED  BY <1>1, <1>2, <1>3, <1>4, <1>5, <1>6, <1>7, <1>8, <1>9, <1>10, <1>11 DEF Next, Advance

\* With the lock invariants, TargetInv keeps live captures and exclusive
\* operations apart at the target.
LEMMA TargetInvExcludes ==
    ASSUME TypeOK, LockInv, TargetInv
    PROVE  TargetExclusion
<1>1. \A t \in Targets, w \in Workers : w \in WorkingOn(t) => InExclusive(w, t)
  BY DEF WorkingOn, InExclusive, Holding
<1>2. \A t \in Targets, w \in Workers : InExclusive(w, t) => capturing[t] \subseteq lost[t]
  <2>. SUFFICES ASSUME NEW t \in Targets, NEW w \in Workers, InExclusive(w, t)
                PROVE  capturing[t] \subseteq lost[t]
    OBVIOUS
  <2>1. locks[t].holder # NoHolder
    BY NoHolderAssumption DEF LockInv, InExclusive
  <2>2. \A p \in Paths : ~Live(t, p)
    BY <2>1 DEF TargetInv
  <2>. QED  BY <2>2 DEF Live, TypeOK
<1>3. \A t \in Targets : WorkingOn(t) \subseteq Workers
  BY DEF WorkingOn
<1>4. \A t \in Targets : \A v, w \in WorkingOn(t) : v = w
  BY <1>1, <1>3 DEF LockInv, ExclusiveMutex
<1>. QED  BY <1>1, <1>2, <1>3, <1>4 DEF TargetExclusion

\* While a call waits for a target's exclusive operation, the target works on no
\* other such operation and captures only paths the bridge has given up, as long
\* as agents do not overlap the start and the stop of a session.
THEOREM BatchTargetExclusion ==
    ASSUME Orderly
    PROVE  Spec => []TargetExclusion
<1>1. Init => TypeOK /\ LockInv /\ SessionInv /\ TargetInv
  BY InitTypeOK, InitLockInv, InitSessionInv, InitTargetInv
<1>2. TypeOK /\ LockInv /\ SessionInv /\ TargetInv /\ [Next]_vars
        => (TypeOK /\ LockInv /\ SessionInv /\ TargetInv)'
  BY NextTypeOK, NextLockInv, NextSessionInv, NextTargetInv
<1>3. TypeOK /\ LockInv /\ TargetInv => TargetExclusion
  BY TargetInvExcludes
<1>. QED  BY <1>1, <1>2, <1>3, PTL DEF Spec

============================================================================
