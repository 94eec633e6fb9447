------------------------- MODULE TargetPool_proofs -------------------------
(***************************************************************************)
(* Safety of the connection pool, for any number of threads and any        *)
(* MaxConn: proofs of the invariants TargetPool states.                    *)
(***************************************************************************)
EXTENDS TargetPool, FiniteSetTheorems, SequenceTheorems, TLAPS

----------------------------------------------------------------------------
(* Sequences of pool entries                                               *)

\* The clients of a list of entries, and of any part of it, are clients.
LEMMA ClientsOfType ==
    ASSUME NEW s \in Seq(Entries)
    PROVE  ClientsOf(s) \subseteq Conns
<1>1. \A i \in DOMAIN s : s[i] \in Entries
  BY ElementOfSeq
<1>. QED  BY <1>1 DEF ClientsOf, Entries

\* Cutting a list of entries gives lists of entries of the expected lengths,
\* whose clients are among the list's.
LEMMA CutEntries ==
    ASSUME NEW s \in Seq(Entries), NEW k \in DOMAIN s
    PROVE  /\ SubSeq(s, 1, k - 1) \in Seq(Entries)
           /\ Len(SubSeq(s, 1, k - 1)) = k - 1
           /\ \A i \in 1 .. (k - 1) : SubSeq(s, 1, k - 1)[i] = s[i]
           /\ SubSeq(s, k + 1, Len(s)) \in Seq(Entries)
           /\ Len(SubSeq(s, k + 1, Len(s))) = Len(s) - k
           /\ \A i \in 1 .. (Len(s) - k) : SubSeq(s, k + 1, Len(s))[i] = s[k + i]
<1>1. /\ Len(s) \in Nat /\ k \in 1 .. Len(s)
      /\ \A i \in 1 .. Len(s) : s[i] \in Entries
  BY ElementOfSeq
<1>2. /\ SubSeq(s, 1, k - 1) \in Seq(Entries)
      /\ Len(SubSeq(s, 1, k - 1)) = IF 1 <= k - 1 THEN (k - 1) - 1 + 1 ELSE 0
      /\ \A i \in 1 .. ((k - 1) - 1 + 1) : SubSeq(s, 1, k - 1)[i] = s[1 + i - 1]
  <2>1. \A i \in 1 .. (k - 1) : s[i] \in Entries
    BY <1>1
  <2>. QED  BY <1>1, <2>1, SubSeqProperties
<1>3. /\ SubSeq(s, k + 1, Len(s)) \in Seq(Entries)
      /\ Len(SubSeq(s, k + 1, Len(s))) =
           IF k + 1 <= Len(s) THEN Len(s) - (k + 1) + 1 ELSE 0
      /\ \A i \in 1 .. (Len(s) - (k + 1) + 1) :
           SubSeq(s, k + 1, Len(s))[i] = s[(k + 1) + i - 1]
  BY <1>1, SubSeqProperties
<1>. QED  BY <1>1, <1>2, <1>3

----------------------------------------------------------------------------
(* The threads that hold a slot                                            *)

\* There are finitely many slot holders, so counting them is meaningful.
LEMMA HoldersFinite == IsFiniteSet(Holders) /\ Cardinality(Holders) \in Nat
<1>1. Holders \in SUBSET Threads
  BY DEF Holders
<1>. QED  BY <1>1, ThreadsAssumption, FS_Subset, FS_CardinalityType

\* Taking a slot adds exactly one holder.
LEMMA HoldersGrow ==
    ASSUME TypeOK, NEW th \in Threads, pc[th] \notin {"opening", "using"},
           pc' = [pc EXCEPT ![th] = "opening"]
    PROVE  Cardinality(Holders') = Cardinality(Holders) + 1
<1>1. Holders' = Holders \cup {th} /\ th \notin Holders
  BY DEF TypeOK, Holders
<1>. QED  BY <1>1, HoldersFinite, FS_AddElement

\* Giving a slot back removes exactly one; waking the waiters changes none.
LEMMA HoldersShrink ==
    ASSUME TypeOK, NEW th \in Threads, pc[th] \in {"opening", "using"},
           NEW where \in {"out", "dropping"}, Goes(th, where)
    PROVE  /\ Cardinality(Holders') = Cardinality(Holders) - 1
           /\ pc' \in [Threads -> PCs]
           /\ pc'[th] = where
           /\ \A t \in Threads : pc'[t] # "waiting"
           /\ \A t \in Threads \ {th} : pc'[t] = "using" <=> pc[t] = "using"
<1>1. Holders' = Holders \ {th} /\ th \in Holders
  BY DEF TypeOK, Holders, Goes
<1>2. Cardinality(Holders') = Cardinality(Holders) - 1
  BY <1>1, HoldersFinite, FS_RemoveElement
<1>. QED  BY <1>2 DEF TypeOK, Goes, PCs

\* A step that moves no thread into or out of {opening, using} keeps them.
LEMMA HoldersSame ==
    ASSUME \A t \in Threads : pc'[t] \in {"opening", "using"} <=> pc[t] \in {"opening", "using"}
    PROVE  Cardinality(Holders') = Cardinality(Holders)
<1>1. Holders' = Holders
  BY DEF Holders
<1>. QED  BY <1>1

----------------------------------------------------------------------------
(* The inductive invariant                                                 *)

\* The invariants support each other: a slot is only given back once
\* (SlotsAccounted needs _inuse > 0), and the budget and the wait condition
\* are both about _inuse.
IInv ==
    /\ TypeOK
    /\ UserHasClient
    /\ SlotsAccounted
    /\ ConnBudget
    /\ NoLostWakeup

\* Popping never lengthens the pool, and takes an entry unless it empties it.
LEMMA PopProperties ==
    ASSUME TypeOK, NEW th \in Threads, Pop(th)
    PROVE  /\ idle' \in Seq(Entries)
           /\ idle' = <<>> \/ Len(idle') < Len(idle)
           /\ client' \in [Threads -> Conns \cup {NoConn}]
           /\ \A t \in Threads \ {th} : client'[t] = client[t]
           /\ closing' \in [Threads -> SUBSET Conns]
<1>1. CASE \E k \in DOMAIN idle :
             /\ client' = [client EXCEPT ![th] = idle[k].client]
             /\ closing' = [closing EXCEPT ![th] = ClientsOf(SubSeq(idle, k + 1, Len(idle)))]
             /\ idle' = SubSeq(idle, 1, k - 1)
  <2>1. PICK k \in DOMAIN idle :
             /\ client' = [client EXCEPT ![th] = idle[k].client]
             /\ closing' = [closing EXCEPT ![th] = ClientsOf(SubSeq(idle, k + 1, Len(idle)))]
             /\ idle' = SubSeq(idle, 1, k - 1)
    BY <1>1
  <2>2. /\ idle \in Seq(Entries) /\ k \in 1 .. Len(idle) /\ Len(idle) \in Nat
        /\ idle[k] \in Entries
    BY ElementOfSeq DEF TypeOK
  <2>3. idle' \in Seq(Entries) /\ Len(idle') = k - 1
    BY <2>1, <2>2, CutEntries
  <2>4. ClientsOf(SubSeq(idle, k + 1, Len(idle))) \subseteq Conns
    BY <2>2, CutEntries, ClientsOfType
  <2>. QED  BY <2>1, <2>2, <2>3, <2>4 DEF TypeOK, Entries
<1>2. CASE /\ client' = client
           /\ closing' = [closing EXCEPT ![th] = ClientsOf(idle)]
           /\ idle' = <<>>
  <2>1. ClientsOf(idle) \subseteq Conns /\ idle' \in Seq(Entries)
    BY <1>2, ClientsOfType DEF TypeOK
  <2>. QED  BY <1>2, <2>1 DEF TypeOK
<1>. QED  BY <1>1, <1>2 DEF Pop

\* Taking a slot, in Enter or after a wait.
LEMMA TakeSlotPreserves ==
    ASSUME IInv, NEW th \in Threads, pc[th] \in {"out", "woken"}, TakeSlot(th)
    PROVE  IInv'
<1>1. /\ idle' \in Seq(Entries)
      /\ idle' = <<>> \/ Len(idle') < Len(idle)
      /\ client' \in [Threads -> Conns \cup {NoConn}]
      /\ \A t \in Threads \ {th} : client'[t] = client[t]
      /\ closing' \in [Threads -> SUBSET Conns]
  BY PopProperties DEF IInv, TakeSlot
<1>2. /\ inuse \in Nat /\ inuse < MaxConn /\ inuse' = inuse + 1
      /\ pc' = [pc EXCEPT ![th] = "opening"]
      /\ late' = late \ {th} /\ sock' = sock
  BY DEF IInv, TypeOK, TakeSlot, SlotFree
<1>3. TypeOK'
  BY <1>1, <1>2 DEF IInv, TypeOK, PCs
<1>4. UserHasClient'
  BY <1>1, <1>2 DEF IInv, TypeOK, UserHasClient
<1>5. SlotsAccounted'
  BY <1>2, HoldersGrow, HoldersFinite DEF IInv, SlotsAccounted
<1>6. ConnBudget'
  <2>1. Len(idle) \in Nat /\ Len(idle') \in Nat /\ MaxConn \in Nat
    BY <1>1, MaxConnAssumption, LenProperties DEF IInv, TypeOK
  <2>2. CASE idle' = <<>>
    <3>1. Len(idle') = 0
      BY <2>2
    <3>. QED  BY <3>1, <1>2, <2>1 DEF ConnBudget
  <2>3. CASE Len(idle') < Len(idle)
    BY <2>3, <1>2, <2>1 DEF ConnBudget, IInv
  <2>. QED  BY <1>1, <2>2, <2>3
<1>7. NoLostWakeup'
  BY <1>2, MaxConnAssumption DEF IInv, TypeOK, NoLostWakeup
<1>. QED  BY <1>3, <1>4, <1>5, <1>6, <1>7 DEF IInv

\* Giving a slot back leaves room in the budget for one more idle entry.
LEMMA SlotBackProperties ==
    ASSUME IInv, NEW th \in Threads, pc[th] \in {"opening", "using"}, SlotBack
    PROVE  inuse \in Nat /\ inuse > 0 /\ inuse' = inuse - 1 /\ inuse' \in Nat
<1>1. th \in Holders /\ inuse = Cardinality(Holders) /\ inuse \in Nat
  BY DEF Holders, IInv, SlotsAccounted, TypeOK
<1>2. inuse # 0
  BY <1>1, HoldersFinite, FS_EmptySet
<1>. QED  BY <1>1, <1>2 DEF SlotBack

\* A healthy release, with whatever it does to the socket.
LEMMA ReleaseHealthyPreserves ==
    ASSUME IInv, NEW th \in Threads, pc[th] = "using",
           ReleaseHealthy(th), sock' \in [Conns -> Sockets]
    PROVE  IInv'
<1>1. inuse \in Nat /\ inuse' = inuse - 1 /\ inuse' \in Nat
  BY SlotBackProperties DEF ReleaseHealthy
<1>2. /\ Cardinality(Holders') = Cardinality(Holders) - 1
      /\ pc' \in [Threads -> PCs]
      /\ pc'[th] = "out"
      /\ \A t \in Threads : pc'[t] # "waiting"
      /\ \A t \in Threads \ {th} : pc'[t] = "using" <=> pc[t] = "using"
  BY HoldersShrink DEF ReleaseHealthy, IInv
<1>3. /\ client[th] \in Conns
      /\ client' = [client EXCEPT ![th] = NoConn]
      /\ UNCHANGED <<late, closing>>
  BY DEF IInv, TypeOK, UserHasClient, ReleaseHealthy
<1>4. idle' \in Seq(Entries) /\ Len(idle') = Len(idle) + 1 /\ Len(idle) \in Nat
  <2>1. [client |-> client[th], old |-> FALSE] \in Entries
    BY <1>3 DEF Entries
  <2>. QED  BY <2>1, AppendProperties, LenProperties DEF IInv, TypeOK, ReleaseHealthy
<1>5. TypeOK'
  BY <1>1, <1>2, <1>3, <1>4 DEF IInv, TypeOK
<1>6. UserHasClient'
  BY <1>2, <1>3 DEF IInv, TypeOK, UserHasClient
<1>7. SlotsAccounted'
  BY <1>1, <1>2 DEF IInv, SlotsAccounted
<1>8. ConnBudget'
  BY <1>1, <1>4, MaxConnAssumption DEF IInv, ConnBudget
<1>9. NoLostWakeup'
  BY <1>2 DEF NoLostWakeup
<1>. QED  BY <1>5, <1>6, <1>7, <1>8, <1>9 DEF IInv

----------------------------------------------------------------------------

\* The initial pool is empty and nobody uses it.
LEMMA InitIInv == Init => IInv
<1>. SUFFICES ASSUME Init PROVE IInv
  OBVIOUS
<1>1. TypeOK
  BY EmptySeq DEF Init, TypeOK, PCs, Sockets
<1>2. Holders = {}
  BY DEF Init, Holders
<1>3. SlotsAccounted
  BY <1>2, FS_EmptySet DEF Init, SlotsAccounted
<1>4. ConnBudget
  BY MaxConnAssumption DEF Init, ConnBudget
<1>5. UserHasClient /\ NoLostWakeup
  BY DEF Init, UserHasClient, NoLostWakeup
<1>. QED  BY <1>1, <1>3, <1>4, <1>5 DEF IInv

\* Every step of the pool, its users, the clock and the target keeps IInv.
LEMMA NextIInv == IInv /\ [Next]_vars => IInv'
<1>. SUFFICES ASSUME IInv, [Next]_vars PROVE IInv'
  OBVIOUS
<1>. USE DEF PCs, Sockets
<1>1. ASSUME NEW th \in Threads, Enter(th) PROVE IInv'
  <2>1. CASE TakeSlot(th)
    BY <1>1, <2>1, TakeSlotPreserves DEF Enter
  <2>2. CASE /\ ~SlotFree
             /\ pc' = [pc EXCEPT ![th] = "waiting"]
             /\ UNCHANGED <<idle, inuse, late, client, closing, sock>>
    <3>1. pc[th] = "out"
      BY <1>1 DEF Enter
    <3>2. Cardinality(Holders') = Cardinality(Holders)
      BY <2>2, <3>1, HoldersSame DEF IInv, TypeOK
    <3>. QED  BY <2>2, <3>1, <3>2, MaxConnAssumption
               DEF IInv, TypeOK, UserHasClient, SlotsAccounted, ConnBudget, NoLostWakeup, SlotFree
  <2>. QED  BY <1>1, <2>1, <2>2 DEF Enter
<1>2. ASSUME NEW th \in Threads, Recheck(th) PROVE IInv'
  <2>1. CASE TakeSlot(th)
    BY <1>2, <2>1, TakeSlotPreserves DEF Recheck
  <2>2. CASE /\ ~SlotFree
             /\ late' = late \ {th}
             /\ pc' = [pc EXCEPT ![th] = IF th \in late THEN "out" ELSE "waiting"]
             /\ UNCHANGED <<idle, inuse, client, closing, sock>>
    <3>1. pc[th] = "woken"
      BY <1>2 DEF Recheck
    <3>2. Cardinality(Holders') = Cardinality(Holders)
      BY <2>2, <3>1, HoldersSame DEF IInv, TypeOK
    <3>. QED  BY <2>2, <3>1, <3>2, MaxConnAssumption
               DEF IInv, TypeOK, UserHasClient, SlotsAccounted, ConnBudget, NoLostWakeup, SlotFree
  <2>. QED  BY <1>2, <2>1, <2>2 DEF Recheck
<1>3. ASSUME NEW th \in Threads, DeadlinePasses(th) PROVE IInv'
  <2>1. Cardinality(Holders') = Cardinality(Holders)
    BY <1>3, HoldersSame DEF DeadlinePasses, IInv, TypeOK
  <2>. QED  BY <1>3, <2>1 DEF DeadlinePasses, IInv, TypeOK, UserHasClient,
                              SlotsAccounted, ConnBudget, NoLostWakeup
<1>4. ASSUME NEW th \in Threads, CloseOne(th) PROVE IInv'
  <2>1. Cardinality(Holders') = Cardinality(Holders)
    BY <1>4, HoldersSame DEF CloseOne, IInv, TypeOK
  <2>. QED  BY <1>4, <2>1 DEF CloseOne, IInv, TypeOK, UserHasClient,
                              SlotsAccounted, ConnBudget, NoLostWakeup
<1>5. ASSUME NEW th \in Threads, HandOut(th) PROVE IInv'
  <2>1. Cardinality(Holders') = Cardinality(Holders)
    BY <1>5, HoldersSame DEF HandOut, IInv, TypeOK
  <2>. QED  BY <1>5, <2>1 DEF HandOut, IInv, TypeOK, UserHasClient,
                              SlotsAccounted, ConnBudget, NoLostWakeup
<1>6. ASSUME NEW th \in Threads, Connect(th) PROVE IInv'
  <2>1. Cardinality(Holders') = Cardinality(Holders)
    BY <1>6, HoldersSame DEF Connect, IInv, TypeOK
  <2>. QED  BY <1>6, <2>1, NoConnAssumption
             DEF Connect, IInv, TypeOK, UserHasClient, SlotsAccounted, ConnBudget, NoLostWakeup
<1>7. ASSUME NEW th \in Threads, ConnectFails(th) PROVE IInv'
  <2>1. inuse \in Nat /\ inuse' = inuse - 1 /\ inuse' \in Nat
    BY <1>7, SlotBackProperties DEF ConnectFails
  <2>2. /\ Cardinality(Holders') = Cardinality(Holders) - 1
        /\ pc' \in [Threads -> PCs]
        /\ pc'[th] = "out"
        /\ \A t \in Threads : pc'[t] # "waiting"
        /\ \A t \in Threads \ {th} : pc'[t] = "using" <=> pc[t] = "using"
    BY <1>7, HoldersShrink DEF ConnectFails, IInv
  <2>3. Len(idle) \in Nat /\ UNCHANGED <<idle, late, client, closing, sock>>
    BY <1>7, LenProperties DEF ConnectFails, IInv, TypeOK
  <2>. QED  BY <2>1, <2>2, <2>3, MaxConnAssumption
             DEF IInv, TypeOK, UserHasClient, SlotsAccounted, ConnBudget, NoLostWakeup
<1>8. ASSUME NEW th \in Threads, UseOk(th) PROVE IInv'
  BY <1>8, ReleaseHealthyPreserves DEF UseOk, IInv, TypeOK
<1>9. ASSUME NEW th \in Threads, UseClosesItself(th) PROVE IInv'
  BY <1>9, ReleaseHealthyPreserves DEF UseClosesItself, IInv, TypeOK
<1>10. ASSUME NEW th \in Threads, UseRaises(th) PROVE IInv'
  <2>1. inuse \in Nat /\ inuse' = inuse - 1 /\ inuse' \in Nat
    BY <1>10, SlotBackProperties DEF UseRaises, ReleaseUnhealthy
  <2>2. /\ Cardinality(Holders') = Cardinality(Holders) - 1
        /\ pc' \in [Threads -> PCs]
        /\ pc'[th] = "dropping"
        /\ \A t \in Threads : pc'[t] # "waiting"
        /\ \A t \in Threads \ {th} : pc'[t] = "using" <=> pc[t] = "using"
    BY <1>10, HoldersShrink DEF UseRaises, ReleaseUnhealthy, IInv
  <2>3. /\ Len(idle) \in Nat /\ client[th] \in Conns
        /\ client' = [client EXCEPT ![th] = NoConn]
        /\ closing' = [closing EXCEPT ![th] = {client[th]}]
        /\ UNCHANGED <<idle, late, sock>>
    BY <1>10, LenProperties DEF UseRaises, ReleaseUnhealthy, IInv, TypeOK, UserHasClient
  <2>4. TypeOK'
    BY <2>1, <2>2, <2>3 DEF IInv, TypeOK
  <2>5. UserHasClient'
    BY <2>2, <2>3 DEF IInv, TypeOK, UserHasClient
  <2>6. SlotsAccounted' /\ ConnBudget'
    BY <2>1, <2>2, <2>3, MaxConnAssumption DEF IInv, SlotsAccounted, ConnBudget
  <2>7. NoLostWakeup'
    BY <2>2 DEF NoLostWakeup
  <2>. QED  BY <2>4, <2>5, <2>6, <2>7 DEF IInv
<1>11. ASSUME NEW th \in Threads, CloseAll(th) PROVE IInv'
  <2>1. Cardinality(Holders') = Cardinality(Holders)
    BY <1>11, HoldersSame DEF CloseAll, IInv, TypeOK
  <2>2. ClientsOf(idle) \subseteq Conns /\ <<>> \in Seq(Entries) /\ Len(<<>>) = 0
    BY ClientsOfType, EmptySeq DEF IInv, TypeOK
  <2>3. Len(idle) \in Nat
    BY LenProperties DEF IInv, TypeOK
  <2>4. idle' = <<>> /\ inuse' = inuse /\ late' = late /\ client' = client /\ sock' = sock
    BY <1>11 DEF CloseAll
  <2>5. pc' \in [Threads -> PCs] /\ \A t \in Threads : pc'[t] # pc[t] => pc'[t] = "dropping"
    BY <1>11 DEF CloseAll, IInv, TypeOK
  <2>6. closing' \in [Threads -> SUBSET Conns]
    BY <1>11, <2>2 DEF CloseAll, IInv, TypeOK
  <2>7. TypeOK'
    BY <2>2, <2>4, <2>5, <2>6 DEF IInv, TypeOK
  <2>8. ConnBudget'
    BY <2>2, <2>3, <2>4, MaxConnAssumption DEF IInv, TypeOK, ConnBudget
  <2>9. UserHasClient' /\ SlotsAccounted' /\ NoLostWakeup'
    BY <2>1, <2>4, <2>5 DEF IInv, TypeOK, UserHasClient, SlotsAccounted, NoLostWakeup
  <2>. QED  BY <2>7, <2>8, <2>9 DEF IInv
<1>12. ASSUME Age PROVE IInv'
  <2>1. PICK k \in DOMAIN idle : idle' = [idle EXCEPT ![k].old = TRUE]
    BY <1>12 DEF Age
  <2>2. idle \in Seq(Entries) /\ k \in 1 .. Len(idle) /\ idle[k] \in Entries
    BY ElementOfSeq DEF IInv, TypeOK
  <2>3. [idle[k] EXCEPT !.old = TRUE] \in Entries
    BY <2>2 DEF Entries
  <2>4. idle' \in Seq(Entries) /\ Len(idle') = Len(idle)
    BY <2>1, <2>2, <2>3, ExceptSeq
  <2>5. UNCHANGED <<inuse, pc, late, client, closing, sock>>
    BY <1>12 DEF Age
  <2>6. Cardinality(Holders') = Cardinality(Holders)
    BY <2>5, HoldersSame
  <2>. QED  BY <2>4, <2>5, <2>6
             DEF IInv, TypeOK, UserHasClient, SlotsAccounted, ConnBudget, NoLostWakeup
<1>13. ASSUME NEW c \in Conns, PeerCloses(c) PROVE IInv'
  <2>1. Cardinality(Holders') = Cardinality(Holders)
    BY <1>13, HoldersSame DEF PeerCloses
  <2>. QED  BY <1>13, <2>1 DEF PeerCloses, IInv, TypeOK, UserHasClient,
                               SlotsAccounted, ConnBudget, NoLostWakeup
<1>14. CASE UNCHANGED vars
  <2>1. Cardinality(Holders') = Cardinality(Holders)
    BY <1>14, HoldersSame DEF vars
  <2>. QED  BY <1>14, <2>1 DEF vars, IInv, TypeOK, UserHasClient,
                               SlotsAccounted, ConnBudget, NoLostWakeup
<1>. QED  BY <1>1, <1>2, <1>3, <1>4, <1>5, <1>6, <1>7, <1>8, <1>9, <1>10,
             <1>11, <1>12, <1>13, <1>14 DEF Next, Step

\* IInv holds in every reachable state of the pool.
THEOREM PoolInvariant == Spec => []IInv
BY InitIInv, NextIInv, PTL DEF Spec

\* Every variable of the pool keeps its type.
THEOREM PoolTypeCorrect == Spec => []TypeOK
<1>1. IInv => TypeOK
  BY DEF IInv
<1>. QED  BY <1>1, PoolInvariant, PTL

\* _inuse always equals the number of threads that hold a slot, on every
\* error path: the pool neither leaks slots nor gives one back twice.
THEOREM PoolSlotsAccounted == Spec => []SlotsAccounted
<1>1. IInv => SlotsAccounted
  BY DEF IInv
<1>. QED  BY <1>1, PoolInvariant, PTL

\* Idle and lent connections together never exceed MAX_CONN_PER_TARGET.
THEOREM PoolConnBudget == Spec => []ConnBudget
<1>1. IInv => ConnBudget
  BY DEF IInv
<1>. QED  BY <1>1, PoolInvariant, PTL

\* No thread sleeps on the condition while a slot is free.
THEOREM PoolNoLostWakeup == Spec => []NoLostWakeup
<1>1. IInv => NoLostWakeup
  BY DEF IInv
<1>. QED  BY <1>1, PoolInvariant, PTL

============================================================================
