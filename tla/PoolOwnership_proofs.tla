------------------------ MODULE PoolOwnership_proofs ------------------------
(***************************************************************************)
(* Who owns a connection: every client is in one place only, no open       *)
(* socket is forgotten, and the pool implements BoundedPool.  For any      *)
(* number of threads and clients and any MaxConn.                          *)
(***************************************************************************)
EXTENDS TargetPool_proofs

----------------------------------------------------------------------------
(* The clients of a list of entries                                        *)

Distinct(s) == \A i, j \in DOMAIN s : s[i].client = s[j].client => i = j

\* Cutting a list of distinct entries at k splits its clients in three.
LEMMA CutClients ==
    ASSUME NEW s \in Seq(Entries), NEW k \in DOMAIN s, Distinct(s)
    PROVE  LET before == SubSeq(s, 1, k - 1)
               after == SubSeq(s, k + 1, Len(s))
           IN  /\ Distinct(before)
               /\ ClientsOf(s) = ClientsOf(before) \cup {s[k].client} \cup ClientsOf(after)
               /\ s[k].client \notin ClientsOf(before) \cup ClientsOf(after)
               /\ ClientsOf(before) \cap ClientsOf(after) = {}
<1>. DEFINE before == SubSeq(s, 1, k - 1)
            after == SubSeq(s, k + 1, Len(s))
<1>1. Len(s) \in Nat /\ DOMAIN s = 1 .. Len(s) /\ k \in 1 .. Len(s)
  BY LenProperties
<1>2. /\ DOMAIN before = 1 .. (k - 1)
      /\ \A i \in 1 .. (k - 1) : before[i] = s[i]
      /\ DOMAIN after = 1 .. (Len(s) - k)
      /\ \A i \in 1 .. (Len(s) - k) : after[i] = s[k + i]
  BY CutEntries, LenProperties
<1>. HIDE DEF before, after
<1>3. ClientsOf(before) = {s[i].client : i \in 1 .. (k - 1)}
  BY <1>2 DEF ClientsOf
<1>4. ClientsOf(after) = {s[i].client : i \in (k + 1) .. Len(s)}
  <2>1. ASSUME NEW c, c \in ClientsOf(after)
        PROVE  c \in {s[i].client : i \in (k + 1) .. Len(s)}
    <3>1. PICK i \in 1 .. (Len(s) - k) : c = s[k + i].client
      BY <1>2, <2>1 DEF ClientsOf
    <3>2. k + i \in (k + 1) .. Len(s)
      BY <1>1
    <3>. QED  BY <3>1, <3>2
  <2>2. ASSUME NEW i \in (k + 1) .. Len(s)
        PROVE  s[i].client \in ClientsOf(after)
    <3>1. i - k \in 1 .. (Len(s) - k) /\ k + (i - k) = i
      BY <1>1
    <3>. QED  BY <1>2, <3>1 DEF ClientsOf
  <2>. QED  BY <2>1, <2>2
<1>5. \A i \in 1 .. Len(s) : i \in 1 .. (k - 1) \/ i = k \/ i \in (k + 1) .. Len(s)
  BY <1>1
<1>6. \A i \in 1 .. (k - 1), j \in (k + 1) .. Len(s) :
        /\ i \in DOMAIN s /\ j \in DOMAIN s
        /\ i # k /\ j # k /\ i # j
  BY <1>1
<1>7. \A i \in 1 .. (k - 1) : i \in DOMAIN s /\ i # k
  BY <1>1
<1>8. \A j \in (k + 1) .. Len(s) : j \in DOMAIN s /\ j # k
  BY <1>1
<1>9. Distinct(before)
  BY <1>2, <1>7 DEF Distinct
<1>10. ClientsOf(s) = ClientsOf(before) \cup {s[k].client} \cup ClientsOf(after)
  <2>1. ClientsOf(s) = {s[i].client : i \in 1 .. Len(s)}
    BY <1>1 DEF ClientsOf
  <2>2. ClientsOf(s) \subseteq ClientsOf(before) \cup {s[k].client} \cup ClientsOf(after)
    BY <2>1, <1>3, <1>4, <1>5
  <2>3. ClientsOf(before) \cup {s[k].client} \cup ClientsOf(after) \subseteq ClientsOf(s)
    BY <2>1, <1>1, <1>3, <1>4, <1>7, <1>8
  <2>. QED  BY <2>2, <2>3
<1>11. s[k].client \notin ClientsOf(before) \cup ClientsOf(after)
  BY <1>3, <1>4, <1>7, <1>8 DEF Distinct
<1>12. ClientsOf(before) \cap ClientsOf(after) = {}
  BY <1>3, <1>4, <1>6 DEF Distinct
<1>. QED  BY <1>9, <1>10, <1>11, <1>12 DEF before, after

\* An empty list has no clients.
LEMMA NoClients == ClientsOf(<<>>) = {} /\ Distinct(<<>>)
BY DEF ClientsOf, Distinct

\* Appending an entry adds its client.
LEMMA AppendClients ==
    ASSUME NEW s \in Seq(Entries), NEW e \in Entries,
           Distinct(s), e.client \notin ClientsOf(s)
    PROVE  /\ ClientsOf(Append(s, e)) = ClientsOf(s) \cup {e.client}
           /\ Distinct(Append(s, e))
<1>1. /\ Len(s) \in Nat /\ DOMAIN s = 1 .. Len(s)
      /\ DOMAIN Append(s, e) = 1 .. (Len(s) + 1)
      /\ \A i \in 1 .. Len(s) : Append(s, e)[i] = s[i]
      /\ Append(s, e)[Len(s) + 1] = e
  BY LenProperties, AppendProperties
<1>2. \A i \in 1 .. (Len(s) + 1) : i \in 1 .. Len(s) \/ i = Len(s) + 1
  BY <1>1
<1>3. 1 .. Len(s) \subseteq 1 .. (Len(s) + 1) /\ Len(s) + 1 \in 1 .. (Len(s) + 1)
  BY <1>1
<1>. DEFINE longer == Append(s, e)
<1>. HIDE DEF longer
<1>4. ClientsOf(longer) = {longer[i].client : i \in 1 .. (Len(s) + 1)}
  BY <1>1 DEF ClientsOf, longer
<1>5. ClientsOf(s) = {s[i].client : i \in 1 .. Len(s)}
  BY <1>1 DEF ClientsOf
<1>6. (\A i \in 1 .. Len(s) : longer[i] = s[i]) /\ longer[Len(s) + 1] = e
  BY <1>1 DEF longer
<1>7. ClientsOf(longer) = ClientsOf(s) \cup {e.client}
  <2>1. ClientsOf(longer) \subseteq ClientsOf(s) \cup {e.client}
    BY <1>2, <1>4, <1>5, <1>6
  <2>2. ClientsOf(s) \cup {e.client} \subseteq ClientsOf(longer)
    BY <1>3, <1>4, <1>5, <1>6
  <2>. QED  BY <2>1, <2>2
<1>8. Distinct(longer)
  <2>1. \A i \in 1 .. Len(s) : s[i].client # e.client
    BY <1>5
  <2>2. DOMAIN longer = 1 .. (Len(s) + 1)
    BY <1>1 DEF longer
  <2>. QED  BY <1>1, <1>2, <1>6, <2>1, <2>2 DEF Distinct
<1>. QED  BY <1>7, <1>8 DEF longer

\* Growing old changes no client.
LEMMA AgeClients ==
    ASSUME NEW s \in Seq(Entries), NEW k \in DOMAIN s, Distinct(s)
    PROVE  LET aged == [s EXCEPT ![k].old = TRUE]
           IN  ClientsOf(aged) = ClientsOf(s) /\ Distinct(aged)
<1>. DEFINE aged == [s EXCEPT ![k].old = TRUE]
<1>1. s[k] \in Entries
  BY ElementOfSeq
<1>2. DOMAIN aged = DOMAIN s /\ \A i \in DOMAIN s : aged[i].client = s[i].client
  BY <1>1 DEF Entries
<1>. HIDE DEF aged
<1>3. ClientsOf(aged) = ClientsOf(s) /\ Distinct(aged)
  BY <1>2 DEF ClientsOf, Distinct
<1>. QED  BY <1>3 DEF aged

----------------------------------------------------------------------------
(* The inductive invariant                                                 *)

\* A thread has a client only while it opens or uses it, and has clients to
\* close only before it opens one or after it dropped one.
Placed ==
    \A th \in Threads :
        /\ client[th] # NoConn => pc[th] \in {"opening", "using"}
        /\ closing[th] # {} => pc[th] \in {"opening", "dropping"}

Owners == Placed /\ OwnedOnce /\ NoSocketLeak

\* What an acquire takes out of the pool goes to the thread, to use or close.
LEMMA PopOwners ==
    ASSUME TypeOK, Owners, NEW th \in Threads, Pop(th),
           client[th] = NoConn, closing[th] = {}
    PROVE  /\ Distinct(idle')
           /\ ClientsOf(idle) \subseteq ClientsOf(idle') \cup closing'[th] \cup {client'[th]}
           /\ ClientsOf(idle') \subseteq ClientsOf(idle)
           /\ closing'[th] \subseteq ClientsOf(idle) \ ClientsOf(idle')
           /\ client'[th] = NoConn \/
                client'[th] \in ClientsOf(idle) \ (ClientsOf(idle') \cup closing'[th])
           /\ \A t \in Threads \ {th} : client'[t] = client[t] /\ closing'[t] = closing[t]
<1>1. idle \in Seq(Entries) /\ Distinct(idle)
  BY DEF TypeOK, Owners, OwnedOnce, Distinct
<1>2. CASE \E k \in DOMAIN idle :
             /\ client' = [client EXCEPT ![th] = idle[k].client]
             /\ closing' = [closing EXCEPT ![th] = ClientsOf(SubSeq(idle, k + 1, Len(idle)))]
             /\ idle' = SubSeq(idle, 1, k - 1)
  <2>1. PICK k \in DOMAIN idle :
             /\ client' = [client EXCEPT ![th] = idle[k].client]
             /\ closing' = [closing EXCEPT ![th] = ClientsOf(SubSeq(idle, k + 1, Len(idle)))]
             /\ idle' = SubSeq(idle, 1, k - 1)
    BY <1>2
  <2>2. /\ client'[th] = idle[k].client
        /\ closing'[th] = ClientsOf(SubSeq(idle, k + 1, Len(idle)))
        /\ \A t \in Threads \ {th} : client'[t] = client[t] /\ closing'[t] = closing[t]
    BY <2>1 DEF TypeOK
  <2>3. /\ Distinct(idle')
        /\ ClientsOf(idle) = ClientsOf(idle') \cup {client'[th]} \cup closing'[th]
        /\ client'[th] \notin ClientsOf(idle') \cup closing'[th]
        /\ ClientsOf(idle') \cap closing'[th] = {}
    BY <1>1, <2>1, <2>2, CutClients
  <2>. QED  BY <2>2, <2>3
<1>3. CASE /\ client' = client
           /\ closing' = [closing EXCEPT ![th] = ClientsOf(idle)]
           /\ idle' = <<>>
  BY <1>3, NoClients DEF TypeOK
<1>. QED  BY <1>2, <1>3 DEF Pop

\* Taking a slot moves clients from the pool to the thread.
LEMMA TakeSlotOwners ==
    ASSUME TypeOK, TypeOK', Owners, NEW th \in Threads,
           pc[th] \in {"out", "woken"}, TakeSlot(th)
    PROVE  Owners'
<1>1. client[th] = NoConn /\ closing[th] = {}
  BY DEF Owners, Placed
<1>2. /\ pc' = [pc EXCEPT ![th] = "opening"] /\ sock' = sock /\ Pop(th)
  BY DEF TakeSlot
<1>3. /\ Distinct(idle')
      /\ ClientsOf(idle) \subseteq ClientsOf(idle') \cup closing'[th] \cup {client'[th]}
      /\ ClientsOf(idle') \subseteq ClientsOf(idle)
      /\ closing'[th] \subseteq ClientsOf(idle) \ ClientsOf(idle')
      /\ client'[th] = NoConn \/
           client'[th] \in ClientsOf(idle) \ (ClientsOf(idle') \cup closing'[th])
      /\ \A t \in Threads \ {th} : client'[t] = client[t] /\ closing'[t] = closing[t]
  BY <1>1, <1>2, PopOwners
<1>4. /\ ClientsOf(idle') \subseteq Conns
      /\ \A t \in Threads : closing'[t] \subseteq Conns
  BY ClientsOfType DEF TypeOK
<1>5. Placed'
  BY <1>2, <1>3 DEF Owners, Placed, TypeOK
<1>6. OwnedOnce'
  <2>1. \A i, j \in DOMAIN idle' : idle'[i].client = idle'[j].client => i = j
    BY <1>3 DEF Distinct
  <2>2. \A t, u \in Threads : client'[t] # NoConn /\ client'[t] = client'[u] => t = u
    BY <1>3 DEF Owners, OwnedOnce
  <2>3. \A t \in Threads : client'[t] \notin ClientsOf(idle')
    BY <1>3, <1>4, NoConnAssumption DEF Owners, OwnedOnce
  <2>4. \A t, u \in Threads : client'[t] \notin closing'[u]
    BY <1>3, <1>4, NoConnAssumption DEF Owners, OwnedOnce
  <2>5. \A t, u \in Threads : t # u => closing'[t] \cap closing'[u] = {}
    BY <1>3 DEF Owners, OwnedOnce
  <2>6. \A t \in Threads : closing'[t] \cap ClientsOf(idle') = {}
    BY <1>3 DEF Owners, OwnedOnce
  <2>. QED  BY <2>1, <2>2, <2>3, <2>4, <2>5, <2>6 DEF OwnedOnce
<1>7. Known \cap Conns \subseteq Known'
  <2>1. \A t \in Threads : client[t] \in Conns => client[t] \in Known'
    BY <1>1, <1>3, NoConnAssumption DEF Known
  <2>2. \A t \in Threads : closing[t] \subseteq Known'
    BY <1>1, <1>3 DEF Known
  <2>3. ClientsOf(idle) \subseteq Known'
    BY <1>3 DEF Known
  <2>. QED  BY <2>1, <2>2, <2>3 DEF Known
<1>8. NoSocketLeak'
  BY <1>2, <1>7 DEF Owners, NoSocketLeak
<1>. QED  BY <1>5, <1>6, <1>8 DEF Owners

\* A healthy release moves the thread's client to the end of the pool.
LEMMA ReleaseHealthyOwners ==
    ASSUME TypeOK, TypeOK', UserHasClient, Owners, NEW th \in Threads,
           pc[th] = "using", ReleaseHealthy(th),
           \A c \in Conns : sock'[c] # "closed" => sock[c] # "closed"
    PROVE  Owners'
<1>1. /\ client[th] \in Conns
      /\ client'[th] = NoConn
      /\ \A t \in Threads \ {th} : client'[t] = client[t]
      /\ closing' = closing /\ closing[th] = {}
  BY DEF TypeOK, UserHasClient, Owners, Placed, ReleaseHealthy
<1>2. /\ idle \in Seq(Entries) /\ Distinct(idle)
      /\ client[th] \notin ClientsOf(idle)
      /\ [client |-> client[th], old |-> FALSE] \in Entries
      /\ idle' = Append(idle, [client |-> client[th], old |-> FALSE])
  BY <1>1 DEF TypeOK, Owners, OwnedOnce, Distinct, Entries, ReleaseHealthy
<1>3. ClientsOf(idle') = ClientsOf(idle) \cup {client[th]} /\ Distinct(idle')
  BY <1>2, AppendClients
<1>4. \A t \in Threads : pc'[t] = (IF t = th THEN "out" ELSE
                                   IF pc[t] = "waiting" THEN "woken" ELSE pc[t])
  BY DEF ReleaseHealthy, Goes
<1>5. Placed'
  BY <1>1, <1>4 DEF Owners, Placed
<1>6. OwnedOnce'
  <2>1. \A i, j \in DOMAIN idle' : idle'[i].client = idle'[j].client => i = j
    BY <1>3 DEF Distinct
  <2>2. ClientsOf(idle') \subseteq Conns
    BY ClientsOfType DEF TypeOK
  <2>3. \A t \in Threads : client'[t] \notin ClientsOf(idle')
    BY <1>1, <1>3, <2>2, NoConnAssumption DEF Owners, OwnedOnce
  <2>4. \A t, u \in Threads : client'[t] \notin closing'[u]
    BY <1>1, NoConnAssumption DEF Owners, OwnedOnce, TypeOK
  <2>5. \A t, u \in Threads : client'[t] # NoConn /\ client'[t] = client'[u] => t = u
    BY <1>1 DEF Owners, OwnedOnce
  <2>6. \A t, u \in Threads : t # u => closing'[t] \cap closing'[u] = {}
    BY <1>1 DEF Owners, OwnedOnce
  <2>7. \A t \in Threads : closing'[t] \cap ClientsOf(idle') = {}
    BY <1>1, <1>3 DEF Owners, OwnedOnce
  <2>. QED  BY <2>1, <2>3, <2>4, <2>5, <2>6, <2>7 DEF OwnedOnce
<1>7. Known \cap Conns \subseteq Known'
  <2>1. \A t \in Threads : client[t] \in Conns => client[t] \in Known'
    BY <1>1, <1>3 DEF Known
  <2>2. ClientsOf(idle) \subseteq Known' /\ \A t \in Threads : closing[t] \subseteq Known'
    BY <1>1, <1>3 DEF Known
  <2>. QED  BY <2>1, <2>2 DEF Known
<1>8. NoSocketLeak'
  BY <1>7 DEF Owners, NoSocketLeak
<1>. QED  BY <1>5, <1>6, <1>8 DEF Owners

\* A step that moves no client and opens no socket.
LEMMA OwnersSame ==
    ASSUME Owners, Placed', UNCHANGED <<idle, client, closing>>,
           \A c \in Conns : sock'[c] # "closed" => sock[c] # "closed"
    PROVE  Owners'
<1>1. OwnedOnce' /\ Known' = Known
  BY DEF Owners, OwnedOnce, Known, ClientsOf
<1>. QED  BY <1>1 DEF Owners, NoSocketLeak

----------------------------------------------------------------------------

\* Nobody owns anything initially.
LEMMA InitOwners == Init => Owners
<1>. SUFFICES ASSUME Init PROVE Owners
  OBVIOUS
<1>1. ClientsOf(idle) = {} /\ \A i \in DOMAIN idle : FALSE
  BY NoClients DEF Init
<1>2. OwnedOnce
  BY <1>1 DEF Init, OwnedOnce
<1>. QED  BY <1>2 DEF Init, Owners, Placed, NoSocketLeak

\* Every step keeps Owners.
LEMMA NextOwners ==
    ASSUME TypeOK, TypeOK', UserHasClient, Owners, [Next]_vars
    PROVE  Owners'
<1>1. ASSUME NEW th \in Threads, Enter(th) PROVE Owners'
  <2>1. CASE TakeSlot(th)
    BY <1>1, <2>1, TakeSlotOwners DEF Enter
  <2>2. CASE /\ pc' = [pc EXCEPT ![th] = "waiting"]
             /\ UNCHANGED <<idle, inuse, late, client, closing, sock>>
    <3>1. Placed'
      BY <1>1, <2>2 DEF Enter, Owners, Placed, TypeOK
    <3>. QED  BY <2>2, <3>1, OwnersSame
  <2>. QED  BY <1>1, <2>1, <2>2 DEF Enter
<1>2. ASSUME NEW th \in Threads, Recheck(th) PROVE Owners'
  <2>1. CASE TakeSlot(th)
    BY <1>2, <2>1, TakeSlotOwners DEF Recheck
  <2>2. CASE /\ pc' = [pc EXCEPT ![th] = IF th \in late THEN "out" ELSE "waiting"]
             /\ UNCHANGED <<idle, inuse, client, closing, sock>>
    <3>1. Placed'
      BY <1>2, <2>2 DEF Recheck, Owners, Placed, TypeOK
    <3>. QED  BY <2>2, <3>1, OwnersSame
  <2>. QED  BY <1>2, <2>1, <2>2 DEF Recheck
<1>3. ASSUME NEW th \in Threads, DeadlinePasses(th) PROVE Owners'
  <2>1. Placed'
    BY <1>3 DEF DeadlinePasses, Owners, Placed, TypeOK
  <2>. QED  BY <1>3, <2>1, OwnersSame DEF DeadlinePasses
<1>4. ASSUME NEW th \in Threads, CloseOne(th) PROVE Owners'
  <2>1. PICK c \in closing[th] :
          /\ sock' = [sock EXCEPT ![c] = "closed"]
          /\ closing' = [closing EXCEPT ![th] = @ \ {c}]
          /\ pc' = IF pc[th] = "dropping" /\ closing[th] = {c}
                   THEN [pc EXCEPT ![th] = "out"] ELSE pc
    BY <1>4 DEF CloseOne
  <2>2. /\ closing'[th] = closing[th] \ {c}
        /\ \A t \in Threads \ {th} : closing'[t] = closing[t]
        /\ idle' = idle /\ client' = client
    BY <1>4, <2>1 DEF CloseOne, TypeOK
  <2>3. Placed'
    BY <2>1, <2>2 DEF Owners, Placed, TypeOK
  <2>4. OwnedOnce'
    <3>1. ClientsOf(idle') = ClientsOf(idle) /\ \A t \in Threads : closing'[t] \subseteq closing[t]
      BY <2>2
    <3>. QED  BY <2>2, <3>1 DEF Owners, OwnedOnce
  <2>5. NoSocketLeak'
    <3>1. Known \ {c} \subseteq Known'
      BY <2>2 DEF Known
    <3>2. \A d \in Conns : sock'[d] # "closed" => d # c /\ sock[d] # "closed"
      BY <2>1 DEF TypeOK
    <3>. QED  BY <3>1, <3>2 DEF Owners, NoSocketLeak
  <2>. QED  BY <2>3, <2>4, <2>5 DEF Owners
<1>5. ASSUME NEW th \in Threads, HandOut(th) PROVE Owners'
  <2>1. Placed'
    BY <1>5 DEF HandOut, Owners, Placed, TypeOK
  <2>. QED  BY <1>5, <2>1, OwnersSame DEF HandOut
<1>6. ASSUME NEW th \in Threads, Connect(th) PROVE Owners'
  <2>1. PICK c \in Conns \ Known :
          client' = [client EXCEPT ![th] = c] /\ sock' = [sock EXCEPT ![c] = "open"]
    BY <1>6 DEF Connect
  <2>2. /\ client'[th] = c /\ client[th] = NoConn
        /\ \A t \in Threads \ {th} : client'[t] = client[t]
        /\ idle' = idle /\ closing' = closing
    BY <1>6, <2>1 DEF Connect, TypeOK
  <2>3. /\ c \notin ClientsOf(idle)
        /\ \A t \in Threads : c # client[t] /\ c \notin closing[t]
    BY <2>1 DEF Known
  <2>4. Placed'
    BY <1>6, <2>2 DEF Connect, Owners, Placed, TypeOK
  <2>5. OwnedOnce'
    <3>1. ClientsOf(idle') = ClientsOf(idle)
      BY <2>2
    <3>. QED  BY <2>2, <2>3, <3>1 DEF Owners, OwnedOnce
  <2>6. NoSocketLeak'
    <3>1. Known \cap Conns \subseteq Known' /\ c \in Known'
      BY <2>2, NoConnAssumption DEF Known
    <3>2. \A d \in Conns \ {c} : sock'[d] = sock[d]
      BY <2>1 DEF TypeOK
    <3>. QED  BY <3>1, <3>2 DEF Owners, NoSocketLeak
  <2>. QED  BY <2>4, <2>5, <2>6 DEF Owners
<1>7. ASSUME NEW th \in Threads, ConnectFails(th) PROVE Owners'
  <2>1. Placed'
    BY <1>7 DEF ConnectFails, Goes, Owners, Placed
  <2>. QED  BY <1>7, <2>1, OwnersSame DEF ConnectFails
<1>8. ASSUME NEW th \in Threads, UseOk(th) PROVE Owners'
  BY <1>8, ReleaseHealthyOwners DEF UseOk
<1>9. ASSUME NEW th \in Threads, UseClosesItself(th) PROVE Owners'
  <2>1. \A c \in Conns : sock'[c] # "closed" => sock[c] # "closed"
    BY <1>9 DEF UseClosesItself, TypeOK
  <2>. QED  BY <1>9, <2>1, ReleaseHealthyOwners DEF UseClosesItself
<1>10. ASSUME NEW th \in Threads, UseRaises(th) PROVE Owners'
  <2>1. /\ pc[th] = "using" /\ client[th] \in Conns /\ closing[th] = {}
        /\ client'[th] = NoConn /\ closing'[th] = {client[th]}
        /\ \A t \in Threads \ {th} : client'[t] = client[t] /\ closing'[t] = closing[t]
        /\ idle' = idle /\ sock' = sock
    BY <1>10 DEF UseRaises, ReleaseUnhealthy, TypeOK, UserHasClient, Owners, Placed
  <2>2. \A t \in Threads : pc'[t] = (IF t = th THEN "dropping" ELSE
                                     IF pc[t] = "waiting" THEN "woken" ELSE pc[t])
    BY <1>10 DEF UseRaises, ReleaseUnhealthy, Goes
  <2>3. Placed'
    BY <2>1, <2>2 DEF Owners, Placed
  <2>4. OwnedOnce'
    <3>1. ClientsOf(idle') = ClientsOf(idle) /\ ClientsOf(idle) \subseteq Conns
      BY <2>1, ClientsOfType DEF TypeOK
    <3>2. \A t, u \in Threads : client'[t] # NoConn /\ client'[t] = client'[u] => t = u
      BY <2>1 DEF Owners, OwnedOnce
    <3>3. \A i, j \in DOMAIN idle' : idle'[i].client = idle'[j].client => i = j
      BY <2>1 DEF Owners, OwnedOnce
    <3>4. \A t \in Threads : client'[t] \notin ClientsOf(idle')
      BY <2>1, <3>1, NoConnAssumption DEF Owners, OwnedOnce
    <3>5. \A t, u \in Threads : client'[t] \notin closing'[u]
      <4>1. \A t \in Threads \ {th} : client[t] # client[th]
        BY <2>1, NoConnAssumption DEF Owners, OwnedOnce
      <4>2. NoConn \notin {client[th]} /\ \A u \in Threads : NoConn \notin closing[u]
        BY <2>1, NoConnAssumption DEF TypeOK
      <4>. QED  BY <2>1, <4>1, <4>2 DEF Owners, OwnedOnce
    <3>6. \A t, u \in Threads : t # u => closing'[t] \cap closing'[u] = {}
      BY <2>1 DEF Owners, OwnedOnce
    <3>7. \A t \in Threads : closing'[t] \cap ClientsOf(idle') = {}
      BY <2>1, <3>1 DEF Owners, OwnedOnce
    <3>. QED  BY <3>2, <3>3, <3>4, <3>5, <3>6, <3>7 DEF OwnedOnce
  <2>5. NoSocketLeak'
    <3>1. Known \cap Conns \subseteq Known'
      <4>1. \A t \in Threads : client[t] \in Known' \cup {NoConn} /\ closing[t] \subseteq Known'
        BY <2>1 DEF Known
      <4>2. ClientsOf(idle) \subseteq Known'
        BY <2>1 DEF Known
      <4>. QED  BY <4>1, <4>2, NoConnAssumption DEF Known
    <3>. QED  BY <2>1, <3>1 DEF Owners, NoSocketLeak
  <2>. QED  BY <2>3, <2>4, <2>5 DEF Owners
<1>11. ASSUME NEW th \in Threads, CloseAll(th) PROVE Owners'
  <2>1. /\ pc[th] = "out" /\ closing[th] = {} /\ closing'[th] = ClientsOf(idle)
        /\ \A t \in Threads \ {th} : closing'[t] = closing[t]
        /\ client' = client /\ sock' = sock
        /\ pc' = [pc EXCEPT ![th] = "dropping"] /\ idle' = <<>>
    BY <1>11 DEF CloseAll, TypeOK, Owners, Placed
  <2>2. ClientsOf(idle') = {} /\ \A i \in DOMAIN idle' : FALSE
    BY <2>1, NoClients
  <2>3. Placed'
    BY <2>1 DEF Owners, Placed, TypeOK
  <2>4. OwnedOnce'
    BY <2>1, <2>2 DEF Owners, OwnedOnce
  <2>5. NoSocketLeak'
    <3>1. Known \subseteq Known'
      BY <2>1 DEF Known
    <3>. QED  BY <2>1, <3>1 DEF Owners, NoSocketLeak
  <2>. QED  BY <2>3, <2>4, <2>5 DEF Owners
<1>12. ASSUME Age PROVE Owners'
  <2>1. PICK k \in DOMAIN idle : idle' = [idle EXCEPT ![k].old = TRUE]
    BY <1>12 DEF Age
  <2>2. idle \in Seq(Entries) /\ Distinct(idle)
    BY DEF TypeOK, Owners, OwnedOnce, Distinct
  <2>3. ClientsOf(idle') = ClientsOf(idle) /\ Distinct(idle')
    BY <2>1, <2>2, AgeClients
  <2>4. UNCHANGED <<pc, client, closing, sock>>
    BY <1>12 DEF Age
  <2>5. OwnedOnce' /\ Known' = Known
    BY <2>3, <2>4 DEF Owners, OwnedOnce, Known, Distinct
  <2>. QED  BY <2>4, <2>5 DEF Owners, Placed, NoSocketLeak
<1>13. ASSUME NEW c \in Conns, PeerCloses(c) PROVE Owners'
  <2>1. Placed' /\ \A d \in Conns : sock'[d] # "closed" => sock[d] # "closed"
    BY <1>13 DEF PeerCloses, Owners, Placed, TypeOK
  <2>. QED  BY <1>13, <2>1, OwnersSame DEF PeerCloses
<1>14. CASE UNCHANGED vars
  <2>1. Placed'
    BY <1>14 DEF vars, Owners, Placed
  <2>. QED  BY <1>14, <2>1, OwnersSame DEF vars
<1>. QED  BY <1>1, <1>2, <1>3, <1>4, <1>5, <1>6, <1>7, <1>8, <1>9, <1>10,
             <1>11, <1>12, <1>13, <1>14 DEF Next, Step

\* Owners holds in every reachable state.
THEOREM PoolOwners == Spec => [](IInv /\ Owners)
<1>1. IInv /\ Owners /\ [Next]_vars => (IInv /\ Owners)'
  BY NextIInv, NextOwners DEF IInv
<1>. QED  BY <1>1, InitIInv, InitOwners, PTL DEF Spec

\* No client is in two hands, in the pool twice, or used while it is idle or
\* waits to be closed.
THEOREM PoolOwnedOnce == Spec => []OwnedOnce
<1>1. IInv /\ Owners => OwnedOnce
  BY DEF Owners
<1>. QED  BY <1>1, PoolOwners, PTL

\* Every open socket belongs to a client the pool or a thread still knows.
THEOREM PoolNoSocketLeak == Spec => []NoSocketLeak
<1>1. IInv /\ Owners => NoSocketLeak
  BY DEF Owners
<1>. QED  BY <1>1, PoolOwners, PTL

----------------------------------------------------------------------------
(* The refinement                                                          *)

\* The connection a thread uses, as the abstract pool sees it.
InHand(th) == IF pc[th] = "using" THEN client[th] ELSE NoConn

\* A step that lets nobody into or out of a slot and hands nothing out is a
\* stutter of the abstract pool.
LEMMA StutterStep ==
    ASSUME \A t \in Threads : /\ pc'[t] \in {"opening", "using"} <=> pc[t] \in {"opening", "using"}
                              /\ InHand(t)' = InHand(t)
    PROVE  UNCHANGED Abstract!vars
<1>1. Holders' = Holders
  BY DEF Holders
<1>2. [t \in Threads |-> IF pc[t] = "using" THEN client[t] ELSE NoConn]'
        = [t \in Threads |-> IF pc[t] = "using" THEN client[t] ELSE NoConn]
  BY DEF InHand
<1>. QED  BY <1>1, <1>2 DEF Abstract!vars

\* Taking a slot: the test of _inuse is the test of the number of holders.
LEMMA TakeSlotStep ==
    ASSUME IInv, Owners, NEW th \in Threads, pc[th] \in {"out", "woken"}, TakeSlot(th)
    PROVE  Abstract!Next
<1>1. /\ pc' = [pc EXCEPT ![th] = "opening"]
      /\ \A t \in Threads \ {th} : client'[t] = client[t]
  BY PopProperties DEF TakeSlot, IInv
<1>2. th \notin Holders /\ Cardinality(Holders) < MaxConn
  BY DEF Holders, TakeSlot, SlotFree, IInv, SlotsAccounted
<1>3. Holders' = Holders \cup {th}
  BY <1>1 DEF Holders, IInv, TypeOK
<1>4. \A t \in Threads : InHand(t)' = InHand(t)
  BY <1>1 DEF InHand, IInv, TypeOK
<1>5. [t \in Threads |-> IF pc[t] = "using" THEN client[t] ELSE NoConn]'
        = [t \in Threads |-> IF pc[t] = "using" THEN client[t] ELSE NoConn]
  BY <1>4 DEF InHand
<1>6. Abstract!Cardinality(Holders) = Cardinality(Holders)
  BY Zenon DEF Abstract!Cardinality, Cardinality
<1>7. Abstract!TakeSlot(th)
  BY <1>2, <1>3, <1>5, <1>6 DEF Abstract!TakeSlot
<1>. QED  BY <1>7 DEF Abstract!Next

\* A thread gets the connection it will use, which no other thread uses.
LEMMA GrantStep ==
    ASSUME IInv, NEW th \in Threads, NEW c \in Conns,
           pc[th] = "opening", pc' = [pc EXCEPT ![th] = "using"],
           client'[th] = c, \A t \in Threads \ {th} : client'[t] = client[t] /\ client[t] # c
    PROVE  Abstract!Next
<1>1. th \in Holders /\ Holders' = Holders
  BY DEF Holders, IInv, TypeOK
<1>2. /\ InHand(th) = NoConn /\ InHand(th)' = c
      /\ \A t \in Threads \ {th} : InHand(t)' = InHand(t)
      /\ \A t \in Threads : InHand(t) # c
  BY NoConnAssumption DEF InHand, IInv, TypeOK
<1>. DEFINE hands == [t \in Threads |-> IF pc[t] = "using" THEN client[t] ELSE NoConn]
<1>3. hands = [t \in Threads |-> InHand(t)] /\ hands' = [t \in Threads |-> InHand(t)']
  BY DEF InHand
<1>. HIDE DEF hands
<1>4. hands' = [hands EXCEPT ![th] = c]
  BY <1>2, <1>3
<1>5. hands[th] = NoConn /\ \A t \in Threads : hands[t] # c
  BY <1>2, <1>3
<1>6. Abstract!Grant(th, c)
  BY <1>1, <1>4, <1>5 DEF Abstract!Grant, hands
<1>. QED  BY <1>6 DEF Abstract!Next

\* A thread leaves its slot, with or without a connection in its hands.
LEMMA GiveBackStep ==
    ASSUME IInv, NEW th \in Threads, pc[th] \in {"opening", "using"},
           NEW where \in {"out", "dropping"}, Goes(th, where),
           \A t \in Threads \ {th} : client'[t] = client[t]
    PROVE  Abstract!Next
<1>1. th \in Holders /\ Holders' = Holders \ {th}
  BY DEF Holders, Goes, IInv, TypeOK
<1>2. InHand(th)' = NoConn /\ \A t \in Threads \ {th} : InHand(t)' = InHand(t)
  BY DEF InHand, Goes, IInv, TypeOK
<1>. DEFINE hands == [t \in Threads |-> IF pc[t] = "using" THEN client[t] ELSE NoConn]
<1>3. hands = [t \in Threads |-> InHand(t)] /\ hands' = [t \in Threads |-> InHand(t)']
  BY DEF InHand
<1>. HIDE DEF hands
<1>4. hands' = [hands EXCEPT ![th] = NoConn]
  BY <1>2, <1>3
<1>5. Abstract!GiveBack(th)
  BY <1>1, <1>4 DEF Abstract!GiveBack, hands
<1>. QED  BY <1>5 DEF Abstract!Next

\* Every step of the pool is a step of the abstract pool, or a stutter.
LEMMA NextImplements ==
    ASSUME IInv, Owners, [Next]_vars
    PROVE  [Abstract!Next]_Abstract!vars
<1>. USE DEF IInv, TypeOK
<1>1. ASSUME NEW th \in Threads, Enter(th) PROVE [Abstract!Next]_Abstract!vars
  <2>1. CASE TakeSlot(th)
    BY <1>1, <2>1, TakeSlotStep DEF Enter
  <2>2. CASE /\ pc' = [pc EXCEPT ![th] = "waiting"]
             /\ UNCHANGED <<idle, inuse, late, client, closing, sock>>
    BY <1>1, <2>2, StutterStep DEF Enter, InHand
  <2>. QED  BY <1>1, <2>1, <2>2 DEF Enter
<1>2. ASSUME NEW th \in Threads, Recheck(th) PROVE [Abstract!Next]_Abstract!vars
  <2>1. CASE TakeSlot(th)
    BY <1>2, <2>1, TakeSlotStep DEF Recheck
  <2>2. CASE /\ pc' = [pc EXCEPT ![th] = IF th \in late THEN "out" ELSE "waiting"]
             /\ UNCHANGED <<idle, inuse, client, closing, sock>>
    BY <1>2, <2>2, StutterStep DEF Recheck, InHand
  <2>. QED  BY <1>2, <2>1, <2>2 DEF Recheck
<1>3. ASSUME NEW th \in Threads, DeadlinePasses(th) PROVE [Abstract!Next]_Abstract!vars
  BY <1>3, StutterStep DEF DeadlinePasses, InHand
<1>4. ASSUME NEW th \in Threads, CloseOne(th) PROVE [Abstract!Next]_Abstract!vars
  BY <1>4, StutterStep DEF CloseOne, InHand
<1>5. ASSUME NEW th \in Threads, HandOut(th) PROVE [Abstract!Next]_Abstract!vars
  <2>1. /\ pc[th] = "opening" /\ pc' = [pc EXCEPT ![th] = "using"]
        /\ client' = client /\ client[th] \in Conns
    BY <1>5 DEF HandOut
  <2>2. \A t \in Threads \ {th} : client[t] # client[th]
    BY <2>1, NoConnAssumption DEF Owners, OwnedOnce
  <2>. QED  BY <2>1, <2>2, GrantStep
<1>6. ASSUME NEW th \in Threads, Connect(th) PROVE [Abstract!Next]_Abstract!vars
  <2>1. PICK c \in Conns \ Known : client' = [client EXCEPT ![th] = c]
    BY <1>6 DEF Connect
  <2>2. \A t \in Threads : client[t] # c
    BY <2>1 DEF Known
  <2>3. /\ pc[th] = "opening" /\ pc' = [pc EXCEPT ![th] = "using"]
        /\ client'[th] = c /\ \A t \in Threads \ {th} : client'[t] = client[t]
    BY <1>6, <2>1 DEF Connect
  <2>. QED  BY <2>2, <2>3, GrantStep
<1>7. ASSUME NEW th \in Threads, ConnectFails(th) PROVE [Abstract!Next]_Abstract!vars
  BY <1>7, GiveBackStep DEF ConnectFails
<1>8. ASSUME NEW th \in Threads, UseOk(th) PROVE [Abstract!Next]_Abstract!vars
  BY <1>8, GiveBackStep DEF UseOk, ReleaseHealthy
<1>9. ASSUME NEW th \in Threads, UseClosesItself(th) PROVE [Abstract!Next]_Abstract!vars
  BY <1>9, GiveBackStep DEF UseClosesItself, ReleaseHealthy
<1>10. ASSUME NEW th \in Threads, UseRaises(th) PROVE [Abstract!Next]_Abstract!vars
  BY <1>10, GiveBackStep DEF UseRaises, ReleaseUnhealthy
<1>11. ASSUME NEW th \in Threads, CloseAll(th) PROVE [Abstract!Next]_Abstract!vars
  BY <1>11, StutterStep DEF CloseAll, InHand
<1>12. ASSUME Age PROVE [Abstract!Next]_Abstract!vars
  BY <1>12, StutterStep DEF Age, InHand
<1>13. ASSUME NEW c \in Conns, PeerCloses(c) PROVE [Abstract!Next]_Abstract!vars
  BY <1>13, StutterStep DEF PeerCloses, InHand
<1>14. CASE UNCHANGED vars
  BY <1>14, StutterStep DEF vars, InHand
<1>. QED  BY <1>1, <1>2, <1>3, <1>4, <1>5, <1>6, <1>7, <1>8, <1>9, <1>10,
             <1>11, <1>12, <1>13, <1>14 DEF Next, Step

\* The pool and its users implement the abstract pool: at most MaxConn slots,
\* each connection in at most one pair of hands.
THEOREM PoolImplementsBoundedPool == Spec => ImplementsBoundedPool
<1>1. Init => Abstract!Init
  <2>. SUFFICES ASSUME Init PROVE Abstract!Init
    OBVIOUS
  <2>1. Holders = {}
    BY DEF Init, Holders
  <2>. QED  BY <2>1 DEF Init, Abstract!Init
<1>2. IInv /\ Owners /\ [Next]_vars => [Abstract!Next]_Abstract!vars
  BY NextImplements
<1>. QED  BY <1>1, <1>2, PoolOwners, PTL DEF Spec, ImplementsBoundedPool, Abstract!Spec

============================================================================
