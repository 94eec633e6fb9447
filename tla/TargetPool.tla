----------------------------- MODULE TargetPool -----------------------------
(***************************************************************************)
(* The connection pool of one target (pool.py, TargetPool) and the threads *)
(* that use it the way Scheduler._run_one, Scheduler.session, _run_batch   *)
(* and capture_stop do: acquire, work on the connection, release it as     *)
(* healthy or not.                                                         *)
(*                                                                         *)
(* The pool's state changes only under its Condition, so each such section *)
(* is one action.  Connecting and closing happen outside the lock and are  *)
(* actions of their own.  Time is reduced to whether an idle entry is      *)
(* older than IDLE_TIMEOUT and whether a waiter's deadline has passed.     *)
(***************************************************************************)
EXTENDS Integers, Sequences, FiniteSets

CONSTANTS
    Threads,   \* threads that use the pool
    Conns,     \* identities of SocketServerClient objects
    NoConn,    \* no client
    MaxConn,   \* MAX_CONN_PER_TARGET
    Uses       \* how a use may end; see below

(***************************************************************************)
(* ok         the tool's function returns and leaves the socket open       *)
(* raise      it raises (a timeout, a protocol error, a dead connection)   *)
(* selfClose  it closes the client and returns, as upgrade_run does        *)
(***************************************************************************)
UseKinds == {"ok", "raise", "selfClose"}

ASSUME MaxConnAssumption == MaxConn \in Nat \ {0}
ASSUME ThreadsAssumption == IsFiniteSet(Threads)
ASSUME NoConnAssumption == NoConn \notin Conns
ASSUME UsesAssumption == Uses \subseteq UseKinds

VARIABLES
    idle,     \* _idle: entries [client, old], the one used last at the end
    inuse,    \* _inuse
    pc,       \* where each thread is
    late,     \* the threads whose acquire deadline has passed
    client,   \* client[th]: the connection in thread th's hands
    closing,  \* closing[th]: clients th has to close outside the lock
    sock      \* sock[c]: client c's socket

vars == <<idle, inuse, pc, late, client, closing, sock>>

PCs == {"out", "waiting", "woken", "opening", "using", "dropping"}
Sockets == {"closed", "open", "dead"}   \* dead: open here, gone at the target
Entries == [client : Conns, old : BOOLEAN]

ClientsOf(entries) == {entries[i].client : i \in DOMAIN entries}

\* The clients some thread or the pool still refers to; a new client is none
\* of them.
Known == ClientsOf(idle) \cup {client[th] : th \in Threads} \cup UNION {closing[th] : th \in Threads}

Init ==
    /\ idle = <<>>
    /\ inuse = 0
    /\ pc = [th \in Threads |-> "out"]
    /\ late = {}
    /\ client = [th \in Threads |-> NoConn]
    /\ closing = [th \in Threads |-> {}]
    /\ sock = [c \in Conns |-> "closed"]

----------------------------------------------------------------------------
(* acquire                                                                 *)

\* The inner loop of acquire: pop entries from the end, put the old ones
\* aside to be closed, stop at the first that is not old.
\* (Faulty variant: the reused entry stays in the list.)
PopPeeking(th) ==
    \/ \E k \in DOMAIN idle :
         /\ ~idle[k].old
         /\ \A i \in DOMAIN idle : i > k => idle[i].old
         /\ client' = [client EXCEPT ![th] = idle[k].client]
         /\ closing' = [closing EXCEPT ![th] = ClientsOf(SubSeq(idle, k + 1, Len(idle)))]
         /\ idle' = SubSeq(idle, 1, k)
    \/ /\ \A i \in DOMAIN idle : idle[i].old
       /\ client' = client
       /\ closing' = [closing EXCEPT ![th] = ClientsOf(idle)]
       /\ idle' = <<>>

Pop(th) ==
    \/ \E k \in DOMAIN idle :
         /\ ~idle[k].old
         /\ \A i \in DOMAIN idle : i > k => idle[i].old
         /\ client' = [client EXCEPT ![th] = idle[k].client]
         /\ closing' = [closing EXCEPT ![th] = ClientsOf(SubSeq(idle, k + 1, Len(idle)))]
         /\ idle' = SubSeq(idle, 1, k - 1)
    \/ /\ \A i \in DOMAIN idle : idle[i].old
       /\ client' = client
       /\ closing' = [closing EXCEPT ![th] = ClientsOf(idle)]
       /\ idle' = <<>>

\* The test the while loop waits for.  (Faulty variant: off by one.)
SlotFreeOneMore == inuse <= MaxConn
SlotFree == inuse < MaxConn

\* The slot is taken together with the connection, under the lock.
TakeSlot(th) ==
    /\ SlotFree
    /\ Pop(th)
    /\ inuse' = inuse + 1
    /\ late' = late \ {th}
    /\ pc' = [pc EXCEPT ![th] = "opening"]
    /\ UNCHANGED sock

Enter(th) ==
    /\ pc[th] = "out"
    /\ \/ TakeSlot(th)
       \/ /\ ~SlotFree
          /\ pc' = [pc EXCEPT ![th] = "waiting"]
          /\ UNCHANGED <<idle, inuse, late, client, closing, sock>>

\* A waiter that was woken has the lock again and runs the while loop's test:
\* a slot first, then its deadline, then it waits once more.
\* (Faulty variant: the deadline is not tested.)
RecheckForever(th) ==
    /\ pc[th] = "woken"
    /\ \/ TakeSlot(th)
       \/ /\ ~SlotFree
          /\ late' = late \ {th}
          /\ pc' = [pc EXCEPT ![th] = "waiting"]
          /\ UNCHANGED <<idle, inuse, client, closing, sock>>

Recheck(th) ==
    /\ pc[th] = "woken"
    /\ \/ TakeSlot(th)
       \/ /\ ~SlotFree
          /\ late' = late \ {th}
          /\ pc' = [pc EXCEPT ![th] = IF th \in late THEN "out" ELSE "waiting"]
          /\ UNCHANGED <<idle, inuse, client, closing, sock>>

\* The deadline passes; a thread still in cond.wait(remaining) returns from it.
DeadlinePasses(th) ==
    /\ pc[th] \in {"waiting", "woken"}
    /\ th \notin late
    /\ late' = late \cup {th}
    /\ pc' = [pc EXCEPT ![th] = "woken"]
    /\ UNCHANGED <<idle, inuse, client, closing, sock>>

\* client.close(): of an expired connection, after an unhealthy release, and
\* in the loop of close_all.
CloseOne(th) ==
    /\ \E c \in closing[th] :
         /\ sock' = [sock EXCEPT ![c] = "closed"]
         /\ closing' = [closing EXCEPT ![th] = @ \ {c}]
         /\ pc' = IF pc[th] = "dropping" /\ closing[th] = {c}
                  THEN [pc EXCEPT ![th] = "out"] ELSE pc
    /\ UNCHANGED <<idle, inuse, late, client>>

\* acquire returns a connection it found in the pool, as it is.
HandOut(th) ==
    /\ pc[th] = "opening" /\ closing[th] = {} /\ client[th] # NoConn
    /\ pc' = [pc EXCEPT ![th] = "using"]
    /\ UNCHANGED <<idle, inuse, late, client, closing, sock>>

Connect(th) ==
    /\ pc[th] = "opening" /\ closing[th] = {} /\ client[th] = NoConn
    /\ \E c \in Conns \ Known :
         /\ client' = [client EXCEPT ![th] = c]
         /\ sock' = [sock EXCEPT ![c] = "open"]
    /\ pc' = [pc EXCEPT ![th] = "using"]
    /\ UNCHANGED <<idle, inuse, late, closing>>

\* max(0, self._inuse - 1) and notify_all, in one section.  (Faulty variant:
\* an error path that gives the slot back twice, without the max.)
SlotBackTwice == inuse' = inuse - 2
SlotBack == inuse' = IF inuse > 0 THEN inuse - 1 ELSE 0
Goes(th, where) ==
    pc' = [t \in Threads |-> IF t = th THEN where
                             ELSE IF pc[t] = "waiting" THEN "woken" ELSE pc[t]]

\* connect raises: the slot goes back and the waiters are told.  (Faulty
\* variants: the slot is lost; the waiters are not told.)
ConnectFailsLeaking(th) ==
    /\ pc[th] = "opening" /\ closing[th] = {} /\ client[th] = NoConn
    /\ pc' = [pc EXCEPT ![th] = "out"]
    /\ UNCHANGED <<idle, inuse, late, client, closing, sock>>

ConnectFailsSilently(th) ==
    /\ pc[th] = "opening" /\ closing[th] = {} /\ client[th] = NoConn
    /\ SlotBack
    /\ pc' = [pc EXCEPT ![th] = "out"]
    /\ UNCHANGED <<idle, late, client, closing, sock>>

ConnectFails(th) ==
    /\ pc[th] = "opening" /\ closing[th] = {} /\ client[th] = NoConn
    /\ SlotBack
    /\ Goes(th, "out")
    /\ UNCHANGED <<idle, late, client, closing, sock>>

----------------------------------------------------------------------------
(* use, release and close_all                                              *)

\* release(client, healthy=True): back to the end of the pool.
ReleaseHealthy(th) ==
    /\ SlotBack
    /\ idle' = Append(idle, [client |-> client[th], old |-> FALSE])
    /\ client' = [client EXCEPT ![th] = NoConn]
    /\ Goes(th, "out")
    /\ UNCHANGED <<late, closing>>

\* release(client, healthy=False): the close comes after the section.
\* (Faulty variant: the close is forgotten.)
ReleaseUnclosed(th) ==
    /\ SlotBack
    /\ client' = [client EXCEPT ![th] = NoConn]
    /\ Goes(th, "out")
    /\ UNCHANGED <<idle, late, closing, sock>>

ReleaseUnhealthy(th) ==
    /\ SlotBack
    /\ closing' = [closing EXCEPT ![th] = {client[th]}]
    /\ client' = [client EXCEPT ![th] = NoConn]
    /\ Goes(th, "dropping")
    /\ UNCHANGED <<idle, late, sock>>

\* A round trip needs an open socket; without one the function raises.
UseOk(th) ==
    /\ "ok" \in Uses /\ pc[th] = "using"
    /\ sock[client[th]] = "open"
    /\ ReleaseHealthy(th)
    /\ UNCHANGED sock

UseRaises(th) ==
    /\ "raise" \in Uses /\ pc[th] = "using"
    /\ ReleaseUnhealthy(th)

\* upgrade_run: the answer is read, the client closed, the release healthy.
UseClosesItself(th) ==
    /\ "selfClose" \in Uses /\ pc[th] = "using"
    /\ sock[client[th]] = "open"
    /\ ReleaseHealthy(th)
    /\ sock' = [sock EXCEPT ![client[th]] = "closed"]

\* close_all empties the pool under the lock and closes outside it.
CloseAll(th) ==
    /\ pc[th] = "out" /\ idle # <<>>
    /\ closing' = [closing EXCEPT ![th] = ClientsOf(idle)]
    /\ idle' = <<>>
    /\ pc' = [pc EXCEPT ![th] = "dropping"]
    /\ UNCHANGED <<inuse, late, client, sock>>

Step(th) ==
    \/ Recheck(th) \/ CloseOne(th)
    \/ HandOut(th) \/ Connect(th) \/ ConnectFails(th)
    \/ UseOk(th) \/ UseRaises(th) \/ UseClosesItself(th)

----------------------------------------------------------------------------
(* The clock and the target                                                *)

\* IDLE_TIMEOUT passes for the entry released longest ago that is not old yet.
Age ==
    /\ \E k \in DOMAIN idle :
         /\ ~idle[k].old
         /\ \A i \in DOMAIN idle : i < k => idle[i].old
         /\ idle' = [idle EXCEPT ![k].old = TRUE]
    /\ UNCHANGED <<inuse, pc, late, client, closing, sock>>

\* The target ends a connection: it restarts, or closes it.
PeerCloses(c) ==
    /\ sock[c] = "open"
    /\ sock' = [sock EXCEPT ![c] = "dead"]
    /\ UNCHANGED <<idle, inuse, pc, late, client, closing>>

----------------------------------------------------------------------------

Next ==
    \/ \E th \in Threads : Enter(th) \/ CloseAll(th) \/ DeadlinePasses(th) \/ Step(th)
    \/ Age
    \/ \E c \in Conns : PeerCloses(c)

Spec == Init /\ [][Next]_vars

(***************************************************************************)
(* Threads run, and time passes: connect, send and recv end within the     *)
(* socket timeout, a wait within BORROW_TIMEOUT.  The deadline needs its   *)
(* own condition: a thread that just gave its slot back may take the next  *)
(* one before the waiter it woke has the lock, as often as it likes.       *)
(***************************************************************************)
FairSpec ==
    Spec /\ \A th \in Threads : WF_vars(Step(th)) /\ WF_vars(DeadlinePasses(th))

----------------------------------------------------------------------------
(* Properties                                                              *)

\* Every variable has its type.
TypeOK ==
    /\ idle \in Seq(Entries)
    /\ inuse \in Nat
    /\ pc \in [Threads -> PCs]
    /\ late \subseteq Threads
    /\ client \in [Threads -> Conns \cup {NoConn}]
    /\ closing \in [Threads -> SUBSET Conns]
    /\ sock \in [Conns -> Sockets]

\* The threads for which acquire has counted a slot.
Holders == {th \in Threads : pc[th] \in {"opening", "using"}}

\* _inuse counts exactly the threads that hold a slot: no error path, a failed
\* connect above all, leaks a slot or gives one back twice.
SlotsAccounted == inuse = Cardinality(Holders)

\* A tool works on a connection it was given: the client it uses, and later
\* releases, is never None.
UserHasClient == \A th \in Threads : pc[th] = "using" => client[th] # NoConn

\* A client is in one place: no two threads share one, none is used while it
\* lies in the pool or waits to be closed, none is in the pool twice.
OwnedOnce ==
    /\ \A t, u \in Threads : client[t] # NoConn /\ client[t] = client[u] => t = u
    /\ \A i, j \in DOMAIN idle : idle[i].client = idle[j].client => i = j
    /\ \A t \in Threads : client[t] \notin ClientsOf(idle)
    /\ \A t, u \in Threads :
         /\ client[t] \notin closing[u]
         /\ t # u => closing[t] \cap closing[u] = {}
    /\ \A t \in Threads : closing[t] \cap ClientsOf(idle) = {}

\* Idle and lent connections together never exceed MAX_CONN_PER_TARGET, though
\* acquire tests _inuse alone.
ConnBudget == Len(idle) + inuse <= MaxConn

\* A thread sleeps on the condition only while every slot is taken: whoever
\* frees one, by whichever path, has notified it.
NoLostWakeup == \A th \in Threads : pc[th] = "waiting" => inuse >= MaxConn

\* An open socket belongs to a client the pool or a thread still knows: none
\* is forgotten open.
NoSocketLeak == \A c \in Conns : sock[c] # "closed" => c \in Known

\* Threads that hold slots and the connections they were given implement the
\* abstract pool.
Abstract ==
    INSTANCE BoundedPool WITH
        slots <- Holders,
        using <- [th \in Threads |-> IF pc[th] = "using" THEN client[th] ELSE NoConn]

ImplementsBoundedPool == Abstract!Spec

\* Every acquire returns or raises.
AcquireReturns ==
    \A th \in Threads :
        pc[th] \in {"waiting", "woken", "opening"} ~> pc[th] \in {"using", "out"}

\* acquire lends a working connection: not a client that was closed ("the pool
\* reconnects by itself on the next acquire", server.py:730), nor one whose
\* target has gone ("broken when lent: discard and rebuild", design 7).
LendsOpen ==
    [][\A th \in Threads :
         pc[th] = "opening" /\ pc'[th] = "using" => sock'[client'[th]] = "open"]_vars

============================================================================
