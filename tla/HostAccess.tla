----------------------------- MODULE HostAccess -----------------------------
(***************************************************************************)
(* What the bridge promises a tool call, without schedulers, executors,    *)
(* queues, pools and locks: the call does one piece of work for each host  *)
(* it names; a host serves at most MaxConn pieces at a time, and at most   *)
(* one of the exclusive tools has claimed it, and none while a path is     *)
(* captured there; a path is captured once, from the claim of a capture    *)
(* that does not fail until a stop; each piece is decided once, fails only *)
(* for a reason, and the call answers when all are decided.                *)
(* ToolCall implements it.                                                 *)
(***************************************************************************)
EXTENDS Naturals, FiniteSets

CONSTANTS Calls, Targets, Paths, Tools, ExclusiveClasses, CAPTURE, STOP,
          None, MaxConn, MaxHosts,
          HostLists   \* what a call may name: sequences of at most MaxHosts hosts

VARIABLES
    bounded,  \* whether MaxConn holds for all calls together
    failing,  \* whether hosts may fail
    request,  \* request[c]: the tool, the path and the hosts of call c
    work,     \* work[k]: "open", "connected", "done" or "failed"
    claimed,  \* the pieces of work that have their host, or their path, for themselves
    captured  \* captured[t]: the paths that are captured at host t

vars == <<bounded, failing, request, work, claimed, captured>>

Tasks == Calls \X (1 .. MaxHosts)
Asked(k) == request[k[1]] # None /\ k[2] \in DOMAIN request[k[1]].hosts
Host(k) == request[k[1]].hosts[k[2]]
Path(k) == request[k[1]].path
Exclusive(k) == request[k[1]].tool \in ExclusiveClasses
Captures(k) == request[k[1]].tool = CAPTURE
Stops(k) == request[k[1]].tool = STOP
Connected(t) == {k \in Tasks : work[k] = "connected" /\ Host(k) = t}
Claimed(t) == {k \in claimed : Exclusive(k) /\ Host(k) = t}
Decided(k) == work[k] \in {"done", "failed"}
Goes(k, where) == work' = [work EXCEPT ![k] = where]

Init ==
    /\ bounded \in BOOLEAN
    /\ failing \in BOOLEAN
    /\ request = [c \in Calls |-> None]
    /\ work = [k \in Tasks |-> "open"]
    /\ claimed = {}
    /\ captured = [t \in Targets |-> {}]

Ask(c, tool, path, hosts) ==
    /\ request[c] = None
    /\ request' = [request EXCEPT ![c] = [tool |-> tool, path |-> path, hosts |-> hosts]]
    /\ UNCHANGED <<bounded, failing, work, claimed, captured>>

Captured(k) == captured[Host(k)]
CapturedBecomes(k, paths) == captured' = [captured EXCEPT ![Host(k)] = paths]

Claim(k) ==
    /\ Asked(k) /\ work[k] = "open"
    /\ Claimed(Host(k)) = {}
    /\ \/ Exclusive(k) /\ Captured(k) = {} /\ UNCHANGED captured
       \/ /\ Captures(k) /\ Path(k) \notin Captured(k)
          /\ CapturedBecomes(k, Captured(k) \cup {Path(k)})
    /\ claimed' = claimed \cup {k}
    /\ UNCHANGED <<bounded, failing, request, work>>

Connect(k) ==
    /\ Asked(k) /\ work[k] = "open"
    /\ Exclusive(k) \/ Captures(k) => k \in claimed
    /\ bounded => Cardinality(Connected(Host(k))) < MaxConn
    /\ Goes(k, "connected")
    /\ UNCHANGED <<bounded, failing, request, claimed, captured>>

Decide(k) ==
    /\ work[k] = "connected"
    /\ Goes(k, "done") \/ (failing /\ Goes(k, "failed"))
    /\ UNCHANGED <<bounded, failing, request, claimed, captured>>

\* The host fails, or is busy with others.
Refuse(k) ==
    /\ Asked(k) /\ work[k] = "open"
    /\ \/ failing
       \/ (Exclusive(k) \/ Captures(k)) /\ Claimed(Host(k)) \ {k} # {}
       \/ Exclusive(k) /\ Captured(k) # {}
       \/ Captures(k) /\ Path(k) \in Captured(k)
       \/ Cardinality(Connected(Host(k))) >= MaxConn
    /\ Goes(k, "failed")
    /\ UNCHANGED <<bounded, failing, request, claimed, captured>>

Unclaim(k) ==
    /\ k \in claimed /\ Decided(k)
    /\ claimed' = claimed \ {k}
    /\ IF Captures(k) /\ work[k] = "failed"
       THEN CapturedBecomes(k, Captured(k) \ {Path(k)})
       ELSE UNCHANGED captured
    /\ UNCHANGED <<bounded, failing, request, work>>

Stop(k) ==
    /\ Asked(k) /\ Stops(k) /\ Decided(k)
    /\ CapturedBecomes(k, Captured(k) \ {Path(k)})
    /\ UNCHANGED <<bounded, failing, request, work, claimed>>

Answer(c) ==
    /\ request[c] # None
    /\ \A i \in DOMAIN request[c].hosts :
         Decided(<<c, i>>) /\ <<c, i>> \notin claimed
    /\ request' = [request EXCEPT ![c] = None]
    /\ work' = [k \in Tasks |-> IF k[1] = c THEN "open" ELSE work[k]]
    /\ UNCHANGED <<bounded, failing, claimed, captured>>

Next ==
    \/ \E c \in Calls :
         \/ \E tool \in Tools, path \in Paths, hosts \in HostLists : Ask(c, tool, path, hosts)
         \/ Answer(c)
    \/ \E k \in Tasks :
         Claim(k) \/ Connect(k) \/ Decide(k) \/ Refuse(k) \/ Unclaim(k) \/ Stop(k)

Spec == Init /\ [][Next]_vars

=============================================================================
