--------------------------- MODULE TargetRegistry ---------------------------
(***************************************************************************)
(* The target registry (registry.py) and the tools that use it: add_target *)
(* and remove_target, and socket_listen, which keeps a row's listener flag *)
(* (server.py).  Rows are keyed by host and port, locks by host alone.     *)
(*                                                                         *)
(* Every Registry method is one SQL statement under the registry's mutex,  *)
(* and one step.  remove_target makes three such steps and holds nothing   *)
(* from one to the next; socket_listen holds the host's SYSTEM lock from   *)
(* its request to the flag.                                                *)
(***************************************************************************)
EXTENDS TargetLocks

CONSTANTS
    Ports,
    Workers,    \* threads that run remove_target or a run_one of socket_listen
    NoJob,      \* the job of an idle worker
    SYSTEM,     \* the lock class of socket_listen
    Modern,     \* targets of version 1.7.1 or later, which can stop listening
    Scenarios   \* sets of faults, one of which applies to each behaviour

(***************************************************************************)
(* restart   a target restarts and its listener is gone                    *)
(* timeout   an answer of socket_listen, or of its version probe, is lost  *)
(* bridge    the bridge restarts                                           *)
(* stray     a target is registered while it listens                       *)
(***************************************************************************)
FaultKinds == {"restart", "timeout", "bridge", "stray"}
Keys == Targets \X Ports

ASSUME ScenariosAssumption == Scenarios \subseteq SUBSET FaultKinds
ASSUME SystemAssumption == SYSTEM \in ExclusiveClasses

VARIABLES
    faults,      \* the faults of this behaviour
    registered,  \* the keys that have a row
    flagged,     \* the rows with listen_liveness = 1
    listening,   \* the targets that run a listener
    pc, job,     \* where each worker is, and what it works on
    watched      \* removes whose target has been listening since they began

vars == <<locks, faults, registered, flagged, listening, pc, job, watched>>

Jobs == [op : {"remove", "start", "stop"}, key : Keys]
PCs == {"idle", "locks", "flag", "delete", "lock", "sent", "served", "unlock"}

Key(w) == job[w].key
Host(w) == Key(w)[1]
Goes(w, where) == pc' = [pc EXCEPT ![w] = where]

Init ==
    /\ LocksInit
    /\ faults \in Scenarios
    /\ registered = {} /\ flagged = {} /\ listening = {}
    /\ pc = [w \in Workers |-> "idle"]
    /\ job = [w \in Workers |-> NoJob]
    /\ watched = {}

----------------------------------------------------------------------------
(* add_target, remove_target                                               *)

\* INSERT OR IGNORE: a row that is there stays as it is, a new one has no flag.
Add(k) ==
    /\ "stray" \in faults \/ k \notin listening
    /\ registered' = registered \cup {k}
    /\ UNCHANGED <<locks, faults, flagged, listening, pc, job, watched>>

Begin(w, j) ==
    /\ pc[w] = "idle"
    /\ job' = [job EXCEPT ![w] = j]
    /\ Goes(w, IF j.op = "remove" THEN "locks" ELSE "lock")
    /\ watched' = IF j.op = "remove" /\ j.key \in listening
                  THEN watched \cup {w} ELSE watched
    /\ UNCHANGED <<locks, faults, registered, flagged, listening>>

Return(w) ==
    /\ Goes(w, "idle")
    /\ job' = [job EXCEPT ![w] = NoJob]
    /\ watched' = watched \ {w}

HasActive(t) == locks[t].captures # {} \/ locks[t].holder # NoHolder

\* The two tests of remove_target.  (Faulty variant: the other way round.)
PassesSwapped(w) ==
    \/ pc[w] = "flag" /\ ~HasActive(Host(w))
    \/ pc[w] = "locks" /\ Key(w) \notin flagged

Passes(w) ==
    \/ pc[w] = "locks" /\ ~HasActive(Host(w))
    \/ pc[w] = "flag" /\ Key(w) \notin flagged

Pass(w) ==
    /\ pc[w] \in {"locks", "flag"} /\ Passes(w)
    /\ Goes(w, IF pc[w] = "locks" THEN "flag" ELSE "delete")
    /\ UNCHANGED <<locks, faults, registered, flagged, listening, job, watched>>

Refuse(w) ==
    /\ pc[w] \in {"locks", "flag"} /\ ~Passes(w)
    /\ Return(w)
    /\ UNCHANGED <<locks, faults, registered, flagged, listening>>

Delete(w) ==
    /\ pc[w] = "delete"
    /\ registered' = registered \ {Key(w)}
    /\ flagged' = flagged \ {Key(w)}
    /\ Return(w)
    /\ UNCHANGED <<locks, faults, listening>>

----------------------------------------------------------------------------
(* socket_listen start and stop                                            *)

\* lock_mgr.acquire.  (Faulty variant: the lock is not taken.)
LockNone(w) ==
    /\ pc[w] = "lock"
    /\ Goes(w, "sent")
    /\ UNCHANGED <<locks, faults, registered, flagged, listening, job, watched>>

Lock(w) ==
    /\ pc[w] = "lock"
    /\ AcquireExclusive(Host(w), SYSTEM)
    /\ Goes(w, "sent")
    /\ UNCHANGED <<faults, registered, flagged, listening, job, watched>>

Conflict(w) ==
    /\ pc[w] = "lock" /\ ~ExclusiveFree(Host(w))
    /\ Return(w)
    /\ UNCHANGED <<locks, faults, registered, flagged, listening>>

\* k listens no more: a remove of k under way did not see it listen all along.
Silenced(k) ==
    /\ listening' = listening \ {k}
    /\ watched' = {w \in watched : Key(w) # k}

\* The target starts its listener (or keeps the one it has) or stops it.
Serve(w) ==
    /\ pc[w] = "sent"
    /\ \/ job[w].op = "start" /\ listening' = listening \cup {Key(w)} /\ UNCHANGED watched
       \/ job[w].op = "stop" /\ Key(w) \in Modern /\ Silenced(Key(w))
    /\ Goes(w, "served")
    /\ UNCHANGED <<locks, faults, registered, flagged, job>>

\* No connection, an old target, an error, or no answer: fn raises.
Fails(w) ==
    /\ pc[w] = "sent" \/ (pc[w] = "served" /\ "timeout" \in faults)
    /\ Goes(w, "unlock")
    /\ UNCHANGED <<locks, faults, registered, flagged, listening, job, watched>>

\* set_listen_liveness, an UPDATE: it changes a row that is there.
\* (Faulty variant: a row that is not there comes into being.)
WriteFlagAnyway(w) ==
    /\ pc[w] = "served"
    /\ flagged' = IF job[w].op = "stop" THEN flagged \ {Key(w)} ELSE flagged \cup {Key(w)}
    /\ Goes(w, "unlock")
    /\ UNCHANGED <<locks, faults, registered, listening, job, watched>>

WriteFlag(w) ==
    /\ pc[w] = "served"
    /\ flagged' = IF job[w].op = "stop" THEN flagged \ {Key(w)}
                  ELSE flagged \cup ({Key(w)} \cap registered \cap Modern)
    /\ Goes(w, "unlock")
    /\ UNCHANGED <<locks, faults, registered, listening, job, watched>>

Unlock(w) ==
    /\ pc[w] = "unlock"
    /\ ReleaseExclusive(Host(w), SYSTEM)
    /\ Return(w)
    /\ UNCHANGED <<faults, registered, flagged, listening>>

----------------------------------------------------------------------------
(* Other tools, the targets and the bridge                                 *)

\* Calls of other classes and capture sessions: BatchRun has their details.
OtherTool(t) ==
    /\ \/ \E c \in ExclusiveClasses \ {SYSTEM} :
            AcquireExclusive(t, c) \/ (locks[t].holder = c /\ ReleaseExclusive(t, c))
       \/ \E p \in Paths :
            AcquireCapture(t, p) \/ (p \in locks[t].captures /\ ReleaseCapture(t, p))
    /\ UNCHANGED <<faults, registered, flagged, listening, pc, job, watched>>

TargetRestarts(k) ==
    /\ "restart" \in faults /\ k \in listening
    /\ Silenced(k)
    /\ UNCHANGED <<locks, faults, registered, flagged, pc, job>>

\* The locks are gone and the rows are not.
BridgeRestarts ==
    /\ "bridge" \in faults
    /\ locks' = [t \in Targets |-> Unlocked]
    /\ pc' = [w \in Workers |-> "idle"]
    /\ job' = [w \in Workers |-> NoJob]
    /\ watched' = {}
    /\ UNCHANGED <<faults, registered, flagged, listening>>

Next ==
    \/ \E k \in Keys : Add(k) \/ TargetRestarts(k)
    \/ \E w \in Workers :
         \/ \E j \in Jobs : Begin(w, j)
         \/ Pass(w) \/ Refuse(w) \/ Delete(w)
         \/ Lock(w) \/ Conflict(w) \/ Serve(w) \/ Fails(w) \/ WriteFlag(w) \/ Unlock(w)
    \/ \E t \in Targets : OtherTool(t)
    \/ BridgeRestarts

Spec == Init /\ [][Next]_vars

----------------------------------------------------------------------------
(* Properties                                                              *)

\* Every variable has its type, and only rows have a flag.
TypeOK ==
    /\ locks \in [Targets -> TargetLock]
    /\ faults \in Scenarios
    /\ registered \subseteq Keys
    /\ flagged \subseteq registered
    /\ listening \subseteq Keys
    /\ pc \in [Workers -> PCs]
    /\ job \in [Workers -> Jobs \cup {NoJob}]
    /\ watched \subseteq Workers

\* Worker w has had the target's answer and not yet written the flag of k.
Answered(w, op, k) == pc[w] = "served" /\ job[w].op = op /\ Key(w) = k

\* A registered target that listens has its flag, or a start is about to write
\* it: starts and stops of one target leave the flag in the order in which the
\* target served them.  Needs answers, and targets registered before they
\* listen ("登记活跃度" while it listens, README.md:288).
ListenerFlagged ==
    faults \cap {"timeout", "bridge", "stray"} = {} =>
        \A k \in registered \cap listening \cap Modern :
            k \in flagged \/ \E w \in Workers : Answered(w, "start", k)

\* A flag belongs to a target that listens, or a stop is about to clear it:
\* nothing is left that nobody could remove.  Needs targets that do not restart.
FlaggedListens ==
    faults \cap {"timeout", "bridge", "restart"} = {} =>
        \A k \in flagged : k \in listening \/ \E w \in Workers : Answered(w, "stop", k)

\* remove_target refuses a target with an active listener (server.py:291): it
\* deletes no row whose target has been listening since the call began, however
\* its three steps mix with starts and stops.
RemoveSparesListener ==
    faults \cap {"timeout", "bridge", "stray"} = {} =>
        \A w \in watched :
            pc[w] = "delete" /\ Key(w) \in Modern => Key(w) \notin registered

============================================================================
