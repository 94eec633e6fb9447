---------------------------- MODULE Distribution ----------------------------
(***************************************************************************)
(* What upgrade_run promises, without files, locks and checksums: a call   *)
(* sends its target a release that has been published whole, one call at a *)
(* time, and answers "upgraded" only when it has installed the release     *)
(* there and the target runs it.  A call that fails while it sends does    *)
(* not know whether the target installs the release: it may, later.        *)
(* Upgrade implements it where no downloads of a version overlap.          *)
(***************************************************************************)
CONSTANTS Calls, Targets, Versions, None

VARIABLES
    stage,      \* how far each call is
    request,    \* request[c]: the version and the target c is asked for
    published,  \* the versions whose release is there for every call to send
    installed, running,  \* the version each target has installed and runs
    late        \* requests that failed and may be carried out all the same

programs == <<installed, running>>
vars == <<stage, request, published, programs, late>>

Goes(c, where) == stage' = [stage EXCEPT ![c] = where]

Init ==
    /\ stage = [c \in Calls |-> "idle"]
    /\ request = [c \in Calls |-> None]
    /\ published = {}
    /\ installed \in [Targets -> Versions \cup {None}]
    /\ running = installed
    /\ late = {}

Ask(c, v, t) ==
    /\ stage[c] = "idle"
    /\ Goes(c, "asked")
    /\ request' = [request EXCEPT ![c] = [version |-> v, target |-> t]]
    /\ UNCHANGED <<published, programs, late>>

\* A release is published because a call needs it, and never withdrawn.
Publish(c) ==
    /\ stage[c] = "asked"
    /\ published' = published \cup {request[c].version}
    /\ UNCHANGED <<stage, request, programs, late>>

Send(c) ==
    /\ stage[c] = "asked"
    /\ request[c].version \in published
    /\ \A d \in Calls : stage[d] = "sending" => request[d].target # request[c].target
    /\ Goes(c, "sending")
    /\ UNCHANGED <<request, published, programs, late>>

Install(c) ==
    /\ stage[c] = "sending"
    /\ installed' = [installed EXCEPT ![request[c].target] = request[c].version]
    /\ Goes(c, "installed")
    /\ UNCHANGED <<request, published, running, late>>

Confirm(c) ==
    /\ stage[c] = "installed"
    /\ running[request[c].target] = request[c].version
    /\ Goes(c, "upgraded")
    /\ UNCHANGED <<request, published, programs, late>>

Fail(c) ==
    /\ stage[c] \in {"asked", "sending", "installed"}
    /\ Goes(c, "failed")
    /\ late' \in {late} \cup
               (IF stage[c] = "sending" THEN {late \cup {request[c]}} ELSE {})
    /\ UNCHANGED <<request, published, programs>>

Return(c) ==
    /\ stage[c] \in {"upgraded", "failed"}
    /\ Goes(c, "idle")
    /\ request' = [request EXCEPT ![c] = None]
    /\ UNCHANGED <<published, programs, late>>

Restart(t) ==
    /\ running' = [running EXCEPT ![t] = installed[t]]
    /\ UNCHANGED <<stage, request, published, installed, late>>

\* A target installs what a call had sent it that failed, or never will.
InstallLate(r) ==
    /\ r \in late
    /\ r.version \in published
    /\ installed' \in {installed, [installed EXCEPT ![r.target] = r.version]}
    /\ late' = late \ {r}
    /\ UNCHANGED <<stage, request, published, running>>

\* The bridge forgets its calls; the releases and the targets stay.
Crash ==
    /\ stage' = [c \in Calls |-> "idle"]
    /\ request' = [c \in Calls |-> None]
    /\ \E R \in SUBSET {request[c] : c \in {d \in Calls : stage[d] = "sending"}} :
         late' = late \cup R
    /\ UNCHANGED <<published, programs>>

Next ==
    \/ \E c \in Calls :
         \/ \E v \in Versions, t \in Targets : Ask(c, v, t)
         \/ Publish(c) \/ Send(c) \/ Install(c) \/ Confirm(c) \/ Fail(c) \/ Return(c)
    \/ \E t \in Targets : Restart(t)
    \/ \E r \in late : InstallLate(r)
    \/ Crash

Spec == Init /\ [][Next]_vars

=============================================================================
