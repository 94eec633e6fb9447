------------------------------ MODULE Upgrade ------------------------------
(***************************************************************************)
(* upgrade_run (server.py) and the release files it shares (upgrades.py).  *)
(*                                                                         *)
(*   find or download the release -> lock -> push -> apply -> unlock       *)
(*        -> poll until the target runs it, or give up                     *)
(*                                                                         *)
(* All calls of one version use one file, and one temporary file beside    *)
(* it: paths name inodes, and a file that is renamed while another call    *)
(* still writes it keeps that writer.  A hash is the content it was taken  *)
(* of, and content is the set of the file's blocks that have been written. *)
(* A call is modelled with one target.  What a call asks of its target may *)
(* outlive the call: a push or an apply that it gives up, or that is under *)
(* way when the bridge stops, is carried out later or never.               *)
(***************************************************************************)
EXTENDS Naturals

CONSTANTS
    Calls,      \* calls of upgrade_run
    Targets,
    Versions,
    Inodes,     \* identities of files
    None,       \* no file, caller or job; as a version: none of Versions
    FileSize,   \* blocks of a release
    Scenarios   \* sets of faults, one of which applies to each behaviour

(***************************************************************************)
(* overlap   two calls prepare the release of one version at a time        *)
(* crash     the bridge stops, or a write to its disk fails                *)
(* late      a target carries out what its call has given up               *)
(***************************************************************************)
FaultKinds == {"overlap", "crash", "late"}

ASSUME ScenariosAssumption == Scenarios \subseteq SUBSET FaultKinds
ASSUME FileSizeAssumption == FileSize \in Nat \ {0}
ASSUME NoneAssumption == None \notin Inodes \cup Calls \cup Versions

VARIABLES
    faults,     \* the faults of this behaviour
    pc,         \* where each call is
    job,        \* job[c]: the version and the target of call c
    sha,        \* sha[c]: the checksum c sends to the target
    fd,         \* fd[c]: the file c has open for writing
    wrote,      \* wrote[c]: blocks c has written
    final, tmp, \* the files at <version>/socket_server and beside it, .tmp
    content,    \* content[i]: the blocks of file i
    exec,       \* files with mode 755
    holder,     \* holder[t]: the call that has t's SYSTEM lock
    staged,     \* staged[t][v]: the file pushed to t's staging directory of v
    installed, running,  \* what t will run after a restart, and what it runs
    abandoned   \* requests that targets may carry out though no call waits for them

files == <<final, tmp, content, exec>>
target == <<staged, installed, running>>
vars == <<faults, pc, job, sha, fd, wrote, files, holder, target, abandoned>>

Blocks == 1 .. FileSize
PCs == {"idle", "check", "open", "write", "chmod", "replace", "lock", "push",
        "apply", "unlock", "poll", "upgraded", "failed"}
Programs == [version : Versions \cup {None}, content : SUBSET Blocks]
Requests == [kind : {"push", "apply"}, target : Targets, version : Versions,
             content : SUBSET Blocks]

Version(c) == job[c].version
Target(c) == job[c].target
\* os.path.isfile(binary) and os.access(binary, os.X_OK)
Present(v) == final[v] \in exec
Preparing(c) == pc[c] \in {"check", "open", "write", "chmod", "replace"}
Goes(c, where) == pc' = [pc EXCEPT ![c] = where]

Init ==
    /\ faults \in Scenarios
    /\ pc = [c \in Calls |-> "idle"]
    /\ job = [c \in Calls |-> None]
    /\ sha = [c \in Calls |-> {}]
    /\ fd = [c \in Calls |-> None]
    /\ wrote = [c \in Calls |-> 0]
    /\ final = [v \in Versions |-> None]
    /\ tmp = [v \in Versions |-> None]
    /\ content = [i \in Inodes |-> {}]
    /\ exec = {}
    /\ holder = [t \in Targets |-> None]
    /\ staged = [t \in Targets |-> [v \in Versions |-> {}]]
    /\ installed \in [Targets -> [version : Versions \cup {None}, content : {Blocks}]]
    /\ running = installed
    /\ abandoned = {}

----------------------------------------------------------------------------
(* ensure_release_binary                                                   *)

Begin(c, v, t) ==
    /\ pc[c] = "idle"
    /\ "overlap" \in faults \/ \A d \in Calls : Preparing(d) => Version(d) # v
    /\ job' = [job EXCEPT ![c] = [version |-> v, target |-> t]]
    /\ Goes(c, "check")
    /\ UNCHANGED <<faults, sha, fd, wrote, files, holder, target, abandoned>>

\* The release is there: its checksum is computed from the file itself.
Reuse(c) ==
    /\ pc[c] = "check" /\ Present(Version(c))
    /\ sha' = [sha EXCEPT ![c] = content[final[Version(c)]]]
    /\ Goes(c, "lock")
    /\ UNCHANGED <<faults, job, fd, wrote, files, holder, target, abandoned>>

\* It is not: it is downloaded and compared with the published checksum.
Download(c) ==
    /\ pc[c] = "check" /\ ~Present(Version(c))
    /\ \E where \in {"open", "failed"} : Goes(c, where)
    /\ UNCHANGED <<faults, job, sha, fd, wrote, files, holder, target, abandoned>>

\* open(tmp, "wb") creates the file or truncates the one that is there.
Open(c, i) ==
    /\ pc[c] = "open"
    /\ IF tmp[Version(c)] # None
       THEN i = tmp[Version(c)] /\ UNCHANGED <<tmp, exec>>
       ELSE /\ \A v \in Versions : i \notin {final[v], tmp[v]}
            /\ \A d \in Calls : i # fd[d]
            /\ tmp' = [tmp EXCEPT ![Version(c)] = i]
            /\ exec' = exec \ {i}
    /\ fd' = [fd EXCEPT ![c] = i]
    /\ wrote' = [wrote EXCEPT ![c] = 0]
    /\ content' = [content EXCEPT ![i] = {}]
    /\ Goes(c, "write")
    /\ UNCHANGED <<faults, job, sha, final, holder, target, abandoned>>

\* The blocks are written in order, to the file whatever its name is by now.
\* (Faulty variants: the last one is not; one is written twice.)
LastBlockMissing(c) == wrote[c] + 1 >= FileSize
LastBlockTwice(c) == wrote[c] > FileSize
LastBlock(c) == wrote[c] = FileSize

Write(c) ==
    /\ pc[c] = "write" /\ ~LastBlock(c)
    /\ wrote' = [wrote EXCEPT ![c] = @ + 1]
    /\ content' = [content EXCEPT ![fd[c]] = @ \cup {wrote[c] + 1}]
    /\ UNCHANGED <<faults, pc, job, sha, fd, final, tmp, exec, holder, target, abandoned>>

Close(c) ==
    /\ pc[c] = "write" /\ LastBlock(c)
    /\ fd' = [fd EXCEPT ![c] = None]
    /\ Goes(c, "chmod")
    /\ UNCHANGED <<faults, job, sha, wrote, files, holder, target, abandoned>>

\* (Faulty variant: the exception is swallowed.)
WriteFailsSilently(c) ==
    /\ "crash" \in faults /\ pc[c] = "write"
    /\ fd' = [fd EXCEPT ![c] = None]
    /\ Goes(c, "chmod")
    /\ UNCHANGED <<faults, job, sha, wrote, files, holder, target, abandoned>>

WriteFails(c) ==
    /\ "crash" \in faults /\ pc[c] = "write"
    /\ fd' = [fd EXCEPT ![c] = None]
    /\ Goes(c, "failed")
    /\ UNCHANGED <<faults, job, sha, wrote, files, holder, target, abandoned>>

\* chmod and rename go by the name; another call may have renamed the file.
Chmod(c) ==
    /\ pc[c] = "chmod"
    /\ IF tmp[Version(c)] = None
       THEN Goes(c, "failed") /\ UNCHANGED exec
       ELSE Goes(c, "replace") /\ exec' = exec \cup {tmp[Version(c)]}
    /\ UNCHANGED <<faults, job, sha, fd, wrote, final, tmp, content, holder, target, abandoned>>

Replace(c) ==
    /\ pc[c] = "replace"
    /\ IF tmp[Version(c)] = None
       THEN Goes(c, "failed") /\ UNCHANGED <<final, tmp, sha>>
       ELSE /\ final' = [final EXCEPT ![Version(c)] = tmp[Version(c)]]
            /\ tmp' = [tmp EXCEPT ![Version(c)] = None]
            /\ sha' = [sha EXCEPT ![c] = Blocks]
            /\ Goes(c, "lock")
    /\ UNCHANGED <<faults, job, fd, wrote, content, exec, holder, target, abandoned>>

----------------------------------------------------------------------------
(* run_one and the poll                                                    *)

\* LockConflict fails the call.  (Faulty variant: the lock is not tested.)
LockAnyway(c) ==
    /\ pc[c] = "lock"
    /\ holder' = [holder EXCEPT ![Target(c)] = c]
    /\ Goes(c, "push")
    /\ UNCHANGED <<faults, job, sha, fd, wrote, files, target, abandoned>>

Lock(c) ==
    /\ pc[c] = "lock"
    /\ IF holder[Target(c)] = None
       THEN holder' = [holder EXCEPT ![Target(c)] = c] /\ Goes(c, "push")
       ELSE Goes(c, "failed") /\ UNCHANGED holder
    /\ UNCHANGED <<faults, job, sha, fd, wrote, files, target, abandoned>>

\* push_binary reads the file anew.
Push(c) ==
    /\ pc[c] = "push"
    /\ staged' = [staged EXCEPT ![Target(c)][Version(c)] = content[final[Version(c)]]]
    /\ Goes(c, "apply")
    /\ UNCHANGED <<faults, job, sha, fd, wrote, files, holder, installed, running, abandoned>>

\* The target compares what is staged with the checksum it is given.
Accept(c) ==
    /\ pc[c] = "apply"
    /\ staged[Target(c)][Version(c)] = sha[c]
    /\ installed' = [installed EXCEPT ![Target(c)] =
                        [version |-> Version(c), content |-> sha[c]]]
    /\ Goes(c, "unlock")
    /\ UNCHANGED <<faults, job, sha, fd, wrote, files, holder, staged, running, abandoned>>

Free(c) == holder' = [holder EXCEPT ![Target(c)] = None]

\* What a call that ends now may leave to its target: a push, of the whole file
\* or of a part of it, or an apply with the checksum.
Leaves(c) ==
    {r \in Requests :
       /\ "late" \in faults
       /\ r.kind = pc[c] /\ r.target = Target(c) /\ r.version = Version(c)
       /\ IF r.kind = "push" THEN r.content \subseteq content[final[Version(c)]]
                             ELSE r.content = sha[c]}

\* The target is too old or cannot be reached, the push fails, the target
\* refuses (also on a checksum that differs), or its answer is late or lost.
RunFails(c) ==
    /\ pc[c] \in {"push", "apply", "unlock"}
    /\ Free(c)
    /\ Goes(c, "failed")
    /\ abandoned' \in {abandoned} \cup {abandoned \cup {r} : r \in Leaves(c)}
    /\ UNCHANGED <<faults, job, sha, fd, wrote, files, target>>

Unlock(c) ==
    /\ pc[c] = "unlock"
    /\ Free(c)
    /\ Goes(c, "poll")
    /\ UNCHANGED <<faults, job, sha, fd, wrote, files, target, abandoned>>

\* The poll asks for the version only.
\* (Faulty variant: what counts is what is installed.)
ConfirmInstalled(c) ==
    /\ pc[c] = "poll" /\ installed[Target(c)].version = Version(c)
    /\ Goes(c, "upgraded")
    /\ UNCHANGED <<faults, job, sha, fd, wrote, files, holder, target, abandoned>>

Confirm(c) ==
    /\ pc[c] = "poll" /\ running[Target(c)].version = Version(c)
    /\ Goes(c, "upgraded")
    /\ UNCHANGED <<faults, job, sha, fd, wrote, files, holder, target, abandoned>>

\* 180 seconds are over.  (Faulty variant: no deadline once it is installed.)
GiveUpUnlessInstalled(c) ==
    /\ pc[c] = "poll" /\ installed[Target(c)].version # Version(c)
    /\ Goes(c, "failed")
    /\ UNCHANGED <<faults, job, sha, fd, wrote, files, holder, target, abandoned>>

GiveUp(c) ==
    /\ pc[c] = "poll"
    /\ Goes(c, "failed")
    /\ UNCHANGED <<faults, job, sha, fd, wrote, files, holder, target, abandoned>>

Return(c) ==
    /\ pc[c] \in {"upgraded", "failed"}
    /\ Goes(c, "idle")
    /\ job' = [job EXCEPT ![c] = None]
    /\ sha' = [sha EXCEPT ![c] = {}]
    /\ wrote' = [wrote EXCEPT ![c] = 0]
    /\ UNCHANGED <<faults, fd, files, holder, target, abandoned>>

Step(c) ==
    \/ Reuse(c) \/ Download(c) \/ (\E i \in Inodes : Open(c, i))
    \/ Write(c) \/ Close(c) \/ WriteFails(c) \/ Chmod(c) \/ Replace(c)
    \/ Lock(c) \/ Push(c) \/ Accept(c) \/ RunFails(c) \/ Unlock(c)
    \/ Confirm(c) \/ GiveUp(c) \/ Return(c)

----------------------------------------------------------------------------

\* The target's service restarts and runs what was installed last.
Restart(t) ==
    /\ running[t] # installed[t]
    /\ running' = [running EXCEPT ![t] = installed[t]]
    /\ UNCHANGED <<faults, pc, job, sha, fd, wrote, files, holder, staged, installed, abandoned>>

\* The target finishes what no call waits for.
StageLate(r) ==
    /\ r \in abandoned /\ r.kind = "push"
    /\ staged' = [staged EXCEPT ![r.target][r.version] = r.content]
    /\ abandoned' = abandoned \ {r}
    /\ UNCHANGED <<faults, pc, job, sha, fd, wrote, files, holder, installed, running>>

ApplyLate(r) ==
    /\ r \in abandoned /\ r.kind = "apply"
    /\ installed' = IF staged[r.target][r.version] = r.content
                    THEN [installed EXCEPT ![r.target] =
                            [version |-> r.version, content |-> r.content]]
                    ELSE installed
    /\ abandoned' = abandoned \ {r}
    /\ UNCHANGED <<faults, pc, job, sha, fd, wrote, files, holder, staged, running>>

\* The bridge stops and starts again: calls, open files and locks are gone, what
\* the targets were asked for is not.
Crash ==
    /\ "crash" \in faults
    /\ \E R \in SUBSET UNION {Leaves(c) : c \in Calls} : abandoned' = abandoned \cup R
    /\ pc' = [c \in Calls |-> "idle"]
    /\ job' = [c \in Calls |-> None]
    /\ sha' = [c \in Calls |-> {}]
    /\ fd' = [c \in Calls |-> None]
    /\ wrote' = [c \in Calls |-> 0]
    /\ holder' = [t \in Targets |-> None]
    /\ UNCHANGED <<faults, files, target>>

Next ==
    \/ \E c \in Calls :
         (\E v \in Versions, t \in Targets : Begin(c, v, t)) \/ Step(c)
    \/ \E t \in Targets : Restart(t)
    \/ \E r \in abandoned : StageLate(r) \/ ApplyLate(r)
    \/ Crash

Spec == Init /\ [][Next]_vars

\* Calls run, and the poll has a deadline; targets need not restart.
FairSpec == Spec /\ \A c \in Calls : WF_vars(Step(c))

----------------------------------------------------------------------------
(* Properties                                                              *)

\* Every variable has its type.
TypeOK ==
    /\ faults \in Scenarios
    /\ pc \in [Calls -> PCs]
    /\ job \in [Calls -> [version : Versions, target : Targets] \cup {None}]
    /\ sha \in [Calls -> SUBSET Blocks]
    /\ fd \in [Calls -> Inodes \cup {None}]
    /\ wrote \in [Calls -> 0 .. FileSize]
    /\ final \in [Versions -> Inodes \cup {None}]
    /\ tmp \in [Versions -> Inodes \cup {None}]
    /\ content \in [Inodes -> SUBSET Blocks]
    /\ exec \subseteq Inodes
    /\ holder \in [Targets -> Calls \cup {None}]
    /\ staged \in [Targets -> [Versions -> SUBSET Blocks]]
    /\ installed \in [Targets -> Programs]
    /\ running \in [Targets -> Programs]
    /\ abandoned \subseteq Requests

\* A release that a call would reuse is the whole verified download ("only
\* what passed the check reaches the disk, lest half a file be kept",
\* upgrades.py:85).
ReleaseVerified == \A v \in Versions : Present(v) => content[final[v]] = Blocks

\* So it is, whatever crash came before, when downloads do not overlap.
ReleaseWhole == "overlap" \notin faults => ReleaseVerified

\* With downloads that overlap a release may be half a file, but only while a
\* call still writes it: without a crash it ends up whole.
ReleaseSettles ==
    "crash" \notin faults =>
        \A v \in Versions :
            Present(v) /\ (\A c \in Calls : fd[c] # final[v]) => content[final[v]] = Blocks

\* What a call pushes is what it took the checksum of, although it reads the
\* file twice and other calls may have replaced it in between.
PushedIsHashed ==
    [][("overlap" \notin faults) =>
         \A c \in Calls : pc[c] = "push" /\ pc'[c] = "apply" =>
             staged'[Target(c)][Version(c)] = sha[c]]_vars

\* A target never runs, and never has installed, half a program, though half of a
\* push may reach it, and late.
TargetRunsWhole ==
    "overlap" \notin faults =>
        \A t \in Targets : running[t].content = Blocks /\ installed[t].content = Blocks

\* Between its push and the target's answer no other call stages a file there:
\* the SYSTEM lock spans both.  What changes the file all the same is a push that
\* its call gave up before, and only that.
StagingUndisturbed ==
    [][\A c \in Calls :
         pc[c] = "apply" /\ pc'[c] = "apply" =>
             \/ staged'[Target(c)][Version(c)] = staged[Target(c)][Version(c)]
             \/ \E r \in abandoned \ abandoned' :
                  /\ r.kind = "push" /\ r.target = Target(c) /\ r.version = Version(c)
                  /\ staged'[r.target][r.version] = r.content]_vars

\* As long as downloads of a version do not overlap, every step of upgrade_run is
\* one that Distribution allows: a release is published when a call would reuse it
\* and it is whole, and a program counts as its version only if it is whole.
Stage(place) ==
    IF place \in {"check", "open", "write", "chmod", "replace", "lock"} THEN "asked"
    ELSE IF place \in {"push", "apply"} THEN "sending"
    ELSE IF place \in {"unlock", "poll"} THEN "installed"
    ELSE place

Published == {v \in Versions : Present(v) /\ content[final[v]] = Blocks}
Pending == {[version |-> r.version, target |-> r.target] :
              r \in {s \in abandoned : s.kind = "apply"}}
Program(p) == IF p.content = Blocks THEN p.version ELSE p

Contract == INSTANCE Distribution WITH
    stage <- [c \in Calls |-> Stage(pc[c])],
    request <- job,
    published <- Published,
    installed <- [t \in Targets |-> Program(installed[t])],
    running <- [t \in Targets |-> Program(running[t])],
    late <- Pending

ImplementsDistribution ==
    /\ Contract!Init
    /\ [][("overlap" \notin faults) => Contract!Next]_(Contract!vars)

\* Every call of upgrade_run returns, though its target may never restart.
UpgradeReturns == \A c \in Calls : pc[c] # "idle" ~> pc[c] = "idle"

============================================================================
