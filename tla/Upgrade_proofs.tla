--------------------------- MODULE Upgrade_proofs ---------------------------
(***************************************************************************)
(* The release files and the upgrade of a target, for any number of calls, *)
(* targets, versions and blocks.                                           *)
(***************************************************************************)
EXTENDS Upgrade, TLAPS

----------------------------------------------------------------------------
(* Types                                                                   *)

Jobs == [version : Versions, target : Targets]
HasRelease(c) == pc[c] \in {"lock", "push", "apply", "unlock", "poll"}

\* What a call's place says of its job, its open file and its release.
Shape ==
    \A c \in Calls :
        /\ pc[c] # "idle" => job[c] \in Jobs
        /\ pc[c] = "write" <=> fd[c] # None
        /\ HasRelease(c) => final[Version(c)] # None

\* A call under way works on a version and a target.
LEMMA WorksOn ==
    ASSUME Shape, NEW c \in Calls, pc[c] # "idle"
    PROVE  Version(c) \in Versions /\ Target(c) \in Targets
BY DEF Shape, Version, Target, Jobs

\* A target carries out what its call gave up.
Late == \E r \in abandoned : StageLate(r) \/ ApplyLate(r)

\* That changes the target only.
LEMMA LateStays ==
    ASSUME Late
    PROVE  UNCHANGED <<faults, pc, job, sha, fd, wrote, final, tmp, content, exec, holder, running>>
BY DEF Late, StageLate, ApplyLate, files

\* What a step of call c leaves alone.
Mine(c) == (\E v \in Versions, t \in Targets : Begin(c, v, t)) \/ Step(c)

Others(c) ==
    \A d \in Calls \ {c} :
        /\ pc'[d] = pc[d] /\ job'[d] = job[d] /\ sha'[d] = sha[d]
        /\ fd'[d] = fd[d] /\ wrote'[d] = wrote[d]
        /\ Version(d)' = Version(d) /\ Target(d)' = Target(d)

\* A step of a call moves no other.
LEMMA OthersStay ==
    ASSUME TypeOK, NEW c \in Calls, Mine(c)
    PROVE  Others(c) /\ faults' = faults
BY DEF Mine, Step, Others, Begin, Reuse, Download, Open, Write, Close, WriteFails, Chmod,
       Replace, Lock, Push, Accept, Free, RunFails, Unlock, Confirm, GiveUp, Return,
       Goes, Version, Target, TypeOK

\* Nothing is under way initially.
LEMMA InitTypes == Init => TypeOK /\ Shape
BY FileSizeAssumption DEF Init, TypeOK, Shape, HasRelease, PCs, Programs, Blocks

\* Every step keeps the types.
LEMMA NextTypes == TypeOK /\ Shape /\ [Next]_vars => TypeOK' /\ Shape'
<1>. SUFFICES ASSUME TypeOK, Shape, [Next]_vars PROVE TypeOK' /\ Shape'
  OBVIOUS
<1>. USE DEF PCs, Goes, HasRelease
<1>1. ASSUME NEW c \in Calls, NEW v \in Versions, NEW t \in Targets, Begin(c, v, t)
      PROVE  TypeOK' /\ Shape'
  BY <1>1 DEF Begin, files, target, TypeOK, Shape, Jobs, Version
<1>2. ASSUME NEW c \in Calls, Reuse(c) PROVE TypeOK' /\ Shape'
  <2>1. final[Version(c)] \in Inodes /\ Version(c) \in Versions
    BY <1>2, WorksOn DEF Reuse, Present, TypeOK
  <2>2. content[final[Version(c)]] \in SUBSET Blocks
    BY <2>1 DEF TypeOK
  <2>. QED  BY <1>2, <2>1, <2>2, NoneAssumption DEF Reuse, files, target, TypeOK, Shape, Version
<1>3. ASSUME NEW c \in Calls, Download(c) \/ Close(c) \/ WriteFails(c) PROVE TypeOK' /\ Shape'
  <2>1. CASE Download(c)
    BY <2>1 DEF Download, files, target, TypeOK, Shape, Version
  <2>2. CASE Close(c) \/ WriteFails(c)
    <3>1. TypeOK'
      BY <2>2 DEF Close, WriteFails, files, target, TypeOK
    <3>2. Shape'
      BY <2>2 DEF Close, WriteFails, files, TypeOK, Shape, Version
    <3>. QED  BY <3>1, <3>2
  <2>. QED  BY <1>3, <2>1, <2>2
<1>4. ASSUME NEW c \in Calls, NEW i \in Inodes, Open(c, i) PROVE TypeOK' /\ Shape'
  <2>1. Version(c) \in Versions
    BY <1>4, WorksOn DEF Open
  <2>2. TypeOK'
    <3>1. tmp' \in [Versions -> Inodes \cup {None}] /\ exec' \subseteq Inodes
      BY <1>4, <2>1 DEF Open, TypeOK
    <3>2. content' \in [Inodes -> SUBSET Blocks] /\ wrote' \in [Calls -> 0 .. FileSize]
      BY <1>4, FileSizeAssumption DEF Open, TypeOK
    <3>. QED  BY <1>4, <3>1, <3>2 DEF Open, target, TypeOK
  <2>3. Shape'
    BY <1>4, NoneAssumption DEF Open, TypeOK, Shape, Version
  <2>. QED  BY <2>2, <2>3
<1>5. ASSUME NEW c \in Calls, Write(c) PROVE TypeOK' /\ Shape'
  <2>1. fd[c] \in Inodes /\ wrote[c] \in 0 .. FileSize /\ wrote[c] # FileSize
    BY <1>5 DEF Write, LastBlock, TypeOK, Shape
  <2>2. wrote[c] + 1 \in Blocks /\ wrote[c] + 1 \in 0 .. FileSize
    BY <2>1, FileSizeAssumption DEF Blocks
  <2>3. wrote' \in [Calls -> 0 .. FileSize] /\ content' \in [Inodes -> SUBSET Blocks]
    BY <1>5, <2>2 DEF Write, TypeOK
  <2>. QED  BY <1>5, <2>3 DEF Write, target, TypeOK, Shape, Version
<1>6. ASSUME NEW c \in Calls, Chmod(c) PROVE TypeOK' /\ Shape'
  <2>1. Version(c) \in Versions
    BY <1>6, WorksOn DEF Chmod
  <2>2. TypeOK'
    BY <1>6, <2>1 DEF Chmod, target, TypeOK
  <2>3. Shape'
    BY <1>6, <2>1 DEF Chmod, TypeOK, Shape, Version
  <2>. QED  BY <2>2, <2>3
<1>7. ASSUME NEW c \in Calls, Replace(c) PROVE TypeOK' /\ Shape'
  <2>1. Version(c) \in Versions
    BY <1>7, WorksOn DEF Replace
  <2>2. TypeOK'
    <3>1. CASE tmp[Version(c)] = None
      BY <1>7, <3>1 DEF Replace, target, TypeOK
    <3>2. CASE tmp[Version(c)] # None
      <4>1. final' \in [Versions -> Inodes \cup {None}]
        BY <1>7, <2>1, <3>2 DEF Replace, TypeOK
      <4>2. tmp' \in [Versions -> Inodes \cup {None}] /\ sha' \in [Calls -> SUBSET Blocks]
        BY <1>7, <3>2 DEF Replace, TypeOK
      <4>. QED  BY <1>7, <3>2, <4>1, <4>2 DEF Replace, target, TypeOK
    <3>. QED  BY <3>1, <3>2
  <2>3. \A v \in Versions : final[v] # None => final'[v] # None
    BY <1>7, <2>1 DEF Replace, TypeOK
  <2>4. HasRelease(c)' => final'[Version(c)] # None
    <3>1. CASE tmp[Version(c)] = None
      BY <1>7, <3>1 DEF Replace, TypeOK
    <3>2. CASE tmp[Version(c)] # None
      BY <1>7, <2>1, <3>2 DEF Replace, TypeOK
    <3>. QED  BY <3>1, <3>2
  <2>5. /\ job' = job /\ fd' = fd
        /\ pc'[c] \notin {"idle", "write"} /\ pc[c] \notin {"idle", "write"}
    BY <1>7 DEF Replace, TypeOK
  <2>6. Shape'
    BY <2>3, <2>4, <2>5, <1>7, WorksOn, OthersStay DEF Shape, Version, Others, Mine, Step
  <2>. QED  BY <2>2, <2>6
<1>8. ASSUME NEW c \in Calls, Lock(c) \/ RunFails(c) \/ Unlock(c) PROVE TypeOK' /\ Shape'
  <2>1. Target(c) \in Targets
    BY <1>8, WorksOn DEF Lock, RunFails, Unlock
  <2>2. abandoned' \subseteq Requests
    BY <1>8 DEF Lock, RunFails, Unlock, Leaves, TypeOK
  <2>. QED  BY <1>8, <2>1, <2>2 DEF Lock, RunFails, Unlock, Free, files, target, TypeOK, Shape,
                                    Version
<1>9. ASSUME NEW c \in Calls, Push(c) PROVE TypeOK' /\ Shape'
  <2>1. Version(c) \in Versions /\ Target(c) \in Targets /\ final[Version(c)] \in Inodes
    BY <1>9, WorksOn DEF Push, Shape, TypeOK
  <2>2. content[final[Version(c)]] \in SUBSET Blocks
    BY <2>1 DEF TypeOK
  <2>3. staged' \in [Targets -> [Versions -> SUBSET Blocks]]
    BY <1>9, <2>1, <2>2 DEF Push, TypeOK
  <2>. QED  BY <1>9, <2>3 DEF Push, files, TypeOK, Shape, Version
<1>10. ASSUME NEW c \in Calls, Accept(c) PROVE TypeOK' /\ Shape'
  <2>1. Version(c) \in Versions /\ Target(c) \in Targets
    BY <1>10, WorksOn DEF Accept
  <2>2. [version |-> Version(c), content |-> sha[c]] \in Programs
    BY <2>1 DEF Programs, TypeOK
  <2>. QED  BY <1>10, <2>1, <2>2 DEF Accept, files, TypeOK, Shape, Version
<1>11. ASSUME NEW c \in Calls, Confirm(c) \/ GiveUp(c) \/ Return(c) PROVE TypeOK' /\ Shape'
  <2>1. CASE Confirm(c) \/ GiveUp(c)
    BY <2>1 DEF Confirm, GiveUp, files, target, TypeOK, Shape, Version
  <2>2. CASE Return(c)
    <3>1. TypeOK'
      BY <2>2, FileSizeAssumption DEF Return, files, target, TypeOK
    <3>2. Shape'
      BY <2>2 DEF Return, files, TypeOK, Shape, Version
    <3>. QED  BY <3>1, <3>2
  <2>. QED  BY <1>11, <2>1, <2>2
<1>12. ASSUME NEW t \in Targets, Restart(t) PROVE TypeOK' /\ Shape'
  BY <1>12 DEF Restart, files, TypeOK, Shape, Version
<1>13. CASE Crash
  <2>1. abandoned' \subseteq Requests
    BY <1>13 DEF Crash, Leaves, TypeOK
  <2>. QED  BY <1>13, <2>1, FileSizeAssumption DEF Crash, files, target, TypeOK, Shape
<1>14. CASE Late
  <2>1. PICK r \in abandoned : StageLate(r) \/ ApplyLate(r)
    BY <1>14 DEF Late
  <2>2. r.target \in Targets /\ r.version \in Versions /\ r.content \in SUBSET Blocks
    BY DEF TypeOK, Requests
  <2>3. staged' \in [Targets -> [Versions -> SUBSET Blocks]]
    <3>1. CASE StageLate(r)
      BY <2>2, <3>1 DEF StageLate, TypeOK
    <3>2. CASE ApplyLate(r)
      BY <3>2 DEF ApplyLate, TypeOK
    <3>. QED  BY <2>1, <3>1, <3>2
  <2>4. installed' \in [Targets -> Programs]
    <3>1. [version |-> r.version, content |-> r.content] \in Programs
      BY <2>2 DEF Programs
    <3>2. CASE StageLate(r)
      BY <3>2 DEF StageLate, TypeOK
    <3>3. CASE ApplyLate(r)
      BY <2>2, <3>1, <3>3 DEF ApplyLate, TypeOK
    <3>. QED  BY <2>1, <3>2, <3>3
  <2>5. abandoned' \subseteq Requests
    BY <2>1 DEF StageLate, ApplyLate, TypeOK
  <2>. QED  BY <1>14, <2>3, <2>4, <2>5, LateStays DEF TypeOK, Shape, Version
<1>15. CASE UNCHANGED vars
  BY <1>15 DEF vars, files, target, TypeOK, Shape, Version
<1>. QED  BY <1>1, <1>2, <1>3, <1>4, <1>5, <1>6, <1>7, <1>8, <1>9, <1>10, <1>11, <1>12,
             <1>13, <1>14, <1>15 DEF Next, Step, Late

\* Every variable keeps its type: no call writes beyond a release's end, or
\* reads a release that is not there.
THEOREM UpgradeTypeCorrect == Spec => []TypeOK
BY InitTypes, NextTypes, PTL DEF Spec

----------------------------------------------------------------------------
(* The SYSTEM lock spans the push and the target's answer                  *)

\* A call between its lock and its release is the target's holder.
HolderInv ==
    \A c \in Calls : pc[c] \in {"push", "apply", "unlock"} => holder[Target(c)] = c

\* Only the holder frees a target, and it is taken only when it is free.
LEMMA NextHolder ==
    TypeOK /\ Shape /\ HolderInv /\ [Next]_vars => HolderInv'
<1>. SUFFICES ASSUME TypeOK, Shape, HolderInv, [Next]_vars PROVE HolderInv'
  OBVIOUS
<1>1. ASSUME NEW c \in Calls, Mine(c) PROVE HolderInv'
  <2>. SUFFICES ASSUME NEW d \in Calls, pc'[d] \in {"push", "apply", "unlock"}
                PROVE  holder'[Target(d)'] = d
    BY DEF HolderInv
  <2>1. CASE d = c /\ ~Lock(c)
    <3>1. Push(c) \/ Accept(c)
      BY <1>1, <2>1
      DEF Mine, Step, Begin, Reuse, Download, Open, Write, Close, WriteFails, Chmod, Replace,
          RunFails, Unlock, Confirm, GiveUp, Return, Goes, TypeOK
    <3>. QED  BY <2>1, <3>1 DEF Push, Accept, HolderInv, Target
  <2>2. CASE holder' = holder /\ d # c
    BY <1>1, <2>2, OthersStay DEF HolderInv, Others
  <2>3. CASE Lock(c)
    <3>1. Target(c) \in Targets /\ job' = job
      BY <2>3, WorksOn DEF Lock
    <3>2. CASE d = c
      BY <2>3, <3>1, <3>2 DEF Lock, Target, TypeOK, Goes
    <3>3. CASE d # c
      <4>1. /\ holder[Target(d)] = d /\ Target(d)' = Target(d)
            /\ Target(d) \in Targets
        BY <1>1, <3>3, OthersStay, WorksOn DEF HolderInv, Others
      <4>2. CASE holder[Target(c)] = None
        BY <2>3, <3>1, <4>1, <4>2, NoneAssumption DEF Lock, TypeOK
      <4>3. CASE holder[Target(c)] # None
        BY <2>3, <4>1, <4>3 DEF Lock
      <4>. QED  BY <4>2, <4>3
    <3>. QED  BY <3>2, <3>3
  <2>4. CASE RunFails(c) \/ Unlock(c)
    <3>1. Target(c) \in Targets /\ d # c /\ holder[Target(c)] = c
      BY <2>4, WorksOn DEF RunFails, Unlock, Goes, TypeOK, HolderInv
    <3>2. holder[Target(d)] = d /\ Target(d)' = Target(d) /\ Target(d) \in Targets
      BY <1>1, <3>1, OthersStay, WorksOn DEF HolderInv, Others
    <3>. QED  BY <2>4, <3>1, <3>2 DEF RunFails, Unlock, Free, TypeOK
  <2>5. holder' = holder \/ Lock(c) \/ RunFails(c) \/ Unlock(c)
    BY <1>1 DEF Mine, Step, Begin, Reuse, Download, Open, Write, Close, WriteFails, Chmod,
                Replace, Push, Accept, Confirm, GiveUp, Return
  <2>. QED  BY <2>1, <2>2, <2>3, <2>4, <2>5
<1>2. ASSUME NEW t \in Targets, Restart(t) PROVE HolderInv'
  BY <1>2 DEF Restart, HolderInv, Target
<1>3. CASE Crash
  BY <1>3 DEF Crash, HolderInv
<1>4. CASE UNCHANGED vars \/ Late
  BY <1>4, LateStays DEF vars, HolderInv, Target
<1>. QED  BY <1>1, <1>2, <1>3, <1>4 DEF Next, Mine, Late

\* While a call waits for the target's answer nobody else stages a file of its
\* version there, but for a push that its call gave up before: whoever pushes holds
\* the target, and there is one holder.
THEOREM UpgradeStagingUndisturbed == Spec => StagingUndisturbed
<1>1. Init => HolderInv
  BY DEF Init, HolderInv
<1>2. TypeOK /\ Shape /\ HolderInv /\ [Next]_vars =>
        [\A c \in Calls :
           pc[c] = "apply" /\ pc'[c] = "apply" =>
               \/ staged'[Target(c)][Version(c)] = staged[Target(c)][Version(c)]
               \/ \E r \in abandoned \ abandoned' :
                    /\ r.kind = "push" /\ r.target = Target(c) /\ r.version = Version(c)
                    /\ staged'[r.target][r.version] = r.content]_vars
  <2>. SUFFICES ASSUME TypeOK, Shape, HolderInv, Next, NEW c \in Calls, pc[c] = "apply"
                PROVE  \/ staged'[Target(c)][Version(c)] = staged[Target(c)][Version(c)]
                       \/ \E r \in abandoned \ abandoned' :
                            /\ r.kind = "push" /\ r.target = Target(c)
                            /\ r.version = Version(c)
                            /\ staged'[r.target][r.version] = r.content
    BY DEF vars
  <2>1. ASSUME NEW d \in Calls, Push(d)
        PROVE  staged'[Target(c)][Version(c)] = staged[Target(c)][Version(c)]
    <3>1. holder[Target(d)] = d /\ holder[Target(c)] = c /\ pc[d] = "push"
      BY <2>1 DEF Push, HolderInv
    <3>2. Target(d) # Target(c) /\ Target(c) \in Targets
      BY <3>1, WorksOn
    <3>. QED  BY <2>1, <3>2 DEF Push, TypeOK
  <2>2. ASSUME NEW r \in abandoned, StageLate(r)
        PROVE  \/ staged'[Target(c)][Version(c)] = staged[Target(c)][Version(c)]
               \/ /\ r \in abandoned \ abandoned'
                  /\ r.kind = "push" /\ r.target = Target(c) /\ r.version = Version(c)
                  /\ staged'[r.target][r.version] = r.content
    <3>1. /\ r.target \in Targets /\ r.version \in Versions
          /\ Target(c) \in Targets /\ Version(c) \in Versions
      BY WorksOn DEF TypeOK, Requests
    <3>2. CASE r.target = Target(c) /\ r.version = Version(c)
      BY <2>2, <3>1, <3>2 DEF StageLate, TypeOK
    <3>3. CASE ~(r.target = Target(c) /\ r.version = Version(c))
      BY <2>2, <3>1, <3>3 DEF StageLate, TypeOK
    <3>. QED  BY <3>2, <3>3
  <2>3. \/ staged' = staged
        \/ \E d \in Calls : Push(d)
        \/ \E r \in abandoned : StageLate(r)
    BY DEF Next, Step, Begin, Reuse, Download, Open, Write, Close, WriteFails, Chmod, Replace,
           Lock, Accept, RunFails, Unlock, Confirm, GiveUp, Return, Restart, Crash, ApplyLate,
           target
  <2>. QED  BY <2>1, <2>2, <2>3
<1>. QED  BY <1>1, <1>2, InitTypes, NextTypes, NextHolder, PTL DEF Spec, StagingUndisturbed

----------------------------------------------------------------------------
(* Downloads that overlap                                                  *)

\* The file is whole, or a call that has it open has written its share of it.
Settled(i) ==
    \/ content[i] = Blocks
    \/ \E d \in Calls : fd[d] = i /\ 1 .. wrote[d] \subseteq content[i]

SettledInv ==
    "crash" \notin faults =>
        \A v \in Versions, i \in Inodes : i \in {final[v], tmp[v]} => Settled(i)

\* Only Open, Write and Replace change the files and the names (Chmod does not
\* change what is in a file).
LEMMA FilesStay ==
    ASSUME NEW c \in Calls, Mine(c), ~Write(c), ~Replace(c),
           \A i \in Inodes : ~Open(c, i)
    PROVE  final' = final /\ tmp' = tmp /\ content' = content
BY DEF Mine, Step, Begin, Reuse, Download, Close, WriteFails, Chmod, Lock, Push, Accept,
       RunFails, Unlock, Confirm, GiveUp, Return, files

\* A file that is whole, or about to be, stays so until it is truncated.
LEMMA StaySettled ==
    ASSUME TypeOK, Shape, NEW c \in Calls, Mine(c), "crash" \notin faults,
           NEW i \in Inodes, Settled(i), ~Open(c, i)
    PROVE  Settled(i)'
<1>1. ASSUME NEW d \in Calls, fd[d] = i, 1 .. wrote[d] \subseteq content[i], d # c,
             content[i] \subseteq content'[i]
      PROVE  Settled(i)'
  BY <1>1, OthersStay DEF Others, Settled
<1>2. ASSUME NEW j \in Inodes, Open(c, j) PROVE Settled(i)'
  <2>1. fd[c] = None /\ content'[i] = content[i]
    BY <1>2 DEF Open, Shape, TypeOK
  <2>. QED  BY <1>1, <2>1, NoneAssumption DEF Settled
<1>3. CASE Write(c)
  <2>1. /\ fd[c] \in Inodes /\ wrote[c] \in 0 .. FileSize /\ wrote[c] # FileSize
        /\ fd' = fd /\ wrote'[c] = wrote[c] + 1
    BY <1>3 DEF Write, LastBlock, TypeOK, Shape
  <2>2. wrote[c] + 1 \in Blocks /\ 1 .. wrote[c] + 1 = (1 .. wrote[c]) \cup {wrote[c] + 1}
    BY <2>1, FileSizeAssumption DEF Blocks
  <2>3. CASE fd[c] = i
    <3>1. content'[i] = content[i] \cup {wrote[c] + 1}
      BY <1>3, <2>1, <2>3 DEF Write, TypeOK
    <3>2. CASE content[i] = Blocks
      BY <2>2, <3>1, <3>2 DEF Settled
    <3>3. CASE 1 .. wrote[c] \subseteq content[i]
      <4>1. 1 .. wrote'[c] \subseteq content'[i] /\ fd'[c] = i
        BY <2>1, <2>2, <2>3, <3>1, <3>3
      <4>. QED  BY <4>1 DEF Settled
    <3>. QED  BY <1>1, <3>1, <3>2, <3>3 DEF Settled
  <2>4. CASE fd[c] # i
    <3>1. content'[i] = content[i]
      BY <1>3, <2>4 DEF Write, TypeOK
    <3>. QED  BY <1>1, <2>4, <3>1 DEF Settled
  <2>. QED  BY <2>3, <2>4
<1>4. CASE Close(c)
  <2>1. content' = content /\ wrote[c] = FileSize
    BY <1>4 DEF Close, LastBlock, files
  <2>2. CASE fd[c] = i /\ 1 .. wrote[c] \subseteq content[i]
    <3>1. content[i] = Blocks
      BY <2>1, <2>2 DEF Blocks, TypeOK
    <3>. QED  BY <2>1, <3>1 DEF Settled
  <2>. QED  BY <1>1, <2>1, <2>2 DEF Settled
<1>5. CASE ~Write(c) /\ ~Close(c) /\ \A j \in Inodes : ~Open(c, j)
  <2>1. content' = content
    BY <1>5, FilesStay DEF Replace
  <2>2. pc[c] # "write"
    BY <1>5 DEF Mine, Step, Begin, Reuse, Download, WriteFails, Chmod, Replace, Lock, Push,
                Accept, RunFails, Unlock, Confirm, GiveUp, Return
  <2>3. fd[c] # i
    BY <2>2, NoneAssumption DEF Shape
  <2>. QED  BY <1>1, <2>1, <2>3 DEF Settled
<1>. QED  BY <1>2, <1>3, <1>4, <1>5

\* What a name refers to is settled: a file that gets the name was settled
\* under the other one, or is new and still open.
LEMMA NextSettled ==
    TypeOK /\ Shape /\ SettledInv /\ [Next]_vars => SettledInv'
<1>. SUFFICES ASSUME TypeOK, Shape, SettledInv, [Next]_vars PROVE SettledInv'
  OBVIOUS
<1>1. ASSUME NEW c \in Calls, Mine(c) PROVE SettledInv'
  <2>. SUFFICES ASSUME "crash" \notin faults,
                       NEW v \in Versions, NEW i \in Inodes, i \in {final'[v], tmp'[v]}
                PROVE  Settled(i)'
    BY <1>1, OthersStay DEF SettledInv
  <2>1. CASE Open(c, i)
    <3>1. fd'[c] = i /\ wrote'[c] = 0
      BY <2>1 DEF Open, TypeOK
    <3>2. 1 .. wrote'[c] \subseteq content'[i]
      BY <3>1
    <3>. QED  BY <3>1, <3>2 DEF Settled
  <2>2. CASE ~Open(c, i)
    <3>1. ASSUME NEW j \in Inodes, Open(c, j) PROVE i \in {final[v], tmp[v]}
      <4>1. i # j
        BY <2>2, <3>1
      <4>2. Version(c) \in Versions /\ final' = final
        BY <3>1, WorksOn DEF Open
      <4>. QED  BY <3>1, <4>1, <4>2 DEF Open, TypeOK
    <3>2. ASSUME Replace(c) PROVE i \in {final[v], tmp[v], tmp[Version(c)]}
      BY <3>2, NoneAssumption DEF Replace, TypeOK
    <3>3. ASSUME Write(c) PROVE i \in {final[v], tmp[v]}
      BY <3>3 DEF Write
    <3>4. \E u \in Versions : i \in {final[u], tmp[u]}
      BY <1>1, <3>1, <3>2, <3>3, FilesStay, WorksOn DEF Replace
    <3>5. Settled(i)
      BY <3>4 DEF SettledInv
    <3>. QED  BY <1>1, <2>2, <3>5, StaySettled
  <2>. QED  BY <2>1, <2>2
<1>2. ASSUME NEW t \in Targets, Restart(t) PROVE SettledInv'
  BY <1>2 DEF Restart, files, SettledInv, Settled
<1>3. CASE Crash
  BY <1>3 DEF Crash, SettledInv
<1>4. CASE UNCHANGED vars \/ Late
  BY <1>4, LateStays DEF vars, files, SettledInv, Settled
<1>. QED  BY <1>1, <1>2, <1>3, <1>4 DEF Next, Mine, Late

\* Without a crash or a failed write, a release that no call still writes is
\* whole, however many calls download it at once.
THEOREM UpgradeReleaseSettles == Spec => []ReleaseSettles
<1>1. Init => SettledInv
  BY NoneAssumption DEF Init, SettledInv
<1>2. TypeOK /\ SettledInv => ReleaseSettles
  BY DEF ReleaseSettles, SettledInv, Settled, Present, TypeOK
<1>. QED  BY <1>1, <1>2, InitTypes, NextTypes, NextSettled, PTL DEF Spec

----------------------------------------------------------------------------
(* Downloads one at a time, with crashes and failed writes                 *)

\* One call prepares a version.
Apart ==
    \A c, d \in Calls :
        Preparing(c) /\ Preparing(d) /\ Version(c) = Version(d) => c = d

\* It writes the temporary file, which holds what it has written ...
Writing ==
    \A c \in Calls :
        pc[c] = "write" =>
            fd[c] = tmp[Version(c)] /\ content[fd[c]] = 1 .. wrote[c]

\* ... and has it whole when it renames it.
Written ==
    \A c \in Calls :
        pc[c] \in {"chmod", "replace"} =>
            tmp[Version(c)] # None /\ content[tmp[Version(c)]] = Blocks

\* No temporary file has a second name.
Separate ==
    \A v, u \in Versions :
        tmp[v] # None => tmp[v] # final[u] /\ (u # v => tmp[u] # tmp[v])

\* Every release is whole.
Whole == \A v \in Versions : final[v] # None => content[final[v]] = Blocks

FilesInv ==
    "overlap" \notin faults => Apart /\ Writing /\ Written /\ Separate /\ Whole

\* A call that begins finds no other at its version; nobody else joins it.
LEMMA NextApart ==
    ASSUME TypeOK, Shape, Apart, "overlap" \notin faults, NEW c \in Calls, Mine(c)
    PROVE  Apart'
<1>1. \A d \in Calls : d # c => (Preparing(d)' <=> Preparing(d)) /\ Version(d)' = Version(d)
  BY OthersStay DEF Others, Preparing
<1>2. \A d \in Calls : d # c /\ Preparing(c)' /\ Preparing(d) => Version(c)' # Version(d)
  <2>1. ASSUME NEW v \in Versions, NEW t \in Targets, Begin(c, v, t)
        PROVE  Version(c)' = v /\ \A d \in Calls : Preparing(d) => Version(d) # v
    BY <2>1 DEF Begin, TypeOK, Version
  <2>2. ASSUME Step(c), Preparing(c)' PROVE Preparing(c) /\ Version(c)' = Version(c)
    BY <2>2 DEF Step, Reuse, Download, Open, Write, Close, WriteFails, Chmod, Replace, Lock,
                Push, Accept, RunFails, Unlock, Confirm, GiveUp, Return, Goes, Preparing,
                Version, TypeOK
  <2>. QED  BY <2>1, <2>2 DEF Apart, Mine
<1>. QED  BY <1>1, <1>2 DEF Apart

\* Open truncates the temporary file, or makes one, which nobody else uses.
LEMMA OpenFiles ==
    ASSUME TypeOK, Shape, Apart, Writing, Written, Separate, Whole,
           NEW c \in Calls, NEW i \in Inodes, Open(c, i)
    PROVE  Writing' /\ Written' /\ Separate' /\ Whole'
<1>. DEFINE v == Version(c)
<1>1. /\ v \in Versions /\ final' = final /\ fd'[c] = i /\ wrote'[c] = 0 /\ tmp'[v] = i
      /\ content'[i] = {} /\ \A j \in Inodes \ {i} : content'[j] = content[j]
      /\ \A u \in Versions \ {v} : tmp'[u] = tmp[u]
      /\ pc[c] = "open" /\ pc'[c] = "write" /\ job' = job
  BY WorksOn, NoneAssumption DEF Open, Goes, TypeOK
<1>2. \A u \in Versions : final[u] # i /\ (u # v => tmp[u] # i)
  <2>1. CASE tmp[v] = None
    BY <2>1, NoneAssumption DEF Open
  <2>2. CASE tmp[v] # None
    BY <1>1, <2>2 DEF Open, Separate
  <2>. QED  BY <2>1, <2>2
<1>3. Separate' /\ Whole'
  <2>1. Separate'
    <3>. SUFFICES ASSUME NEW w \in Versions, NEW u \in Versions, tmp'[w] # None
                  PROVE  tmp'[w] # final[u] /\ (u # w => tmp'[u] # tmp'[w])
      BY <1>1 DEF Separate
    <3>1. CASE w = v
      BY <1>1, <1>2, <3>1
    <3>2. CASE w # v
      BY <1>1, <1>2, <3>2 DEF Separate
    <3>. QED  BY <3>1, <3>2
  <2>2. Whole'
    BY <1>1, <1>2 DEF Whole, TypeOK
  <2>. QED  BY <2>1, <2>2
<1>4. ASSUME NEW d \in Calls, d # c, Preparing(d)
      PROVE  Version(d) \in Versions \ {v}
  BY <1>1, <1>4, WorksOn DEF Apart, Preparing
<1>5. Others(c)
  BY OthersStay DEF Mine, Step
<1>6. Writing'
  <2>. SUFFICES ASSUME NEW d \in Calls, pc'[d] = "write"
                PROVE  fd'[d] = tmp'[Version(d)'] /\ content'[fd'[d]] = 1 .. wrote'[d]
    BY DEF Writing
  <2>1. CASE d = c
    <3>1. 1 .. 0 = {} /\ Version(c)' = v
      BY <1>1 DEF Version
    <3>. QED  BY <1>1, <2>1, <3>1
  <2>2. CASE d # c
    <3>1. /\ fd'[d] = fd[d] /\ wrote'[d] = wrote[d] /\ Version(d)' = Version(d)
          /\ pc[d] = "write"
      BY <1>5, <2>2 DEF Others
    <3>2. Version(d) \in Versions \ {v}
      BY <1>4, <2>2, <3>1 DEF Preparing
    <3>3. fd[d] = tmp[Version(d)] /\ content[fd[d]] = 1 .. wrote[d] /\ fd[d] \in Inodes
      BY <3>1 DEF Writing, Shape, TypeOK
    <3>. QED  BY <1>1, <1>2, <3>1, <3>2, <3>3
  <2>. QED  BY <2>1, <2>2
<1>7. Written'
  <2>. SUFFICES ASSUME NEW d \in Calls, pc'[d] \in {"chmod", "replace"}
                PROVE  tmp'[Version(d)'] # None /\ content'[tmp'[Version(d)']] = Blocks
    BY DEF Written
  <2>1. /\ d # c /\ Version(d)' = Version(d) /\ pc[d] \in {"chmod", "replace"}
    BY <1>1, <1>5 DEF Others
  <2>2. Version(d) \in Versions \ {v}
    BY <1>4, <2>1 DEF Preparing
  <2>3. tmp[Version(d)] \in Inodes /\ content[tmp[Version(d)]] = Blocks
    BY <2>1, <2>2 DEF Written, TypeOK
  <2>. QED  BY <1>1, <1>2, <2>1, <2>2, <2>3, NoneAssumption
<1>. QED  BY <1>3, <1>6, <1>7

\* A block goes to the temporary file of the writer's version.
LEMMA WriteFiles ==
    ASSUME TypeOK, Shape, Apart, Writing, Written, Separate, Whole,
           NEW c \in Calls, Write(c)
    PROVE  Writing' /\ Written' /\ Separate' /\ Whole'
<1>. DEFINE v == Version(c)
<1>1. /\ v \in Versions /\ final' = final /\ tmp' = tmp /\ fd' = fd /\ job' = job /\ pc' = pc
      /\ pc[c] = "write" /\ fd[c] = tmp[v] /\ fd[c] \in Inodes
      /\ content[fd[c]] = 1 .. wrote[c]
  BY WorksOn DEF Write, Writing, Shape, TypeOK
<1>2. /\ wrote[c] \in Nat /\ wrote'[c] = wrote[c] + 1
      /\ content'[fd[c]] = content[fd[c]] \cup {wrote[c] + 1}
      /\ \A j \in Inodes \ {fd[c]} : content'[j] = content[j]
  BY <1>1, FileSizeAssumption DEF Write, TypeOK
<1>3. content'[fd[c]] = 1 .. wrote'[c]
  BY <1>1, <1>2
<1>4. \A u \in Versions : final[u] # fd[c] /\ (u # v => tmp[u] # fd[c])
  BY <1>1, NoneAssumption DEF Separate
<1>5. Separate' /\ Whole'
  BY <1>1, <1>2, <1>4 DEF Separate, Whole, TypeOK
<1>6. ASSUME NEW d \in Calls, d # c, Preparing(d)
      PROVE  Version(d) \in Versions \ {v}
  BY <1>1, <1>6, WorksOn DEF Apart, Preparing
<1>7. Others(c)
  BY OthersStay DEF Mine, Step
<1>8. Writing'
  <2>. SUFFICES ASSUME NEW d \in Calls, pc[d] = "write"
                PROVE  fd[d] = tmp[Version(d)] /\ content'[fd[d]] = 1 .. wrote'[d]
    BY <1>1 DEF Writing, Version
  <2>1. CASE d = c
    BY <1>1, <1>3, <2>1
  <2>2. CASE d # c
    <3>1. wrote'[d] = wrote[d] /\ Version(d) \in Versions \ {v}
      BY <1>6, <1>7, <2>2 DEF Others, Preparing
    <3>2. fd[d] = tmp[Version(d)] /\ content[fd[d]] = 1 .. wrote[d] /\ fd[d] \in Inodes
      BY DEF Writing, Shape, TypeOK
    <3>. QED  BY <1>2, <1>4, <3>1, <3>2
  <2>. QED  BY <2>1, <2>2
<1>9. Written'
  <2>. SUFFICES ASSUME NEW d \in Calls, pc[d] \in {"chmod", "replace"}
                PROVE  tmp[Version(d)] # None /\ content'[tmp[Version(d)]] = Blocks
    BY <1>1 DEF Written, Version
  <2>1. d # c /\ Version(d) \in Versions \ {v}
    BY <1>1, <1>6 DEF Preparing
  <2>2. tmp[Version(d)] \in Inodes /\ content[tmp[Version(d)]] = Blocks
    BY <2>1 DEF Written, TypeOK
  <2>. QED  BY <1>2, <1>4, <2>1, <2>2, NoneAssumption
<1>. QED  BY <1>5, <1>8, <1>9

\* What is renamed is whole, and the temporary name is free again.
LEMMA ReplaceFiles ==
    ASSUME TypeOK, Shape, Apart, Writing, Written, Separate, Whole,
           NEW c \in Calls, Replace(c)
    PROVE  Writing' /\ Written' /\ Separate' /\ Whole'
<1>. DEFINE v == Version(c)
<1>1. /\ v \in Versions /\ content' = content /\ fd' = fd /\ wrote' = wrote /\ job' = job
      /\ pc[c] = "replace" /\ pc'[c] \in {"lock", "failed"}
      /\ tmp[v] # None /\ content[tmp[v]] = Blocks
  BY WorksOn DEF Replace, Written, Goes, TypeOK
<1>2. /\ final'[v] = tmp[v] /\ tmp'[v] = None
      /\ \A u \in Versions \ {v} : final'[u] = final[u] /\ tmp'[u] = tmp[u]
  BY <1>1 DEF Replace, TypeOK
<1>3. Separate' /\ Whole'
  <2>1. Separate'
    BY <1>1, <1>2 DEF Separate
  <2>2. Whole'
    BY <1>1, <1>2 DEF Whole
  <2>. QED  BY <2>1, <2>2
<1>4. \A d \in Calls : d # c /\ Preparing(d) => Version(d) \in Versions \ {v}
  BY <1>1, WorksOn DEF Apart, Preparing
<1>5. Others(c)
  BY OthersStay DEF Mine, Step
<1>6. Writing'
  BY <1>1, <1>2, <1>4, <1>5 DEF Writing, Others, Preparing, Version
<1>7. Written'
  BY <1>1, <1>2, <1>4, <1>5 DEF Written, Others, Preparing, Version
<1>. QED  BY <1>3, <1>6, <1>7

\* Every step keeps the releases whole.
LEMMA NextFiles ==
    TypeOK /\ Shape /\ FilesInv /\ [Next]_vars => FilesInv'
<1>. SUFFICES ASSUME TypeOK, Shape, FilesInv, [Next]_vars PROVE FilesInv'
  OBVIOUS
<1>1. ASSUME NEW c \in Calls, Mine(c) PROVE FilesInv'
  <2>. SUFFICES ASSUME "overlap" \notin faults
                PROVE  Apart' /\ Writing' /\ Written' /\ Separate' /\ Whole'
    BY <1>1, OthersStay DEF FilesInv
  <2>1. Apart /\ Writing /\ Written /\ Separate /\ Whole
    BY DEF FilesInv
  <2>2. Apart'
    BY <1>1, <2>1, NextApart
  <2>3. CASE Write(c) \/ Replace(c) \/ \E i \in Inodes : Open(c, i)
    BY <2>1, <2>2, <2>3, WriteFiles, ReplaceFiles, OpenFiles
  <2>4. CASE ~Write(c) /\ ~Replace(c) /\ \A i \in Inodes : ~Open(c, i)
    <3>1. final' = final /\ tmp' = tmp /\ content' = content
      BY <1>1, <2>4, FilesStay
    <3>2. Separate' /\ Whole'
      BY <2>1, <3>1 DEF Separate, Whole
    <3>3. /\ pc'[c] # "write"
          /\ pc'[c] \in {"chmod", "replace"} =>
               /\ job' = job
               /\ Close(c) \/ pc[c] \in {"chmod", "replace"}
      BY <1>1, <2>4
      DEF Mine, Step, Begin, Reuse, Download, Close, WriteFails, Chmod, Lock, Push, Accept,
          RunFails, Unlock, Confirm, GiveUp, Return, Goes, TypeOK
    <3>4. Others(c)
      BY <1>1, OthersStay
    <3>5. Writing'
      BY <2>1, <3>1, <3>3, <3>4 DEF Writing, Others
    <3>6. Close(c) => tmp[Version(c)] # None /\ content[tmp[Version(c)]] = Blocks
      BY <2>1 DEF Close, LastBlock, Writing, Shape, Blocks
    <3>7. Written'
      BY <2>1, <3>1, <3>3, <3>4, <3>6 DEF Written, Others, Version
    <3>. QED  BY <2>2, <3>2, <3>5, <3>7
  <2>. QED  BY <2>3, <2>4
<1>2. ASSUME NEW t \in Targets, Restart(t) PROVE FilesInv'
  BY <1>2 DEF Restart, files, FilesInv, Apart, Writing, Written, Separate, Whole, Preparing,
              Version
<1>3. CASE Crash
  BY <1>3 DEF Crash, files, FilesInv, Apart, Writing, Written, Separate, Whole, Preparing
<1>4. CASE UNCHANGED vars \/ Late
  BY <1>4, LateStays DEF vars, files, FilesInv, Apart, Writing, Written, Separate, Whole,
                         Preparing, Version
<1>. QED  BY <1>1, <1>2, <1>3, <1>4 DEF Next, Mine, Late

\* Initially there is no file.
LEMMA InitFiles == Init => FilesInv
BY DEF Init, FilesInv, Apart, Writing, Written, Separate, Whole, Preparing

\* A release that calls reuse is whole, whatever crash or failed write came
\* before, when downloads of a version do not overlap.
THEOREM UpgradeReleaseWhole == Spec => []ReleaseWhole
<1>1. TypeOK /\ FilesInv => ReleaseWhole
  BY NoneAssumption DEF ReleaseWhole, ReleaseVerified, FilesInv, Whole, Present, TypeOK
<1>. QED  BY <1>1, InitTypes, NextTypes, InitFiles, NextFiles, PTL DEF Spec

----------------------------------------------------------------------------
(* What the targets are sent                                               *)

\* A call sends the checksum of the whole release, and so do the requests that
\* it leaves to its target.
Sent ==
    /\ \A c \in Calls : pc[c] \in {"lock", "push", "apply", "unlock"} => sha[c] = Blocks
    /\ \A r \in abandoned : r.kind = "apply" => r.content = Blocks

\* What a target has installed and runs is whole.
OnTarget == \A t \in Targets : installed[t].content = Blocks /\ running[t].content = Blocks

SentInv == "overlap" \notin faults => Sent /\ OnTarget

\* The checksum is taken of a whole release.
LEMMA StepSent ==
    ASSUME TypeOK, Shape, Whole, Sent, NEW c \in Calls, Mine(c)
    PROVE  Sent'
<1>1. Others(c)
  BY OthersStay
<1>2. ASSUME pc'[c] \in {"lock", "push", "apply", "unlock"} PROVE sha'[c] = Blocks
  <2>1. CASE Reuse(c)
    <3>1. Version(c) \in Versions /\ final[Version(c)] # None
      BY <2>1, WorksOn, NoneAssumption DEF Reuse, Present, TypeOK
    <3>. QED  BY <2>1, <3>1 DEF Reuse, Whole, TypeOK
  <2>2. CASE Replace(c)
    BY <1>2, <2>2 DEF Replace, Goes, TypeOK
  <2>3. CASE ~Reuse(c) /\ ~Replace(c)
    <3>1. pc[c] \in {"lock", "push", "apply", "unlock"} /\ sha' = sha
      BY <1>2, <2>3
      DEF Mine, Step, Begin, Download, Open, Write, Close, WriteFails, Chmod, Lock, Push,
          Accept, RunFails, Unlock, Confirm, GiveUp, Return, Goes, TypeOK
    <3>. QED  BY <3>1 DEF Sent
  <2>. QED  BY <2>1, <2>2, <2>3
<1>3. ASSUME NEW d \in Calls, pc'[d] \in {"lock", "push", "apply", "unlock"}
      PROVE  sha'[d] = Blocks
  BY <1>1, <1>2, <1>3 DEF Sent, Others
<1>4. ASSUME NEW r \in abandoned', r.kind = "apply" PROVE r.content = Blocks
  <2>1. CASE r \in abandoned
    BY <1>4, <2>1 DEF Sent
  <2>2. CASE r \notin abandoned
    <3>1. r \in Leaves(c) /\ RunFails(c)
      BY <2>2 DEF Mine, Step, Begin, Reuse, Download, Open, Write, Close, WriteFails, Chmod,
                  Replace, Lock, Push, Accept, RunFails, Unlock, Confirm, GiveUp, Return
    <3>. QED  BY <1>4, <3>1 DEF Leaves, Sent
  <2>. QED  BY <2>1, <2>2
<1>. QED  BY <1>3, <1>4 DEF Sent

\* A target installs only what has the checksum it was given.
LEMMA NextSent ==
    TypeOK /\ Shape /\ FilesInv /\ SentInv /\ [Next]_vars => SentInv'
<1>. SUFFICES ASSUME TypeOK, Shape, FilesInv, SentInv, [Next]_vars PROVE SentInv'
  OBVIOUS
<1>1. ASSUME NEW c \in Calls, Mine(c) PROVE SentInv'
  <2>. SUFFICES ASSUME "overlap" \notin faults PROVE Sent' /\ OnTarget'
    BY <1>1, OthersStay DEF SentInv
  <2>1. Whole /\ Sent /\ OnTarget
    BY DEF FilesInv, SentInv
  <2>2. Sent'
    BY <1>1, <2>1, StepSent
  <2>3. CASE Accept(c)
    <3>1. sha[c] = Blocks
      BY <2>1, <2>3 DEF Accept, Sent
    <3>. QED  BY <2>1, <2>2, <2>3, <3>1 DEF Accept, OnTarget, TypeOK
  <2>4. CASE ~Accept(c)
    <3>1. installed' = installed /\ running' = running
      BY <1>1, <2>4 DEF Mine, Step, Begin, Reuse, Download, Open, Write, Close, WriteFails,
                        Chmod, Replace, Lock, Push, RunFails, Unlock, Confirm, GiveUp, Return,
                        target
    <3>. QED  BY <2>1, <2>2, <3>1 DEF OnTarget
  <2>. QED  BY <2>3, <2>4
<1>2. ASSUME NEW t \in Targets, Restart(t) PROVE SentInv'
  BY <1>2 DEF Restart, SentInv, Sent, OnTarget, TypeOK
<1>3. CASE Crash
  <2>1. faults' = faults /\ (OnTarget => OnTarget') /\ \A c \in Calls : pc'[c] = "idle"
    BY <1>3 DEF Crash, target, OnTarget
  <2>2. ASSUME Sent, NEW r \in abandoned', r.kind = "apply" PROVE r.content = Blocks
    <3>1. r \in abandoned \/ \E c \in Calls : r \in Leaves(c)
      BY <1>3 DEF Crash
    <3>. QED  BY <2>2, <3>1 DEF Leaves, Sent
  <2>. QED  BY <2>1, <2>2 DEF SentInv, Sent
<1>4. ASSUME NEW r \in abandoned, StageLate(r) \/ ApplyLate(r) PROVE SentInv'
  <2>. SUFFICES ASSUME "overlap" \notin faults PROVE Sent' /\ OnTarget'
    BY <1>4, LateStays DEF SentInv, Late
  <2>1. Sent /\ OnTarget /\ r.target \in Targets
    BY DEF SentInv, TypeOK, Requests
  <2>2. pc' = pc /\ sha' = sha /\ running' = running /\ abandoned' \subseteq abandoned
    BY <1>4 DEF StageLate, ApplyLate
  <2>3. Sent'
    BY <2>1, <2>2 DEF Sent
  <2>4. \A t \in Targets : installed'[t].content = Blocks
    <3>1. CASE StageLate(r)
      BY <2>1, <3>1 DEF StageLate, OnTarget
    <3>2. CASE ApplyLate(r)
      <4>1. r.content = Blocks
        BY <2>1, <3>2 DEF ApplyLate, Sent
      <4>. QED  BY <2>1, <3>2, <4>1 DEF ApplyLate, OnTarget, TypeOK
    <3>. QED  BY <1>4, <3>1, <3>2
  <2>. QED  BY <2>1, <2>2, <2>3, <2>4 DEF OnTarget
<1>5. CASE UNCHANGED vars
  BY <1>5 DEF vars, target, SentInv, Sent, OnTarget
<1>. QED  BY <1>1, <1>2, <1>3, <1>4, <1>5 DEF Next, Mine

\* Nothing was sent initially, and targets run whole programs.
LEMMA InitSent == Init => HolderInv /\ SentInv
BY DEF Init, HolderInv, SentInv, Sent, OnTarget

\* The two readings of the release agree: what a call pushes is what it took
\* the checksum of, when downloads of a version do not overlap.
THEOREM UpgradePushedIsHashed == Spec => PushedIsHashed
<1>1. TypeOK /\ Shape /\ FilesInv /\ SentInv /\ [Next]_vars =>
        [("overlap" \notin faults) =>
           \A c \in Calls : pc[c] = "push" /\ pc'[c] = "apply" =>
               staged'[Target(c)][Version(c)] = sha[c]]_vars
  <2>. SUFFICES ASSUME TypeOK, Shape, FilesInv, SentInv, Next, "overlap" \notin faults,
                       NEW c \in Calls, pc[c] = "push", pc'[c] = "apply"
                PROVE  staged'[Target(c)][Version(c)] = sha[c]
    BY DEF vars
  <2>1. Push(c)
    <3>1. ASSUME NEW d \in Calls, Mine(d) PROVE d = c
      BY <3>1, OthersStay DEF Others
    <3>2. Mine(c)
      BY <3>1, LateStays DEF Next, Mine, Late, Restart, Crash
    <3>. QED  BY <3>2 DEF Mine, Step, Begin, Reuse, Download, Open, Write, Close, WriteFails,
                          Chmod, Replace, Lock, Accept, RunFails, Unlock, Confirm, GiveUp,
                          Return, Goes, TypeOK
  <2>2. /\ Version(c) \in Versions /\ Target(c) \in Targets
        /\ content[final[Version(c)]] = Blocks /\ sha[c] = Blocks
    BY WorksOn DEF Shape, HasRelease, FilesInv, Whole, SentInv, Sent
  <2>3. staged' = [staged EXCEPT ![Target(c)][Version(c)] = Blocks]
    BY <2>1, <2>2 DEF Push
  <2>. QED  BY <2>2, <2>3 DEF TypeOK
<1>. QED  BY <1>1, InitTypes, NextTypes, InitFiles, NextFiles, InitSent, NextSent,
             PTL DEF Spec, PushedIsHashed

\* No target runs half a program, whatever crashes the bridge and whatever pushes
\* reach the target late, when downloads of a version do not overlap.
THEOREM UpgradeTargetRunsWhole == Spec => []TargetRunsWhole
<1>1. SentInv => TargetRunsWhole
  BY DEF TargetRunsWhole, SentInv, OnTarget
<1>. QED  BY <1>1, InitTypes, NextTypes, InitFiles, NextFiles, InitSent, NextSent,
             PTL DEF Spec

----------------------------------------------------------------------------
(* upgrade_run keeps the promise of Distribution                           *)

\* A release that calls have found or made stays one that calls can use, and
\* what is about to be renamed is executable.
Executable ==
    \A c \in Calls :
        /\ HasRelease(c) => Present(Version(c))
        /\ pc[c] = "replace" => tmp[Version(c)] \in exec

\* A release that a target may still be sent stays, too.
Sendable == \A r \in abandoned : Present(r.version)

ExecInv == "overlap" \notin faults => Executable /\ Sendable

\* A step of another call leaves the temporary file of a call that is about to
\* rename it.
LEMMA TmpKept ==
    ASSUME TypeOK, Shape, Apart, NEW c \in Calls, Mine(c), NEW d \in Calls \ {c},
           pc[d] = "replace", tmp[Version(d)] \in exec
    PROVE  tmp'[Version(d)] \in exec' /\ tmp'[Version(d)] = tmp[Version(d)]
<1>1. Version(d) \in Versions /\ tmp[Version(d)] # None
  BY WorksOn, NoneAssumption DEF TypeOK
<1>2. Preparing(c) => Version(c) \in Versions \ {Version(d)}
  BY WorksOn DEF Apart, Preparing
<1>3. ASSUME NEW i \in Inodes, Open(c, i)
      PROVE  tmp'[Version(d)] \in exec' /\ tmp'[Version(d)] = tmp[Version(d)]
  <2>1. Version(c) # Version(d)
    BY <1>2, <1>3 DEF Open, Preparing
  <2>2. CASE tmp[Version(c)] = None
    BY <1>1, <1>3, <2>1, <2>2 DEF Open, TypeOK
  <2>3. CASE tmp[Version(c)] # None
    BY <1>3, <2>3 DEF Open
  <2>. QED  BY <2>2, <2>3
<1>4. CASE Replace(c)
  BY <1>1, <1>2, <1>4 DEF Replace, Preparing, TypeOK
<1>5. CASE Chmod(c)
  BY <1>5 DEF Chmod
<1>6. CASE ~Replace(c) /\ ~Chmod(c) /\ \A i \in Inodes : ~Open(c, i)
  BY <1>6 DEF Mine, Step, Begin, Reuse, Download, Write, Close, WriteFails, Lock, Push,
              Accept, RunFails, Unlock, Confirm, GiveUp, Return, files
<1>. QED  BY <1>3, <1>4, <1>5, <1>6

\* Nothing takes a release away.
LEMMA PresentKept ==
    ASSUME TypeOK, Shape, Executable, NEW c \in Calls, Mine(c),
           NEW v \in Versions, Present(v)
    PROVE  Present(v)'
<1>1. ASSUME NEW i \in Inodes, Open(c, i) PROVE Present(v)'
  BY <1>1 DEF Open, Present
<1>2. CASE Replace(c)
  <2>1. Version(c) \in Versions /\ tmp[Version(c)] \in exec /\ exec' = exec
    BY <1>2, WorksOn DEF Replace, Executable
  <2>. QED  BY <1>2, <2>1 DEF Replace, Present, TypeOK
<1>3. CASE Chmod(c)
  BY <1>3 DEF Chmod, Present
<1>4. CASE ~Replace(c) /\ ~Chmod(c) /\ \A i \in Inodes : ~Open(c, i)
  BY <1>4 DEF Mine, Step, Begin, Reuse, Download, Write, Close, WriteFails, Lock, Push,
              Accept, RunFails, Unlock, Confirm, GiveUp, Return, files, Present
<1>. QED  BY <1>1, <1>2, <1>3, <1>4

\* A call that has just found or made its release has an executable one.
LEMMA StepExecutable ==
    ASSUME TypeOK, Shape, Apart, Executable, NEW c \in Calls, Mine(c)
    PROVE  Executable'
<1>1. Others(c)
  BY OthersStay
<1>2. ASSUME NEW d \in Calls, d # c
      PROVE  /\ HasRelease(d)' => Present(Version(d))'
             /\ pc'[d] = "replace" => tmp'[Version(d)'] \in exec'
  <2>1. HasRelease(d)' => HasRelease(d) /\ Version(d) \in Versions
    BY <1>1, <1>2, WorksOn DEF Others, HasRelease
  <2>2. HasRelease(d)' => Present(Version(d))'
    <3>1. ASSUME NEW v \in Versions, Version(d) = v, HasRelease(d) PROVE Present(Version(d))'
      <4>1. Present(v)'
        BY <3>1, PresentKept DEF Executable
      <4>2. Version(d)' = v
        BY <1>1, <1>2, <3>1 DEF Others
      <4>. QED  BY <4>1, <4>2 DEF Present
    <3>. QED  BY <2>1, <3>1
  <2>3. pc'[d] = "replace" => tmp'[Version(d)'] \in exec'
    BY <1>1, <1>2, TmpKept DEF Others, Executable
  <2>. QED  BY <2>2, <2>3
<1>3. HasRelease(c)' => Present(Version(c))'
  <2>1. CASE Replace(c)
    <3>1. Version(c) \in Versions /\ tmp[Version(c)] \in exec /\ tmp[Version(c)] # None
      BY <2>1, WorksOn, NoneAssumption DEF Replace, Executable, TypeOK
    <3>. QED  BY <2>1, <3>1 DEF Replace, Present, Version, TypeOK
  <2>2. CASE ~Replace(c)
    <3>1. ASSUME HasRelease(c)'
          PROVE  Present(Version(c)) /\ job' = job /\ final' = final /\ exec' = exec
      BY <2>2, <3>1
      DEF Mine, Step, Begin, Reuse, Download, Open, Write, Close, WriteFails, Chmod, Lock,
          Push, Accept, RunFails, Unlock, Confirm, GiveUp, Return, Goes, files, HasRelease,
          Executable, TypeOK
    <3>. QED  BY <3>1 DEF Present, Version
  <2>. QED  BY <2>1, <2>2
<1>4. pc'[c] = "replace" => tmp'[Version(c)'] \in exec'
  <2>1. pc'[c] = "replace" => Chmod(c)
    BY DEF Mine, Step, Begin, Reuse, Download, Open, Write, Close, WriteFails, Replace, Lock,
           Push, Accept, RunFails, Unlock, Confirm, GiveUp, Return, Goes, TypeOK
  <2>2. Chmod(c) /\ pc'[c] = "replace" => tmp'[Version(c)'] \in exec'
    BY DEF Chmod, Goes, Version, TypeOK
  <2>. QED  BY <2>1, <2>2
<1>. QED  BY <1>2, <1>3, <1>4 DEF Executable

\* What a call leaves to its target is of its own version.
LEMMA LeftSendable ==
    ASSUME Executable, NEW c \in Calls, NEW r \in Leaves(c)
    PROVE  Present(r.version)
BY DEF Leaves, Executable, HasRelease, Requests

\* Nothing takes away a release that a target may still be sent.
LEMMA StepSendable ==
    ASSUME TypeOK, Shape, Executable, Sendable, NEW c \in Calls, Mine(c)
    PROVE  Sendable'
<1>. SUFFICES ASSUME NEW r \in abandoned' PROVE Present(r.version)'
  BY DEF Sendable
<1>1. Present(r.version)
  <2>1. CASE r \in abandoned
    BY <2>1 DEF Sendable
  <2>2. CASE r \notin abandoned
    <3>1. r \in Leaves(c)
      BY <2>2 DEF Mine, Step, Begin, Reuse, Download, Open, Write, Close, WriteFails, Chmod,
                  Replace, Lock, Push, Accept, RunFails, Unlock, Confirm, GiveUp, Return
    <3>. QED  BY <3>1, LeftSendable
  <2>. QED  BY <2>1, <2>2
<1>2. r.version \in Versions
  BY NextTypes DEF Next, Mine, TypeOK, Requests
<1>. QED  BY <1>1, <1>2, PresentKept

\* Every step keeps the releases executable.
LEMMA NextExec ==
    TypeOK /\ Shape /\ FilesInv /\ ExecInv /\ [Next]_vars => ExecInv'
<1>. SUFFICES ASSUME TypeOK, Shape, FilesInv, ExecInv, [Next]_vars PROVE ExecInv'
  OBVIOUS
<1>1. ASSUME NEW c \in Calls, Mine(c) PROVE ExecInv'
  BY <1>1, OthersStay, StepExecutable, StepSendable DEF ExecInv, FilesInv
<1>2. ASSUME NEW t \in Targets, Restart(t) PROVE ExecInv'
  BY <1>2 DEF Restart, files, ExecInv, Executable, Sendable, HasRelease, Present, Version
<1>3. CASE Crash
  <2>1. faults' = faults /\ final' = final /\ exec' = exec /\ \A c \in Calls : pc'[c] = "idle"
    BY <1>3 DEF Crash, files
  <2>2. ASSUME Executable, Sendable, NEW r \in abandoned' PROVE Present(r.version)
    <3>1. r \in abandoned \/ \E c \in Calls : r \in Leaves(c)
      BY <1>3 DEF Crash
    <3>. QED  BY <2>2, <3>1, LeftSendable DEF Sendable
  <2>. QED  BY <2>1, <2>2 DEF ExecInv, Executable, Sendable, HasRelease, Present
<1>4. CASE UNCHANGED vars \/ Late
  <2>1. abandoned' \subseteq abandoned
    BY <1>4 DEF vars, Late, StageLate, ApplyLate
  <2>. QED  BY <1>4, <2>1, LateStays
            DEF vars, files, ExecInv, Executable, Sendable, HasRelease, Present, Version
<1>. QED  BY <1>1, <1>2, <1>3, <1>4 DEF Next, Mine, Late

\* What upgrade_run's calls see: the invariants without downloads that overlap.
Sound ==
    /\ TypeOK /\ Shape /\ HolderInv /\ Executable /\ Sendable /\ Sent /\ OnTarget
    /\ Apart /\ Writing /\ Written /\ Separate /\ Whole

\* Where a call goes, its stage goes.
LEMMA StageGoes ==
    ASSUME TypeOK, NEW c \in Calls, NEW where, Goes(c, where)
    PROVE  [d \in Calls |-> Stage(pc[d])]'
             = [[d \in Calls |-> Stage(pc[d])] EXCEPT ![c] = Stage(where)]
<1>1. \A d \in Calls : pc'[d] = IF d = c THEN where ELSE pc[d]
  BY DEF Goes, TypeOK
<1>2. \A d \in Calls : Stage(pc[d])' = IF d = c THEN Stage(where) ELSE Stage(pc[d])
  BY <1>1 DEF Stage
<1>. QED  BY <1>2

\* A release that is there is whole, so it is published.
LEMMA PublishedIsPresent ==
    ASSUME TypeOK, Whole
    PROVE  Published = {v \in Versions : Present(v)}
BY NoneAssumption DEF Published, Present, Whole, TypeOK

\* Only Replace publishes: what another call makes executable is a file that no
\* release is.
LEMMA PublishedKept ==
    ASSUME Sound, TypeOK', Whole', NEW c \in Calls, Mine(c), ~Replace(c)
    PROVE  Published' = Published
<1>1. Published' = {v \in Versions : Present(v)'}
  BY PublishedIsPresent, NoneAssumption DEF Published, Present, Whole, TypeOK
<1>2. Published = {v \in Versions : Present(v)}
  BY PublishedIsPresent DEF Sound
<1>3. ASSUME NEW v \in Versions, Present(v)' PROVE Present(v)
  <2>1. ASSUME NEW i \in Inodes, Open(c, i) PROVE Present(v)
    BY <1>3, <2>1 DEF Open, Present
  <2>2. CASE Chmod(c)
    <3>1. Version(c) \in Versions /\ tmp[Version(c)] # None /\ final' = final
      BY <2>2, WorksOn DEF Chmod, Sound, Written
    <3>2. final[v] # tmp[Version(c)] /\ exec' = exec \cup {tmp[Version(c)]}
      BY <2>2, <3>1 DEF Chmod, Sound, Separate
    <3>. QED  BY <1>3, <3>1, <3>2 DEF Present
  <2>3. CASE ~Chmod(c) /\ \A i \in Inodes : ~Open(c, i)
    BY <1>3, <2>3
    DEF Mine, Step, Begin, Reuse, Download, Write, Close, WriteFails, Lock, Push, Accept,
        RunFails, Unlock, Confirm, GiveUp, Return, files, Present
  <2>. QED  BY <2>1, <2>2, <2>3
<1>4. ASSUME NEW v \in Versions, Present(v) PROVE Present(v)'
  BY <1>4, PresentKept DEF Sound
<1>. QED  BY <1>1, <1>2, <1>3, <1>4

\* What Replace publishes is its version.
LEMMA PublishedGrows ==
    ASSUME Sound, TypeOK', Whole', NEW c \in Calls, Replace(c)
    PROVE  /\ Published' = Published \cup {Version(c)}
           /\ Goes(c, "lock") /\ UNCHANGED <<job, target, Pending>>
<1>1. Version(c) \in Versions /\ tmp[Version(c)] # None /\ tmp[Version(c)] \in exec
  BY WorksOn DEF Replace, Sound, Written, Executable
<1>2. /\ final' = [final EXCEPT ![Version(c)] = tmp[Version(c)]] /\ exec' = exec
      /\ Goes(c, "lock") /\ UNCHANGED <<job, target, Pending>>
  BY <1>1 DEF Replace, Pending
<1>3. \A v \in Versions : Present(v)' <=> v = Version(c) \/ Present(v)
  BY <1>1, <1>2 DEF Present, Sound, TypeOK
<1>4. Published' = {v \in Versions : Present(v)'}
  BY NoneAssumption DEF Published, Present, Whole, TypeOK
<1>5. Published = {v \in Versions : Present(v)}
  BY PublishedIsPresent DEF Sound
<1>. QED  BY <1>1, <1>2, <1>3, <1>4, <1>5

\* The abstract state, but for the stages, stays when these do.
Behind == UNCHANGED <<job, Published, installed, running, Pending>>

\* The contract knows the applies that calls have left to their targets.
LEMMA PendingKept ==
    ASSUME NEW c \in Calls, Mine(c), ~RunFails(c)
    PROVE  Pending' = Pending
BY DEF Pending, Mine, Step, Begin, Reuse, Download, Open, Write, Close, WriteFails, Chmod,
       Replace, Lock, Push, Accept, Unlock, Confirm, GiveUp, Return

\* A call that fails while it applies may leave its request, and no other.
LEMMA PendingGrows ==
    ASSUME TypeOK, Shape, NEW c \in Calls, RunFails(c)
    PROVE  Pending' = Pending \/ (pc[c] = "apply" /\ Pending' = Pending \cup {job[c]})
<1>1. CASE abandoned' = abandoned
  BY <1>1 DEF Pending
<1>2. ASSUME NEW r \in Leaves(c), abandoned' = abandoned \cup {r}
      PROVE  Pending' = Pending \/ (pc[c] = "apply" /\ Pending' = Pending \cup {job[c]})
  <2>1. CASE r.kind = "push"
    BY <1>2, <2>1 DEF Pending
  <2>2. CASE r.kind = "apply"
    <3>1. pc[c] = "apply" /\ [version |-> r.version, target |-> r.target] = job[c]
      BY <2>2 DEF Leaves, Version, Target, Shape, Jobs
    <3>. QED  BY <1>2, <2>2, <3>1 DEF Pending
  <2>3. r.kind \in {"push", "apply"}
    BY DEF Leaves, Requests
  <2>. QED  BY <2>1, <2>2, <2>3
<1>. QED  BY <1>1, <1>2 DEF RunFails

\* A step that keeps every stage is a stutter of the contract.
LEMMA StutterStep ==
    ASSUME TypeOK, NEW c \in Calls, NEW where, Goes(c, where), Stage(where) = Stage(pc[c]),
           Behind
    PROVE  UNCHANGED Contract!vars
<1>1. [d \in Calls |-> Stage(pc[d])]' = [d \in Calls |-> Stage(pc[d])]
  BY StageGoes
<1>. QED  BY <1>1 DEF Behind, Program, Contract!vars, Contract!programs

\* A call that fails, wherever it was, fails in the contract.
LEMMA FailStep ==
    ASSUME TypeOK, NEW c \in Calls, Goes(c, "failed"),
           UNCHANGED <<job, Published, installed, running>>,
           pc[c] \notin {"idle", "upgraded", "failed"},
           Pending' = Pending \/ (pc[c] = "apply" /\ Pending' = Pending \cup {job[c]})
    PROVE  Contract!Next
<1>1. Stage(pc[c]) \in {"asked", "sending", "installed"} /\ Stage("failed") = "failed"
  BY DEF Stage, TypeOK, PCs
<1>2. [d \in Calls |-> Stage(pc[d])]'
        = [[d \in Calls |-> Stage(pc[d])] EXCEPT ![c] = "failed"]
  BY <1>1, StageGoes
<1>3. pc[c] = "apply" => Stage(pc[c]) = "sending"
  BY DEF Stage
<1>4. Contract!Fail(c)
  BY <1>1, <1>2, <1>3 DEF Program, Contract!Fail, Contract!Goes, Contract!programs
<1>. QED  BY <1>4 DEF Contract!Next

\* Begin asks.
LEMMA BeginAsks ==
    ASSUME Sound, TypeOK', Whole', NEW c \in Calls, NEW v \in Versions, NEW t \in Targets,
           Begin(c, v, t)
    PROVE  Contract!Next
<1>1. Published' = Published /\ Pending' = Pending
  BY PublishedKept, PendingKept DEF Mine, Replace, RunFails, Begin
<1>2. /\ Goes(c, "check") /\ Stage(pc[c]) = "idle" /\ Stage("check") = "asked"
      /\ UNCHANGED <<installed, running>>
      /\ job' = [job EXCEPT ![c] = [version |-> v, target |-> t]]
  BY DEF Begin, Stage, target
<1>3. [d \in Calls |-> Stage(pc[d])]'
        = [[d \in Calls |-> Stage(pc[d])] EXCEPT ![c] = "asked"]
  BY <1>2, StageGoes DEF Sound
<1>4. Contract!Ask(c, v, t)
  BY <1>1, <1>2, <1>3 DEF Program, Contract!Ask, Contract!Goes, Contract!programs
<1>. QED  BY <1>4 DEF Contract!Next

\* Replace publishes.
LEMMA ReplacePublishes ==
    ASSUME Sound, TypeOK', Whole', NEW c \in Calls, Replace(c)
    PROVE  Contract!Next
<1>1. /\ Published' = Published \cup {Version(c)}
      /\ Goes(c, "lock") /\ UNCHANGED <<job, installed, running, Pending>>
  BY PublishedGrows DEF target
<1>2. Stage(pc[c]) = "asked" /\ Stage("lock") = "asked"
  BY DEF Replace, Stage
<1>3. [d \in Calls |-> Stage(pc[d])]' = [d \in Calls |-> Stage(pc[d])]
  BY <1>1, <1>2, StageGoes DEF Sound
<1>4. Contract!Publish(c)
  BY <1>1, <1>2, <1>3 DEF Program, Version, Contract!Publish, Contract!programs
<1>. QED  BY <1>4 DEF Contract!Next

\* Lock begins to send: the release is published, and no other call sends to
\* the target, or it would be the holder.
LEMMA LockSends ==
    ASSUME Sound, NEW c \in Calls, Lock(c), Published' = Published
    PROVE  Contract!Next
<1>1. UNCHANGED <<job, installed, running, Pending>> /\ pc[c] = "lock"
  BY DEF Lock, target, Pending
<1>2. CASE holder[Target(c)] = None
  <2>1. Goes(c, "push") /\ Stage(pc[c]) = "asked" /\ Stage("push") = "sending"
    BY <1>1, <1>2 DEF Lock, Stage
  <2>2. [d \in Calls |-> Stage(pc[d])]'
          = [[d \in Calls |-> Stage(pc[d])] EXCEPT ![c] = "sending"]
    BY <2>1, StageGoes DEF Sound
  <2>3. Version(c) \in Published
    <3>1. Version(c) \in Versions /\ Present(Version(c))
      BY <1>1, WorksOn DEF Sound, Executable, HasRelease
    <3>. QED  BY <3>1, PublishedIsPresent DEF Sound
  <2>4. ASSUME NEW d \in Calls, Stage(pc[d]) = "sending" PROVE Target(d) # Target(c)
    <3>1. pc[d] \in {"push", "apply"}
      BY <2>4 DEF Stage, Sound, TypeOK, PCs
    <3>. QED  BY <1>2, <3>1, NoneAssumption DEF Sound, HolderInv
  <2>5. Contract!Send(c)
    BY <1>1, <2>1, <2>2, <2>3, <2>4
    DEF Program, Version, Target, Contract!Send, Contract!Goes, Contract!programs
  <2>. QED  BY <2>5 DEF Contract!Next
<1>3. CASE holder[Target(c)] # None
  BY <1>1, <1>3, FailStep DEF Lock, Sound
<1>. QED  BY <1>2, <1>3

\* A target that accepts has the whole release.
LEMMA AcceptInstalls ==
    ASSUME Sound, NEW c \in Calls, Accept(c), Published' = Published
    PROVE  Contract!Next
<1>1. /\ Goes(c, "unlock") /\ Stage(pc[c]) = "sending" /\ Stage("unlock") = "installed"
      /\ UNCHANGED <<job, running, Pending>> /\ sha[c] = Blocks
  BY DEF Accept, Stage, Sound, Sent, Pending
<1>2. [d \in Calls |-> Stage(pc[d])]'
        = [[d \in Calls |-> Stage(pc[d])] EXCEPT ![c] = "installed"]
  BY <1>1, StageGoes DEF Sound
<1>3. \A t \in Targets :
        Program(installed[t])' = IF t = Target(c) THEN Version(c) ELSE Program(installed[t])
  BY <1>1 DEF Accept, Program, Sound, TypeOK
<1>4. [t \in Targets |-> Program(installed[t])]'
        = [[t \in Targets |-> Program(installed[t])] EXCEPT ![Target(c)] = Version(c)]
  BY <1>3
<1>5. Contract!Install(c)
  BY <1>1, <1>2, <1>4 DEF Program, Version, Target, Contract!Install, Contract!Goes
<1>. QED  BY <1>5 DEF Contract!Next

\* A call that answers "upgraded" has seen its target run the whole release.
LEMMA ConfirmConfirms ==
    ASSUME Sound, NEW c \in Calls, Confirm(c), Published' = Published
    PROVE  Contract!Next
<1>1. /\ Goes(c, "upgraded") /\ Stage(pc[c]) = "installed" /\ Stage("upgraded") = "upgraded"
      /\ Behind /\ running[Target(c)].version = Version(c) /\ Target(c) \in Targets
  BY WorksOn DEF Confirm, Stage, Behind, Pending, target, Sound
<1>2. [d \in Calls |-> Stage(pc[d])]'
        = [[d \in Calls |-> Stage(pc[d])] EXCEPT ![c] = "upgraded"]
  BY <1>1, StageGoes DEF Sound
<1>3. Program(running[Target(c)]) = Version(c)
  BY <1>1 DEF Program, Sound, OnTarget
<1>4. Contract!Confirm(c)
  BY <1>1, <1>2, <1>3
  DEF Behind, Program, Version, Target, Contract!Confirm, Contract!Goes, Contract!programs
<1>. QED  BY <1>4 DEF Contract!Next

\* Return returns.
LEMMA ReturnReturns ==
    ASSUME Sound, NEW c \in Calls, Return(c), Published' = Published
    PROVE  Contract!Next
<1>1. /\ Goes(c, "idle") /\ Stage(pc[c]) \in {"upgraded", "failed"} /\ Stage("idle") = "idle"
      /\ UNCHANGED <<installed, running, Pending>> /\ job' = [job EXCEPT ![c] = None]
  BY DEF Return, Stage, target, Pending
<1>2. [d \in Calls |-> Stage(pc[d])]'
        = [[d \in Calls |-> Stage(pc[d])] EXCEPT ![c] = "idle"]
  BY <1>1, StageGoes DEF Sound
<1>3. Contract!Return(c)
  BY <1>1, <1>2 DEF Program, Contract!Return, Contract!Goes, Contract!programs
<1>. QED  BY <1>3 DEF Contract!Next

\* Every step of a call is one of the contract, or none.
LEMMA StepContract ==
    ASSUME Sound, TypeOK', Whole', NEW c \in Calls, Mine(c)
    PROVE  [Contract!Next]_(Contract!vars)
<1>1. CASE Replace(c) \/ \E v \in Versions, t \in Targets : Begin(c, v, t)
  BY <1>1, BeginAsks, ReplacePublishes
<1>2. CASE ~Replace(c) /\ Step(c)
  <2>. DEFINE goes(where) == Goes(c, where) /\ Stage(where) = Stage(pc[c])
  <2>1. Published' = Published
    BY <1>2, PublishedKept
  <2>2. CASE Lock(c) \/ Accept(c) \/ Confirm(c) \/ Return(c)
    BY <2>1, <2>2, LockSends, AcceptInstalls, ConfirmConfirms, ReturnReturns
  <2>3. CASE WriteFails(c) \/ RunFails(c) \/ GiveUp(c)
    <3>1. /\ Goes(c, "failed") /\ pc[c] \notin {"idle", "upgraded", "failed"}
          /\ UNCHANGED <<job, Published, installed, running>>
      BY <2>1, <2>3 DEF WriteFails, RunFails, GiveUp, target
    <3>2. Pending' = Pending \/ (pc[c] = "apply" /\ Pending' = Pending \cup {job[c]})
      BY PendingKept, PendingGrows DEF Sound
    <3>. QED  BY <3>1, <3>2, FailStep DEF Sound
  <2>4. CASE Download(c) \/ Chmod(c)
    <3>1. Behind /\ pc[c] \in {"check", "chmod"}
      BY <2>1, <2>4 DEF Download, Chmod, Behind, Pending, target
    <3>2. Goes(c, "failed") \/ goes("open") \/ goes("replace")
      BY <2>4 DEF Download, Chmod, Stage
    <3>. QED  BY <3>1, <3>2, FailStep, StutterStep DEF Sound, Behind
  <2>5. CASE Write(c)
    <3>1. Behind /\ pc' = pc
      BY <2>1, <2>5 DEF Write, Behind, Pending, target
    <3>. QED  BY <3>1 DEF Behind, Stage, Program, Contract!vars, Contract!programs
  <2>6. CASE Reuse(c) \/ Close(c) \/ Push(c) \/ Unlock(c) \/ \E i \in Inodes : Open(c, i)
    <3>1. Behind
      BY <2>1, <2>6 DEF Reuse, Close, Push, Unlock, Open, Behind, Pending, target
    <3>2. goes("lock") \/ goes("chmod") \/ goes("apply") \/ goes("poll") \/ goes("write")
      BY <2>6 DEF Reuse, Close, Push, Unlock, Open, Stage
    <3>. QED  BY <3>1, <3>2, StutterStep DEF Sound
  <2>. QED  BY <1>2, <2>2, <2>3, <2>4, <2>5, <2>6 DEF Step
<1>. QED  BY <1>1, <1>2 DEF Mine

\* A push that reaches its target late is none, and an apply is the one that the
\* contract knows.
LEMMA LateContract ==
    ASSUME Sound, NEW r \in abandoned, StageLate(r) \/ ApplyLate(r)
    PROVE  [Contract!Next]_(Contract!vars)
<1>1. UNCHANGED <<pc, job, final, exec, content, running>> /\ abandoned' = abandoned \ {r}
  BY LateStays DEF Late, StageLate, ApplyLate
<1>2. Published' = Published /\ [c \in Calls |-> Stage(pc[c])]' = [c \in Calls |-> Stage(pc[c])]
  BY <1>1 DEF Published, Present, Stage
<1>3. CASE StageLate(r)
  <2>1. Pending' = Pending /\ installed' = installed
    BY <1>1, <1>3 DEF StageLate, Pending
  <2>. QED  BY <1>1, <1>2, <2>1 DEF Program, Contract!vars, Contract!programs
<1>4. CASE ApplyLate(r)
  <2>. DEFINE p == [version |-> r.version, target |-> r.target]
  <2>1. /\ r.target \in Targets /\ r.version \in Versions
        /\ r.kind = "apply" /\ r.content = Blocks
    BY <1>4 DEF ApplyLate, Sound, Sent, TypeOK, Requests
  <2>2. Pending' = Pending \ {p}
    <3>1. ASSUME NEW s \in abandoned, s.kind = "apply",
                 [version |-> s.version, target |-> s.target] = p
          PROVE  s = r
      <4>1. s \in Requests /\ r \in Requests /\ s.content = Blocks
        BY <3>1 DEF Sound, Sent, TypeOK
      <4>. QED  BY <2>1, <3>1, <4>1 DEF Requests
    <3>. QED  BY <1>1, <3>1 DEF Pending
  <2>3. p \in Pending /\ r.version \in Published
    BY <2>1, PublishedIsPresent DEF Pending, Sound, Sendable
  <2>4. \/ installed' = installed
        \/ installed' = [installed EXCEPT ![r.target] =
                             [version |-> r.version, content |-> Blocks]]
    BY <1>4, <2>1 DEF ApplyLate
  <2>5. \/ [t \in Targets |-> Program(installed[t])]' = [t \in Targets |-> Program(installed[t])]
        \/ [t \in Targets |-> Program(installed[t])]'
             = [[t \in Targets |-> Program(installed[t])] EXCEPT ![r.target] = r.version]
    <3>1. CASE installed' = installed
      BY <3>1 DEF Program
    <3>2. CASE installed' = [installed EXCEPT ![r.target] =
                                [version |-> r.version, content |-> Blocks]]
      <4>1. \A t \in Targets : Program(installed[t])' =
                               IF t = r.target THEN r.version ELSE Program(installed[t])
        BY <2>1, <3>2 DEF Program, Sound, TypeOK
      <4>. QED  BY <4>1
    <3>. QED  BY <2>4, <3>1, <3>2
  <2>6. Contract!InstallLate(p)
    BY <1>1, <1>2, <2>2, <2>3, <2>5 DEF Program, Contract!InstallLate
  <2>. QED  BY <2>3, <2>6 DEF Contract!Next
<1>. QED  BY <1>3, <1>4

\* So are a target's restart and the bridge's.
LEMMA NextContract ==
    ASSUME Sound, TypeOK', Whole', [Next]_vars
    PROVE  [Contract!Next]_(Contract!vars)
<1>1. ASSUME NEW c \in Calls, Mine(c) PROVE [Contract!Next]_(Contract!vars)
  BY <1>1, StepContract
<1>2. ASSUME NEW t \in Targets, Restart(t) PROVE [Contract!Next]_(Contract!vars)
  <2>1. UNCHANGED <<pc, job, installed, final, exec, content, abandoned>>
    BY <1>2 DEF Restart, files
  <2>2. \A u \in Targets :
          Program(running[u])' = IF u = t THEN Program(installed[t]) ELSE Program(running[u])
    BY <1>2 DEF Restart, Program, Sound, TypeOK
  <2>3. Contract!Restart(t)
    BY <2>1, <2>2 DEF Stage, Published, Present, Program, Pending, Contract!Restart
  <2>. QED  BY <2>3 DEF Contract!Next
<1>3. CASE Crash
  <2>1. /\ UNCHANGED <<installed, running, final, exec, content>>
        /\ pc' = [c \in Calls |-> "idle"] /\ job' = [c \in Calls |-> None]
    BY <1>3 DEF Crash, files, target
  <2>2. PICK R \in SUBSET UNION {Leaves(c) : c \in Calls} : abandoned' = abandoned \cup R
    BY <1>3 DEF Crash
  <2>. DEFINE P == {[version |-> r.version, target |-> r.target] :
                      r \in {s \in R : s.kind = "apply"}}
  <2>3. Pending' = Pending \cup P
    BY <2>2 DEF Pending
  <2>4. P \subseteq {job[c] : c \in {d \in Calls : Stage(pc[d]) = "sending"}}
    <3>. SUFFICES ASSUME NEW r \in R, r.kind = "apply"
                  PROVE  \E c \in Calls : /\ Stage(pc[c]) = "sending"
                                          /\ job[c] = [version |-> r.version, target |-> r.target]
      OBVIOUS
    <3>1. PICK c \in Calls : r \in Leaves(c)
      BY <2>2
    <3>2. pc[c] = "apply" /\ job[c] \in Jobs
      BY <3>1 DEF Leaves, Sound, Shape
    <3>. QED  BY <3>1, <3>2 DEF Leaves, Version, Target, Jobs, Stage
  <2>5. Contract!Crash
    BY <2>1, <2>3, <2>4 DEF Stage, Published, Present, Program, Contract!Crash,
                            Contract!programs
  <2>. QED  BY <2>5 DEF Contract!Next
<1>4. ASSUME NEW r \in abandoned, StageLate(r) \/ ApplyLate(r)
      PROVE  [Contract!Next]_(Contract!vars)
  BY <1>4, LateContract
<1>5. CASE UNCHANGED vars
  BY <1>5 DEF vars, files, target, Stage, Published, Present, Program, Pending, Contract!vars,
              Contract!programs
<1>. QED  BY <1>1, <1>2, <1>3, <1>4, <1>5 DEF Next, Mine

\* Initially no call is under way and nothing is published.
LEMMA InitContract == Init => Contract!Init
<1>. SUFFICES ASSUME Init PROVE Contract!Init
  OBVIOUS
<1>1. Published = {} /\ Pending = {}
  BY NoneAssumption DEF Init, Published, Present, Pending
<1>2. \A t \in Targets :
        Program(installed[t]) \in Versions \cup {None} /\ running[t] = installed[t]
  BY DEF Init, Program
<1>. QED  BY <1>1, <1>2 DEF Init, Stage, Contract!Init

\* A scenario lasts.
LEMMA ScenarioLasts == TypeOK /\ [Next]_vars => faults' = faults
<1>. SUFFICES ASSUME TypeOK, [Next]_vars PROVE faults' = faults
  OBVIOUS
<1>1. ASSUME NEW c \in Calls, Mine(c) PROVE faults' = faults
  BY <1>1, OthersStay
<1>2. ASSUME NEW t \in Targets, Restart(t) PROVE faults' = faults
  BY <1>2 DEF Restart
<1>. QED  BY <1>1, <1>2, LateStays DEF Next, Mine, Late, Crash, vars

\* upgrade_run keeps the promise of Distribution, whatever crashes the bridge and
\* however targets and downloads fail, when downloads of a version do not overlap.
THEOREM UpgradeImplementsDistribution == Spec => ImplementsDistribution
<1>. DEFINE Inv == /\ TypeOK /\ Shape /\ HolderInv /\ FilesInv /\ SentInv /\ ExecInv
            IsPromised == [("overlap" \notin faults) => Contract!Next]_(Contract!vars)
<1>1. Init => Inv /\ Contract!Init
  BY InitTypes, InitFiles, InitSent, InitContract
  DEF Init, ExecInv, Executable, Sendable, HasRelease
<1>2. Inv /\ [Next]_vars => Inv'
  BY NextTypes, NextHolder, NextFiles, NextSent, NextExec
<1>3. Inv /\ "overlap" \notin faults => Sound
  BY DEF Sound, FilesInv, SentInv, ExecInv
<1>4. Inv /\ Inv' /\ [Next]_vars => IsPromised
  <2>. SUFFICES ASSUME Inv, Inv', [Next]_vars, "overlap" \notin faults
                PROVE  [Contract!Next]_(Contract!vars)
    OBVIOUS
  <2>1. Whole'
    BY ScenarioLasts DEF FilesInv
  <2>. QED  BY <1>3, <2>1, NextContract
<1>. QED  BY <1>1, <1>2, <1>4, PTL DEF Spec, ImplementsDistribution

============================================================================
