# A TLA+ model of mcp_socket_server

`mcp_socket_server` is a bridge: agents call its MCP tools, and each tool call
runs one operation on several *targets* (test machines that run a
`socket_server`) over TCP.  The bridge runs the calls of several agents at the
same time, one executor thread for each target of each call.  What has to be
right is that those threads share the targets, their locks and their
connections without losing, doubling or mixing up anything when a target is
slow, fails, restarts or never answers.

This directory holds the modules, the TLC configurations that check them on
small instances, and the theorems TLAPS proves about them for every instance.
All source paths below are relative to `src/mcp_socket_server/`.

## 1. Inventory

| Component | State | Operations | What makes it correct |
|---|---|---|---|
| Lock manager (`locks.py`) | per target: capture keys, exclusive holder and its count | acquire, release, has_active | captures and exclusive operations exclude each other; nothing leaks |
| Write tools (`server.py`, `_run_batch`, `capture_stop`) | locals of each run_one: lock taken, client, healthy, ok | lock, borrow, run, release, unlock | each path frees exactly what it took; a capture session keeps its lock |
| Connection pool (`pool.py`, `TargetPool`) | idle list, in-use counter, condition | acquire, release, close_all | the limit holds; no slot, client, socket or wake-up is lost |
| Scheduler (`pool.py`) | the singleton, a pool for each `host:port`, the shared executor | get_scheduler, get_pool, batch, session | one pool per target for all calls; no call waits for ever |
| Protocol client (`socket_client.py`) | socket, timeout | one method per request | the answer a call accepts is its own |
| Registry (`registry.py`) | a row for each `host:port`, with tags and the listener flag | add, remove, list, resolve, set/get listener flag | the flag follows the listener; a target that listens is not removed; a tag that names a host twice does no harm |
| Upgrades (`upgrades.py`, `upgrade_run`) | the release files, the target's staging directory and version; failure streak, daily thread | fetch, download, push, apply, poll | only a whole release is reused, pushed and run; every call ends |
| Audit (`audit.py`) | one table | write, clean up | the record of a call agrees with its reply (not modelled) |
| Configuration, transport, entry points | none | read a file, start HTTP | input and output |
| file_transfer | none | composes a command as text | |

How they interact: a tool resolves its targets in the registry, gets the
scheduler, and runs one task for each target (reads on the scheduler's
executor, writes on one made for the call); the task takes the target's lock
(fail-fast), borrows a client from the target's pool (waiting up to
`BORROW_TIMEOUT`), makes one or more round trips, returns the client as healthy
or not, and frees the lock.  The two calls of a capture session share only the
lock: `capture_start` keeps it and `capture_stop`, which takes none, removes it.
`remove_target` asks the lock manager and the listener flag, which
`socket_listen` keeps.  `upgrade_run` shares the release files with other calls
and, under the target's lock, the target's staging directory.  The audit log
hears of most calls at their end.

All of this supposes that calls run at the same time.  `server.py:3` says that
FastMCP runs synchronous tools in a thread pool; FastMCP is outside this
repository, and where it does run them one after another, the modules describe
more than can happen.

What is hard here: (a) the lock of a session outlives the thread that took it
and is freed by key, not by owner; (b) a client that gives up does not stop the
target, which goes on; (c) acquire and release are each a section under the
pool's condition *and* input or output outside it; (d) answers carry no
identifier, so a healthy connection is one with nothing outstanding on it;
(e) each step can fail, and each failure has its own clean-up path; (f) files
are shared by name, and a name changes its file while others write it; (g)
calls share threads and connections, and wait for each other.
`PROJECT.json` lists the hazards line by line with the properties that cover
them.  For some no property does, because the code has no answer to them that a
property could state; their notes say so.

## 2. Modules

| Module | Content |
|---|---|
| `TargetLocks` | the lock manager: its state and operations, without callers |
| `BatchRun` | the workers that use it, the agents' calls and the target; properties |
| `TargetArbiter` | abstract: sessions or one exclusive operation per target |
| `MCBatchRun` | bounds for TLC |
| `BatchRun_proofs` | inductive invariants and theorems |
| `BatchArbiter_proofs` | `BatchRun` implements `TargetArbiter`; what the target runs is what the locks allow |
| `TargetPool` | one connection pool and the threads that use it; properties |
| `BoundedPool` | abstract: a bounded number of users, each connection lent once |
| `MCTargetPool` | bounds for TLC |
| `TargetPool_proofs` | inductive invariant and theorems |
| `PoolOwnership_proofs` | each client in one place; `TargetPool` implements `BoundedPool` |
| `Conversation` | requests and answers on one pooled connection |
| `MCConversation` | bounds for TLC |
| `Conversation_proofs` | inductive invariant and theorems |
| `TargetRegistry` | rows and listener flags, `remove_target` and `socket_listen` over the locks; properties |
| `MCTargetRegistry`, `TargetRegistry_proofs` | bounds for TLC; inductive invariant and theorems |
| `Upgrade` | `upgrade_run`: release files, locks, targets; crashes; properties |
| `Distribution` | abstract: releases are published, sent to one target by one call at a time, installed, confirmed |
| `MCUpgrade`, `Upgrade_proofs` | bounds for TLC; inductive invariants and theorems; `Upgrade` implements `Distribution` |
| `ToolCall` | calls over several targets, the scheduler and its executors, the locks the tasks take, keep and free; properties |
| `HostAccess` | abstract: one piece of work per host of a call, within the host's connections, claims and captures |
| `MCToolCall`, `ToolCall_proofs` | bounds for TLC; inductive invariant and theorems; `ToolCall` implements `HostAccess` |

`BatchRun`, `TargetRegistry` and `ToolCall` extend `TargetLocks`, so that the
same lock manager stands in all three.  Four abstract specifications say what a
component promises, and are instantiated with a refinement mapping in the module
that keeps the promise: `TargetArbiter` in `BatchRun`, `BoundedPool` in
`TargetPool`, `Distribution` in `Upgrade`, `HostAccess` in `ToolCall`.  Every module
a theorem is about is free of recursive operators.

Comments marked *Faulty variant* stand before an operator that changes the next
one the way a plausible bug would.  No action uses them; they are what each
property has been tested against (the mutants of `PROJECT.json`).

### TargetLocks and BatchRun

`locks[t]` is the `TargetLock` of target `t`; each of its methods runs under its
own mutex, so each is one step.  Targets are the lock manager's keys: the
strings that resolution returns.  `LockClass.FILE_IO` is used by no tool;
the exclusive classes are a constant.

A worker is one executor thread.  Its `pc` follows `run_one`:

| pc | in the code |
|---|---|
| `lock` | before `lock_mgr.acquire` |
| `borrow` | before `pool.acquire` (where `capture_stop` and read-only tools begin) |
| `sent` | the request is at the target, the worker in `recv` |
| `served` | the target has answered, the worker has not read it |
| `unlock` | in the `finally` block |

| Action | Code |
|---|---|
| `Call` | a tool submits run_one for one target |
| `Lock`, `Conflict` | `lock_mgr.acquire`, `LockConflict` |
| `Borrow`, `BorrowFails` | `pool.acquire`; the failure path frees the lock in `_run_batch` and not in `capture_stop` |
| `Receive`, `TimeOut` | `fn(client)` returns or raises |
| `Unlock` | the `finally` block: the client goes back, the lock is freed or kept |
| `Serve`, `ServeDetached` | the target (external) |

The pool is reduced to whether a borrow succeeds, the target to the captures it
runs (`capturing`) and the requests it works on though nobody waits for them
(`detached`, a set: two equal abandoned requests are one).  `sessions` is what
the agent may rely on: the paths whose start returned ok and for which no stop
has been called since.  `lost`, which no action reads, is what the bridge cannot
rely on: the paths of starts and stops that were given up and of stops the target
answered with an error, until a stop of the path succeeds.

The constant `Faults` says which unusual steps a run allows, so that a run can
state under which conditions a property holds and another can show what happens
without one of them.  `lateStop` is an agent that starts a session while a stop
of the same path, called before, is still running; `earlyStop` one that stops a
path while a start of it is running.

Tools with `LockClass.NONE` and batches of several targets are workers like any
other.  What the calling thread does is in `ToolCall`.

### TargetPool

One step for each section under the condition: `Enter` (first test of the
`while` loop and, if a slot is free, the pop loop and the increment), `Recheck`
(the same after a wake-up, with the deadline), `ReleaseHealthy`,
`ReleaseUnhealthy`, `ConnectFails`, `CloseAll`.  Outside it, one step for each
connect, each close and each hand-out.  A waiter that has been notified is
`woken` and competes for the lock with threads that come anew, as with a Python
condition.  `acquire` puts expired clients into `closing[th]` and closes them
one by one before it returns.

Time is two facts: whether an idle entry is older than `IDLE_TIMEOUT` (`old`),
and which waiters' deadlines have passed (`late`).  Entries age in the order of
their release.  The socket timeout that `acquire` writes to a reused client is
left out: no property depends on it.  `close_all` is called by tests only; it
may run at any time in the model.

`sock[c]` is `open`, `closed` (the client's own `close`) or `dead` (the target
has gone).  A use ends well only on an open socket.  `Uses` says how uses may
end; `selfClose` is `upgrade_run`, which closes its client and returns it as
healthy.

### Conversation

One connection, and one call on it at a time, as the pool guarantees
(`OwnedOnce`).  A tool is the list of requests it sends (`Script`): all tools that
talk to targets are there, `socket_listen` once for each action.  An answer is
the shape the readers can tell apart (`Shape`); `Accepts` is what the reader of
one kind of request makes of an answer of some shape, own or not: a success, a
failure it reports, or an exception, which any answer may turn out to be.  An
answer arrives whole.  `_recv_until_timeout` takes all there is, `_recv_n` one frame.
`last` records whether the answers the last call took were its own.  The
connection a call finds closed is replaced; what the pool does in between is
`TargetPool`'s matter.

### TargetRegistry

Rows are keyed by host and port (`registered`), locks by host alone.  Each
method of `Registry` is one SQL statement under a mutex and one step.

| Action | Code |
|---|---|
| `Add` | `add_target`: `INSERT OR IGNORE` |
| `Begin` | `remove_target`, or a run_one of `socket_listen` start or stop, begins |
| `Pass`, `Refuse`, `Delete` | the two tests of `remove_target` and its deletion, three steps with nothing held from one to the next (`Passes` is the test that is due) |
| `Lock`, `Conflict`, `Unlock` | the SYSTEM lock around fn |
| `Serve`, `Fails` | the target's answer, or the exception |
| `WriteFlag` | `set_listen_liveness`, an UPDATE: without a row it does nothing |
| `OtherTool` | other classes and captures take and free the host's lock |
| `TargetRestarts`, `BridgeRestarts` | the listener is gone; the locks and calls are gone, the rows are not |

`listening` is what the targets do, `flagged` what the bridge believes, and
`watched` the removes whose target has been listening ever since they began.
`Modern` are the targets of version 1.7.1 or later: others cannot stop listening
and get no flag.  The version probe of a start is part of `Serve` and
`WriteFlag`; its lost answer is `Fails` (the start's success is no matter here).

### Upgrade

A call of `upgrade_run` with one target.  Paths name inodes: `final[v]` and
`tmp[v]` are the files now at `socket_server` and `socket_server.tmp` of a
version, `fd[c]` the one call `c` has open, whatever its name is by now.  A
file's content is the set of blocks written so far (`FileSize` of them), a
checksum the content it was taken of, and `exec` the files with mode 755, which
is what `ensure_release_binary` takes a finished release by.

| Action | Code |
|---|---|
| `Begin` | version given or queried, `ensure_release_binary` called |
| `Reuse` | the file is there: hash it |
| `Download` | get the release and its checksum, compare; or fail |
| `Open`, `Write`, `Close`, `WriteFails` | `open(tmp, "wb")`, the write, block by block, and its failure |
| `Chmod`, `Replace` | `os.chmod`, `os.replace`, by name: they fail when another call has renamed the file |
| `Lock`, `Push`, `Accept`, `RunFails`, `Unlock` | `_run_batch` with the SYSTEM lock around push and dt20; a call that gives up frees the lock and may leave its request to the target (`Leaves`) |
| `StageLate`, `ApplyLate` | the target carries out what a call left to it (external) |
| `Confirm`, `GiveUp`, `Return` | the poll, its deadline, the reply |
| `Restart` | the target's service starts what is installed (external) |
| `Crash` | the bridge ends and starts: files stay as they are, and so does what targets were asked for |

`abandoned` are the requests that no call waits for: a push that was given up, of
which the whole file or a part has reached the target, and a dt20 with its
checksum.  The target carries each out later or never, and installs only what
agrees with the checksum at that time.

`Distribution` knows neither files nor locks nor checksums.  A version is
`Published` when a whole, executable release stands under its name, and stays so;
a call is `sending` from its lock to the target's answer, and one call at a
time is, for each target.  A call that fails while it sends may leave its request
in `late`, and the target may install it when it likes (`InstallLate`).  What a target has installed or runs counts as the
version it claims only if it is whole (`Program`), so that a step which installs
half a program is no step of `Distribution`.  Where downloads of a version overlap,
half a release may indeed be sent, so `ImplementsDistribution` asks of the steps
only where they do not.  `Confirm` is what `"upgraded": True` in
the reply promises: the call has installed the version, and the target runs it
when the poll looks.

### ToolCall

A call resolves its request (`Resolve`), finds or creates the scheduler in two
steps, submits a task per host, collects and replies.  `task[<<c, i>>]` is
the task of call `c` for its `i`-th host, `"absent"` outside the time from the
fan-out to the reply.  `queue[e]` and
`Busy(e)` are the waiting and running work of an executor: `<<"shared", s>>` of
scheduler `s`, which reads use, or `<<"own", c>>` of call `c`.  A task takes
its lock (unless it reads or is `capture_stop`), borrows, calls and gives back in
one step (`Perform`), and unlocks (`Finish`), as in `BatchRun`; here the pools are
counters, `lent[s][t]`, and every call may find itself waiting.  `capture_start`
takes the lock of its path (`Free`, `Acquire`) and keeps it when it succeeded,
`capture_stop` takes it out (`Release`).  A tag stands for one host per row, so that a
request may name a host twice (`Tables`).

`Init` has no scheduler; a new one gets a name that no other call's has
(`NewScheduler`).  `alone` are the calls during which nobody else called, on hosts
nobody captured when they began.

`HostAccess` knows neither schedulers, executors and queues nor pools and locks.
A call's piece of work for a host is `connected` from the borrow to the give-back
and decided then; it is claimed from the lock to the release (`Inside`).  A piece
may fail before it is connected only for a reason (`Refuse`): hosts may fail,
another piece has claimed the host, the path is captured (or, for an exclusive
tool, any path is), or the host serves `MaxConn` pieces.  `captured` is the lock
manager's set of paths: a claim of a capture adds to it, a failed one and a stop
take out of it.  The variables `bounded` and `failing` never change: they say whether the scenario has
one scheduler, and whether hosts fail.

### Scenarios

`Faults` of `BatchRun` is a constant.  In the three later modules `faults` is a
variable that `Init` chooses from `Scenarios` and no step changes, so that one
run covers several sets of faults and a property names those it needs to be
absent (`"overlap" \notin faults => ...`).  With such a fault the property
does fail, and section 3 says where that is a disagreement.

## 3. Runs

| Run | Bounds | States | Shows |
|---|---|---|---|
| `batch_locks` | 2 workers, 1 target, 1 path, 2 classes; all faults but stops without a connection; fair | 116,800 | locks are accounted for and freed, calls return |
| `target_exclusion` | 2 workers, 1 target, 2 paths, 2 classes; all faults but overlapping starts and stops | 309,708 | sessions keep their locks; what the target really runs; refinement of `TargetArbiter` |
| `pool` | 3 threads, 2 slots, 4 clients; fair | 329,152 | accounting of slots, clients, sockets, wake-ups; every acquire ends; refinement of `BoundedPool` |
| `conversation` | 15 tools, 8 requests | 1,031 | pooled connections stay in step |
| `registry` | 3 workers, 1 host with 2 ports, one of them old, 1 path, 2 classes; no fault, restarting targets, or all faults | 162,888 | the flag follows the listener; remove spares listeners |
| `upgrade` | 2 calls, 1 target, 1 version, 4 inodes, 2 blocks; crashes and late requests, or overlapping downloads; fair | 273,920 | releases and targets' programs are whole; calls return; refinement of `Distribution` |
| `tool_call` | 2 calls, 1 host, a tag with two rows or none, 2 threads per executor, 1 connection; 1 path; a race for the scheduler or failing hosts; fair | 442,345 | shared threads and connections; what is kept and what is not; freedom from deadlock; refinement of `HostAccess` |

Why the bounds are enough.  Locks and pools of different targets share nothing,
so one target is enough (and the theorems hold for any number).  In
`batch_locks` two workers and one path already give every conflict, abandoned
request and overlapping stop that its properties speak of, with nearly every
fault and with liveness, and the safety half of it is proved for any number.
In `target_exclusion` two workers allow a conflict, while abandoned requests and
commands in the background act as the third; two paths allow captures beside each
other; two classes allow a release with the wrong class.  In the pool, three threads on two slots allow two
users and a waiter; with four clients a fresh one is left when a connect needs
one.  In a conversation a stale answer is at most as old as the requests of two
calls; eight requests give four to eight calls.  When the bound is reached
nothing new begins, which is why that run does not check for deadlock; all
others do.  In `registry` three workers are a start, a stop and a remove at the
same time; two ports share one host's lock.  In `upgrade` two calls are the two
who overlap, and can be a writer and a reader of the same release; four inodes
are the two names and two open files that have lost theirs; two blocks make the
half file, and a push that was given up makes the third party at the target.
In `tool_call` one connection for up to four tasks makes calls wait
for each other, a tag with two rows makes a call meet itself, and one with none
an empty call; its two scenarios leave the other fault out, and as no fault forces
a step, each contains the behaviours without any.  Symmetry is used in
safety runs only.

Two runs of disagreements have bounds of their own.  `stop_overlaps_start` begins
with an open session (`InitInSession`), because the shortest way to a lock freed
by a stop of the past is otherwise a stop called before there was any session.
`swallowed_probe` has two tools, the one that leaves an answer behind and the one
that takes it.

### Fairness

`FairSpec` of `BatchRun` assumes that the bridge's threads run: the borrow ends
within `BORROW_TIMEOUT` and each socket operation within the client's timeout,
so a worker that can advance does so in the end.  The timeout bounds each
`recv`, so this also assumes that a target does not drip an endless answer.
Nothing is assumed of agents or targets.  `FairSpec` of `TargetPool` assumes the
same of its threads, and that deadlines pass; it does not assume that a woken
waiter ever wins the slot, because Python's condition does not promise it.
`FairSpec` of `Upgrade` assumes that calls run, and of the poll only that its
180 seconds pass; targets need not restart.  `FairSpec` of `ToolCall` assumes
that calls and tasks run and that an executor starts the task at the head of
its queue when a thread is free, as `ThreadPoolExecutor` does.  A task that
waits for a connection may fail when all are lent (`BORROW_TIMEOUT`), and this is
what ends the wait: the mutant `BorrowWaits` takes it away.  All fairness is weak.

### Disagreements the runs show

| Run | What the code does | What is said of it |
|---|---|---|
| `stop_overlaps_start` | a session is stopped twice; the second stop is still running when the path is captured anew, and frees the lock of the new session | `locks.py:5`: the start holds the lock until its stop |
| `stop_without_connection` | the lock stays when the stop gets no connection | `server.py:498`: freed whether or not the stop succeeds |
| `broken_lent` | a client closed by `upgrade_run`, or ended by the target, is lent as it is | `server.py:730`: the pool reconnects; design, section 7: broken when lent, discarded and rebuilt |
| `swallowed_probe` | a late version answer becomes the result of a replay | design, section 13: timeouts are failures |
| `half_release` | of two first downloads of a version, one renames the file the other has just truncated | `upgrades.py:85`: only what passed the check reaches the disk, lest half a file be kept |

Also seen while modelling, and left without a run of their own:

* `capture_stop` frees the lock also when the target answers that it could not
  stop (`server.py:481`), and an exclusive operation is admitted beside the
  capture.  `server.py:498` makes this the intention, `server.py:581` says that
  replay and capture exclude each other.  The same happens when the answer to a
  start or a stop is lost.  `TargetExclusion` names these paths as given up
  (`lost`), and says that nothing else is captured beside an exclusive operation
  a call waits for.  Operations nobody waits for (abandoned ones, and commands
  with `wait=false`, whose lock is free at once) run beside everything.
* An idle connection that is older than `IDLE_TIMEOUT` is closed only when
  `acquire` comes upon it, and `acquire` stops at the first fresh entry
  (`pool.py:56`).
* The executors are per call (`server.py:227`, `server.py:505`), so that
  `max_global_concurrency` ("the total of concurrent tool calls",
  `config.example.yaml:88`) bounds each call and not their sum; and the values of
  the section `pool` of the configuration reach none of the constants of `pool.py`.
* An upgrade whose push or dt20 is given up (`server.py:722`, `725`) frees the SYSTEM
  lock.  The target may still stage or install it, also between another call's
  push and its dt20; the checksum in the dt20 is what keeps half a program from
  being installed, and the other call then fails.
* With `"race"`, two first calls work on two schedulers and a target sees twice
  `MAX_CONN_PER_TARGET` connections (`pool.py:189`).
* A call that the whitelist, an argument of `socket_listen` or the download
  refuses (`server.py:414`, `615`, `708`) returns before the audit record, although
  `README.md:210` has one for every write call.  `upgrade_run` writes a record of
  its own after the poll (`server.py:774`), with the outcomes of the poll.
* `remove_target` (`server.py:291`) may still delete a target that another call
  locks, or that begins to listen, after the test; a listener that ran before
  its target was registered has no flag; a flag outlives the target's restart,
  and the target cannot be removed before a `socket_listen stop`.
* `upgrade_run` compares versions only: asked for the version a target already
  runs, it reports success before the restart (`server.py:761`).

## 4. Theorems

TLAPS proves, for every value of the constants that satisfies the assumptions
named in the modules:

* `BatchRun_proofs`: `TypeOK`, `ExclusiveMutex`, `ExclusiveLockAccounted`;
  `CaptureHeldUntilStop` when agents overlap starts and stops in neither way
  (`Orderly`), and `CaptureLockAccounted`
  when `"stopBorrowFails" \notin Faults`.  The release compares
  classes and not owners, so mutual exclusion alone is not inductive.  The
  invariant `IInv` adds the converse of `ExclusiveLockAccounted`: a worker
  inside an exclusive operation finds its own class as the holder, so the holder
  is free exactly when no worker is inside, and the release that lowers the
  count is the worker's own.  `CaptureLockAccounted` (a path's lock without a
  session belongs to a worker that will free it) needs that a stop holds no lock
  of its own and always reaches its `finally` block.
* `TargetPool_proofs`: `TypeOK`, `SlotsAccounted`, `ConnBudget`, `NoLostWakeup`,
  and `UserHasClient` on the way.  They are inductive only together: the
  subtraction in `release` is guarded by zero, so that it takes back what
  `acquire` added follows from the count being the number of holders; the budget
  holds because the connection taken from the idle list pays for the slot; and
  a thread sleeps only when the count is at the limit.
* `PoolOwnership_proofs`: `OwnedOnce`, `NoSocketLeak` and the refinement
  `ImplementsBoundedPool`.  `Placed` ties the clients a thread has to where it
  is, so that no assignment of `client` or `closing` drops one.  Three lemmas on
  the entry list say that cutting, appending and ageing split, extend and keep
  its clients.  The abstract pool counts threads where the code compares a
  counter (`SlotsAccounted`), and grants a connection nobody uses (`OwnedOnce`;
  for a new connection, that it is a new object).
* `Conversation_proofs`: `TypeOK`, `PooledInSync` and `OkIsOwnAnswer`, when
  `"listen_start" \notin Tools`.  `InStep` says that a call under way has exactly
  one open request, its last one, either with the target or answered and unread.
  A read that succeeds or that the target refuses empties it, one that raises
  closes the connection: the argument needs every reader to raise on an answer
  that did not come, which is what the version probe of `socket_listen start`
  does not do (`swallowed_probe`).

* `BatchArbiter_proofs`: when `Orderly` holds, `Spec` implements
  `TargetArbiter` (`ImplementsArbiter`).  The users of a target are the workers
  inside an exclusive operation (`InExclusive`); its open paths are the sessions
  and the starts under way (`Open`).  Each action is either a stutter or one
  step of the arbiter: a lock that is taken opens a path or lets a worker in,
  the end of the call closes it; that the lock manager's test implies the
  arbiter's is `LockInv` and `SessionInv`, that no path is open twice or closed
  by another's stop is `SessionInv`.
  There too, `TargetExclusion` speaks of
  the target, not of the bridge, and assumes `Orderly` only: answers may be lost,
  stops incomplete and commands go on behind their answer.  `TargetInv` says that
  a captured path which the bridge has not given up (`Live`) is locked; that a
  start which has not succeeded, and a stop which has been answered or given up,
  work on no live path, so that what takes a key out of the lock leaves no live
  capture behind; and that a start which was given up can make no path live.

* `TargetRegistry_proofs`: `TypeOK`, `ListenerFlagged`, `FlaggedListens` and
  `RemoveSparesListener`, for any hosts, ports, workers, classes and faults (the
  properties name the faults they exclude).  The invariant says that a
  worker between its lock and its release is its host's holder, so that at most
  one is between the target's answer and the flag; the flag then agrees with the
  listener wherever nobody is.  `RemoveSparesListener` rests on the order of the
  tests (`WatchInv`): once a remove has found no lock, no start is about to write
  the flag, so the row of a target that listens has it, and keeps it as long as
  no stop is served.
* `Upgrade_proofs`: every safety property of `Upgrade`, for any calls,
  targets, versions, files and sizes.  `Shape` relates a call's place to its job,
  open file and release.  `HolderInv` gives `StagingUndisturbed`: the calls between
  lock and release are their targets' holders, and what remains is a push that
  is served late.  `SettledInv`
  (what a name refers to is whole, or somebody has it open and has written a
  prefix of it) gives `ReleaseSettles`; it needs that only `Open` truncates and
  that whoever truncates goes on writing.  `FilesInv` gives `ReleaseWhole`: one
  call prepares a version (`Apart`), it writes the file of the temporary name
  (`Writing`), no file has two names (`Separate`), so that what is renamed is
  whole (`Written`).  `SentInv` carries this to the targets (`PushedIsHashed`,
  `TargetRunsWhole`): the checksum of a call, and of a dt20 it leaves behind, is that
  of a whole release, so nothing else is installed, whatever is staged.
  `UpgradeImplementsDistribution` is the refinement, of the scenarios without
  `"overlap"`; with it a half release can be sent, as `half_release` shows.  It needs
  `ExecInv` besides: what is about to be renamed is executable, and a call that
  has its release finds it there and executable until the end, so a release is
  published by the rename that completes it and by no other step, and is never
  withdrawn (`PublishedGrows`); and a request that is left behind is for a release
  that is there (`Sendable`).  One lemma per action says which step of
  `Distribution` it is; that two calls do not send to one target at a time is
  `HolderInv`.
* `ToolCall_proofs`: every safety property of `ToolCall`, for any calls, hosts,
  threads, connections and contents of the registry.  `CallShape` ties a call's
  place to its job and its tasks, `TaskShape` a task's place to its outcome and to
  its queue.  `LocksInv` says that the exclusive lock of a host is held by one task, which is
  inside, and that a task inside a capture has its path locked; `LentInv` that a pool has lent as many connections as there are
  tasks between borrow and give-back (`Borrowers`), so that the subtraction never
  goes below zero, all is back when no task is left (`NothingKept`), and one pool's
  bound is everybody's (`ConnectionsBounded`, with `SchedulerInv`: without a race
  all calls use the one scheduler).  `LoneInv` carries the argument of
  `LoneCallServed`: the task that found the lock taken or the pool exhausted did so
  because another task of the same call, for the same host, has what it wanted, and
  the one that holds the lock cannot itself find the pool exhausted.  `LoneLocks`
  carries that of `LockMatchesReply`: while a call runs alone, its path is locked at a
  host exactly if one of its tasks there is inside or has succeeded, and one task
  at most is or has.
  `NeverStuck` is freedom from deadlock, stated without `ENABLED` as a predicate
  of the state: what waits for a thread is in its executor's queue (`Queued`, an
  invariant of its own), a full executor has a task at work, and one that waits for
  a connection does so only while another one, at work too, has it (`LentInv`).  It
  counts no wait that is given up, so it shows that `borrow_timeout` is not
  needed against deadlock; against starvation it is (`BorrowWaits` in section 3).
  `ToolCallImplementsHostAccess` is the refinement, in every scenario: with a race
  for the scheduler the bound is dropped (`bounded`), and everything else stands.
  The abstract bound counts the users of a host where a pool compares its own
  counter: `OnePool` (without a race they are the borrowers of one pool) makes
  the borrow a `Connect`, and a full pool is a reason to refuse whatever the
  number of pools (`UsersCounted`).  A lock that is taken is `Claim`, and a conflict is
  `Refuse` because the path is captured or `LocksInv` names the task that holds the lock.  The reply is `Answer`: a
  call that replies has all its tasks done (`CallShape`) and none inside.

What remains with TLC: liveness under fairness (`CallReturns`, `StopFreesLock`,
`AcquireReturns`, `UpgradeReturns`, `CallReplies`), which is outside the prover's
reach, as is `ENABLED`; and every disagreement of section 3.  Every other property
of a passing run is a theorem.  No recursive operator is declared, and nothing is
proved by induction over data.

## 5. Not modelled

* Configuration, transport, logging and `file_transfer`: input, output and text.
* The layout of frames, gzip and the inline acknowledgements of the file session,
  which no tool uses.
* `fetch_latest_version` and the daily check (`upgrades.py:41-68`, `145-167`): they
  write a streak counter and the log, and no other part of the program reads
  either.  The check always sleeps a day: `backoff_seconds`, by which its
  description says it retries, has no caller.
* In `Upgrade`, a batch of several targets: its targets share only the release,
  which two calls share as well.  Data that was written and is lost in a power
  failure: the code calls no fsync, so that a release may then be empty and
  executable.
* The audit log.  Nothing reads it back, and a record repeats the outcomes that
  the reply is made of, whose content the models abstract.  Section 3 says which
  calls leave no record, and where `upgrade_run`'s differs from its batch's outcomes.
* In `ToolCall`, whether a target carries out what was given up: that is in
  `BatchRun`, `Conversation` and `Upgrade`.
* A restart of the bridge in `BatchRun`: that locks are then lost is a known
  limit of the design (its section 15).  `TargetRegistry` and `Upgrade` have the
  restart, because rows and files outlive it.

Next: upgrades with several targets.
