# Fireactions in TLA+

Fireactions runs GitHub Actions runners in Firecracker virtual machines. A
*server* keeps pools of machines at a wanted size; an *agent* inside each
machine starts the GitHub runner, follows its state and serves its logs. This
directory models the parts of both that are concurrent, may fail half way, or
must end, checks them with TLC on small instances, and proves the main safety
properties with TLAPS for every value of the constants. Line numbers refer to
the repository's source.

## 1. The system

### Components

| Component | Source | State it keeps | Operations | Modelled by |
|---|---|---|---|---|
| Pool | `server/pool.go`, `server/machine.go` | target, pause flag, map of machines, pending counters, wait group, trigger channel, context | `Run`, `Scale`, `createMachine`, `deleteMachine`, cleanup goroutine, `Stop`, `SetReplicas`, `Pause`, `Resume` | `Pool`, `RunnerLifecycle` |
| Server | `server/server.go` | pools by name, gRPC and metrics servers, CID counter | `Run` and its errgroup, shutdown goroutine | `Server`, `Creation` (counter) |
| gRPC handlers, conversion | `server/rpc.go`, `server/convert.go` | status gauge | the calls of `ServerService` | `Api`, `Logs`, `Images` (`RemoveImage`) |
| Image manager | `server/image.go` | singleflight group (images are in containerd) | `ensureImage`, `pullImage`, `removeImage`, `listImages` | `Images`, `Creation` |
| Log stream | `cmd/fireactions/logs.go`, `server/rpc.go`, `agent/rpc.go` | two streams, one line in each handler | `logs`, `GetMachineLogs`, `GetLogs` | `LogStream`, `Logs` |
| Log tail | `agent/tail/tail.go` | open file, watcher, scanner, error | `TailFile`, `Stop` | `Tail` |
| Agent and runner process | `agent/agent.go`, `agent/runner/runner.go` | runner, its state and process, gRPC server | `New`, `Run`, `pipeToLogger`, `runGitHubRunner`, `runGRPCServer`, `shutdown`, `GetRunnerState`, `GetRunnerVersion` | `Agent`, `Boot` |
| MMDS client | `agent/mmds/client.go` | a token | `GetMetadata` | `Boot` |
| Command line | `cmd/fireactions/` | none | one call per command | `Api`, `Logs`, `Boot` |
| Protocol | `proto/` | none | messages, stubs, dispatch | `Messages` |
| GitHub client | `helper/github/client.go` | clients per installation | `Installation` | only as the pool sees GitHub |
| Configuration, metrics, helpers | `server/config.go`, `agent/config.go`, `server/metrics.go`, `helper/` | none that changes | parsing, copying, printing | no (see 7) |

### How they interact

* RPC handlers call `SetReplicas`, `Pause` and `Resume` of a pool while its
  `Run` loop reads the same fields; the loop is woken over a channel of
  capacity one.
* `Scale` starts a goroutine for every machine to create or to delete. They
  share the map of machines (under a mutex) and two counters (atomic) with the
  loop, which reads the three one after the other.
* A creator calls, in this order, the image manager, containerd (a lease, a
  snapshot), GitHub (a registration) and firecracker; then it lists the machine
  and starts a goroutine that waits for the machine's exit and gives everything
  back.
* The server's shutdown goroutine calls `Stop` of every pool, then shuts the
  metrics server down, then waits for the calls in flight.
* `GetMachineLogs` of the server forwards `GetLogs` of the agent, which starts
  and stops a tail goroutine.
* `ListMachines` asks the agents of all machines at the same time; `GetPool` and
  `ListPools` read the fields of pools that run.
* The creators of all pools take the CIDs of their machines from one counter of
  the server.
* systemd in the machine starts the agent again when its process fails.
* When the runner's process ends the agent reboots the machine; the pool sees
  the machine's exit, cleans up and creates another.

### What is hard, and what makes each part correct

* **Pool.** Goroutines compete for the same map entries; counters and map are
  read at different moments; every remote call may fail, or have its effect and
  lose its answer; `Stop` runs against creations it does not wait for. Correct
  means: counters say what the goroutines do; a machine that is alive keeps its
  lease, or has been told to stop; what is taken outside the process is given
  back by exactly one goroutine; a target is not lost; `Stop` ends and leaves
  nothing of the settled machines; the pool returns to its target.
* **Server.** One of two servers may fail while the other goes on; a signal may
  arrive at any point of the start; shutdown waits for streams without a limit.
  Correct means: no silent return with pools running or calls cut off; nothing
  closes before the pools have stopped; after a signal `Run` returns.
* **Image manager.** A pull is shared by creators of several pools and runs
  under the context of one of them. Correct means: no two pulls at once, no
  waiter without a pull, no version replaced by an older one, every call ends.
* **Log tail.** Opening, watching and reading are separate steps; the file grows
  and is renamed meanwhile; scanners are thrown away at every event. Correct
  means: lines in order, nothing lost or repeated, the old file finished before
  the new one, catching up, ending when stopped.
* **Agent.** Two goroutines set one state that `Run` sets too; a reader that
  stops reading blocks the process; a handler may run before what it uses is
  set, and its panic ends the process, which is started again. Correct means: the
  state is one told last, the process is never blocked by its readers, and the
  machine goes down however the process ends, but for the ways the code leaves.
* **Handlers and commands.** A handler reads a pool field by field and pools one
  after the other, while others change them, and puts together results that come
  in any order, or never. Correct means: an answer says only what was true during
  the call, of the right pool and machine; none is left out; every call ends.
* **Log stream.** Three processes, two connections and a signal may end the
  stream in any order. Correct means: no gap, no success without the last line,
  nobody left waiting for a line that does not come.

`PROJECT.json` lists the hazards line by line, with the properties that cover
each, or the reason why none does.

## 2. Modules

| Module | Role |
|---|---|
| `Pool` | the pool, its goroutines and the environment |
| `RunnerLifecycle` | abstract: in which order lease, registration and machine of one runner come and go |
| `MCPool`, `MCPoolCalm` | instances, and claims of comments the code does not keep; the second adds the timing assumption for convergence |
| `PoolProofs`, `PoolOwnershipProofs` | theorems about `Pool` |
| `Server`, `MCServer`, `ServerProofs` | the server |
| `Messages` | the requests and answers of the pool and machine calls, int32 |
| `Api`, `MCApi`, `ApiProofs` | commands, handlers and conversions of the unary calls |
| `Images` | the image manager |
| `Creation`, `MCImages`, `CreationProofs` | `Images` together with what follows in `createMachine`: the CIDs; the theorems about both |
| `LogStream` | abstract: what a `logs` command promises |
| `Logs`, `MCLogs`, `LogsProofs` | the log stream through all its hops |
| `Tail`, `MCTail`, `TailProofs` | the log tail |
| `Agent` | the runner's process, its readers, the agent's server |
| `Boot`, `MCAgent`, `BootProofs` | `Agent` together with its start, its panics and restarts |

Definitions that carry the name of an action and what is wrong with it
(`ReapListedOnly`, `JoinAlone`, and so on) stand before that action and are used
by none: each is a plausible bug, kept to show that the property named in
`PROJECT.json` notices it.

### Pool

One variable stands for each shared field (`machines`, `replicas`, `isActive`,
`pendingCreates`, `pendingDeletes`, `cleanupWg`, `trigger` for the channel,
`ctxDone` for the context), one for the position of each kind of goroutine
(`run`, `create[r]`, `cleanup[r]`, `deleters` with `victims`, `stop`), and four
for the world outside: `vm`, `leases`, `registered`, and `abandoned`, a history of
the machines that are alive and that nothing waits for any more.

A step ends where another goroutine or a remote service can be seen to have
moved. Where the code does several things in a row that nobody can observe in
between, they are one action:

* `UndoCreate` is the deferred release of the lease together with the end of the
  goroutine: nothing is read between the two.
* `GiveBack` is the removal at GitHub and then the release; both outcomes of
  each are possible, so all four results are.
* `p.l` is taken by `Scale` only, which runs in the loop only: it never blocks
  anybody and is not modelled.
* `Stop` cancels the context before it sends on `stopCh`; whoever could receive
  from `stopCh` sees the context, so only the context is modelled.
* `checked` says how many deleters had passed their test of the context when it
  was cancelled. Before that it is not tracked: a deleter counted in `deleters`
  may stand before or after its test, and `StopBegin` chooses how many did pass.
* Names of `Runner` are used again once nothing is left of a runner. When
  `ScaleUp` finds too few of them, the creators left over stand for goroutines
  that fail at once (they take nothing and their count goes down again).
* The sizes `Scale` has read are locals of it; they are set back to 0 at its end
  so that they do not multiply states. `desired` is left: it is what
  `NoTargetLost` compares with the target.
* `EnterScale` looks at `isActive` and at the context in one step. Nothing is
  between them but the lock `p.l`, and `Scale` then reads the size of the map, the
  creations and the deletions one after the other (`ReadSize`, `ReadCreates`,
  `Balanced` or `ScaleUp` or `ScaleDown`).
* The context of every machine is made from the pool's (pool.go:525), so
  `StopBegin` tells all machines to stop, listed or not; `StopJoin` tells the
  listed ones again. The `vmmCancel` of a cleanup (pool.go:582) comes when the
  machine has exited or the pool's context has ended, and so tells nobody.
* `WaitEnds` is the wait of a cleanup: for the exit, or, once the pool stops, for
  30 s. When they are over, `Reap` takes the machine out of the map and `GiveBack`
  releases its lease, though it is alive: it stays what it is, and becomes
  `abandoned`. So does a machine whose start has failed and whose process dies.

The failures of the environment are members of `Faults`. `reply` means that a
call that failed had its effect: a retry or a lost answer leaves a lease or a
registration nobody knows of. `timeout` lets the waits of 5, 30 and 35 seconds
expire at any moment.

`RunnerLifecycle` has the same three outside variables and no goroutines: lease
before registration before start, a machine runs on its lease, nothing is given
back while it runs. `Pool` implements it with the identity as refinement mapping.

### Server

`run` is the position of `Run`; `serve`, `metrics` and `shutdown` are its
goroutines; `firstErr` is what `errgroup` keeps; `call` holds the calls in
flight. A pool is `none`, `running`, `stopping` or `stopped`; that `Stop` ends is
what `Pool` shows, that it may leave a runner (fault `leak`) is what
`pool_stop_all` shows. A log stream ends with its client or its machine. The
process ends when `Run` returns, with or without an error, so nothing follows
`returned`. What the calls do to the pools is in `Api`; here they are what
`GracefulStop` waits for.

### Api

A client runs one command; `RequestOf` makes the request of it, with the int32 of
the wire. `at` is where the handler stands: `find`, the field of a pool it reads
next, `list` and `ask` for machines, `gauge` between the flag and the metric.
`ReadField` reads one field of one pool, since each is read under a lock of its
own or none. A range over a map is any of the `Orders` of its keys: `ListMachines`
chooses one of the pools, `ListPool` one of each pool's machines. `sort.Slice` is
`Sorted`, any arrangement in which nothing stands before what it comes after: that
it has one answer where all differ is proved, not assumed. `Ask` is one of the goroutines that ask an agent, each when it likes;
`Unknown` stands for every way not to get an answer, the timeout of five seconds
among them. Pools and agents change under the handlers: `MachineStarts`,
`MachineGone`, `AgentEnds`, `AgentMovesOn`; how they come to is in `Pool` and
`Agent`. A machine that has left the map has an agent that answers until it ends,
and one that is listed may have an agent that does not: `MachineGone` and
`AgentEnds` are in no order. A silent agent may answer again, when systemd has
restarted it.
`overlapped` and `seen` are of no use to the code: `seen` holds what was true
while the handler ran, which is what an answer is compared with.

Names are numbers, in their order; `HalfRange` is half the numbers of an int32. Left out of the messages are fields that are
copied from the configuration or never change.

### Logs

`back` and `front` are the streams from the agent to the server and from the
server to the command: `Window` lines at most, the writer waits. `passing` and
`sending` are the lines in the hands of the two handlers. A connection that
breaks may lose the last of what it holds. `Take` stands for a receive from the
goroutine of `Tail`; `TailEnds` for the end of its channel. `CliGone` is the end
of the context of the call, that of an interrupted command, one that has ended,
or one that cannot be reached: gRPC makes the three one. `LogStream` has the same
five variables (lines sent, how the agent's call ended, lines printed, interrupt,
result) and none of what is between.

### Images and Creation

`Creation` continues a successful `ensureImage`: its `TakeCID` is the atomic add on
`Server.nextCID`, modulo the width of the counter, and `Release` ends what the
creator made. That is all of `createMachine` that one pool sees of another; the
rest is in `Pool`.

Content is the version the tag had when it was resolved. `Join` is
`singleflight.Group.Do`: the first caller leads and pulls with its own context,
the others wait whatever becomes of theirs. At the end of a pull `Shared` wakes
all of them at once: they read a result that does not change any more. A removal
that has found the image deletes it or fails (`RemoveDeletes`, `RemoveFails`).

### Tail

A file is a sequence of pieces, each of which ends a line or not; a line is the
places of its first and last piece. That is enough to tell order, loss,
repetition, truncation and overlong lines apart. The channel is unbuffered and
its reader takes everything until it stops the goroutine, so a send is one step
with its receipt. A scanner that found a line too long keeps what it has read of it:
called again at an event that is no write (tail.go:202), it returns that as a line
(`OtherEvent`), and a write event puts a new scanner at the end of it
(`WriteEvent`). inotify drops an event equal to the last one queued. Removing
a file that is open gives an `attrib` event only: the deletion is reported when
the last descriptor is closed, and the goroutine holds one. `rotated` records
how the file lost its name, and whether that was before it was watched.

### Agent

A line is the state it tells, `other`, `blank` or `long` (it does not fit the
64 KiB of the scanner). The process writes any line on either pipe, and the readers
of both set the state. A pipe holds `PipeSize` lines and blocks its writer when it
is full; `Wait` closes it with what it holds. `told` and `overlong` record what the
process has written on each pipe; the code has no such variables. `shutdown` is
`called` when the command of `shutdown` was started and `failed` when it could not
be, which is only logged (agent.go:157-161).

`Agent` has no specification of its own. `Boot` says when its steps can be taken:
when `runAgentCmd` has got its metadata, with the retries of the HTTP client,
made the agent and set the host name; the steps of the runner only when
`a.runner` is set, those of the streams only when the server listens. When the
agent's server cannot listen, or fails (`ServerFails`), its process ends, and with
it the goroutine that would shut the machine down.

`GetRunnerVersion` that finds no runner (`asked`) ends the process by its panic, but
not at once: the runner may be set and started before `Panic`. `Kill` ends the
process anywhere. `main` exits with 0 after any error, so a panic or a kill is what
systemd's `Restart=on-failure` restarts, with the same metadata: a runner that had
been started is started again. `Restart` sets back what the process held; what is
left of the unit, the runner among it, is killed.

## 3. Runs

| Run | Instance | Properties | What it shows |
|---|---|---|---|
| `pool_faults` | 2 runners, target 1, faults start, stop, reply, timeout, `Stop` | `LiveHoldsLease`, `KeepsLifecycle` | who holds a lease, and the refinement, under failures that leave something behind |
| `pool_stop` | 2 runners, target 1, faults lease, register, start, stop, `Stop`, no API calls, fairness | `PoolInv`, `LeaseIsOwned`, `StopDrainsSettled`, `StopCompletes` | the invariant of the proofs; what `Stop` keeps, and that it ends without its timeouts |
| `pool_calm` | 2 runners, targets -1, 1, 2, one machine exits by itself, fairness | `NoTargetLost`, `RunnerIsOwned`, `RunningIsListed`, `Converges`, `ExitedIsReaped` | the loop against the API and its own goroutines; the pool comes back to its target |
| `pool_surplus` | 2 runners, target 1 | `RemovesOnlySurplus` violated | a wanted machine is removed |
| `pool_stop_all` | 2 runners, target 1, `Stop` | `StopStopsAll` violated | a machine outlives `Stop` |
| `server` | 2 pools, 2 calls, metrics, all faults, fairness | `ReturnsClean`, `ClosedAfterPools`, `Terminates` | start, failure and shutdown |
| `api` | 2 pools, 3 machines, 13 pairs of commands, an int32 of 8 values, 2 changes, fairness | `TypeOK`, `ViewIsFresh`, `ListingIsExact`, `StatesAreFresh`, `GaugeSettles`, `CommandsEnd` | answers put together while everything moves |
| `images` | 3 creators, one pool of each policy, 2 versions, a counter of 5 values, 3 CIDs taken, faults, fairness | `WaitsForPull`, `CIDsDistinct`, `NoRollback`, `EnsureEnds` | what creators share |
| `logs` | windows of 2, 4 lines, a command that follows or not, fairness | `OkMeansAll`, `KeepsStream`, `CommandEnds`, `HandlersEnd`, `DrainEnds` | a stream over two hops that may break |
| `tail` | files of up to 3 pieces, lines of up to 2 fit, every kind of call, both rotations at any time, the reader may stop, fairness | `TypeOK`, `SentInOrder`, `OldFileSent`, `FindsLastLines`, `CatchesUp`, `StopEnds` | reading, rotation and stopping |
| `tail_removed` | 1 piece, removal only, fairness | `ReOpensFile` violated | a recreated file is not opened |
| `agent` | pipes of 2 lines, 2 lines, 1 stream, long lines, signals, 2 retries, 1 restart, fairness | `BootTypeOK`, `StateKeepsUp`, `NeverBlocked`, `GoesInTheEnd` | start, process, readers, panic, kill, restart and shutdown |

Some invariants are in no run of their own because another property of a run
says more. `CountersMatchGoroutines` and the types of `Pool` are parts of
`PoolInv`; `PrintsInOrder` and the order of lines follow from `KeepsStream`; the
types of `Agent` are part of `BootTypeOK`, those of `Creation` of the invariant of
`CreationProofs`; that the boot ends is part of `GoesInTheEnd`. The types of
`Server` and `Logs` are proved, for every value of the constants.

`LeaseIsOwned`, `RunnerIsOwned`, `RunningIsListed` and the leases of
`StopDrainsSettled` are about an environment without the failures they name: with a
lost answer or a failed start the code does leave a lease or a registration behind.
`KeepsLifecycle` and `LiveHoldsLease`, which hold with every failure, allow that.

### Bounds

* **Two runners.** Every interaction between runners goes through the map, the
  counters and the wait group; two runners are the fewest for which a deleter
  can pick another machine than its creator, an old machine can exit while its
  replacement is created, and a count can be too high while another is too low.
  What holds of one runner at every position (`RunnerInv`) is proved for any
  number.
* **Target 1 with two runners** in the runs with failures: the pool replaces,
  over-creates and removes, because it reads counts that have moved. Target 2
  and the negative target are in `pool_calm`.
* **One `SetReplicas` in flight** between store and trigger at a time; any number
  in sequence. A second one would store over the first and drop its trigger,
  which the first may do as well by finding the channel full.
* **`Stop` begins with no `SetReplicas` between its store and its trigger** in
  `pool_faults` (the constraint `CallsReturned`): the loop no longer uses what it
  would store or trigger. `pool_faults` has one target, so `StoreReplicas` and
  `TriggerScale` wake the loop there; `pool_calm` changes the target.
* **Faults lease, register, unregister, release** are not in `pool_faults`: what
  a failed release or removal leaves is what `reply` leaves, and a refused lease
  or registration ends where a failed start or a cancelled context ends. The
  proofs have no such restriction.
* **`pool_stop` makes no API calls** (`UncalledSpec`), to keep the liveness check
  small: creations and deletions are in flight without them.
* **One exit by itself** in `pool_calm`: each exit is one more cycle through the
  same states.
* **Two calls** in `server`: one that ends in time and one that is waited for. The
  proofs are for any number.
* **Pairs of commands** in `api` (`MCPlans`): those whose handlers touch the same
  field, the same gauge or the same machines, and names that do not exist. Every
  reader of a pool meets a writer of each field it reads. With eight values 9
  is a number that is sent as 1. Two changes are enough for one machine to go
  while another comes between two reads of one handler.
* **A counter of five values** in `images`: it wraps within the run, and the two
  identifiers that are free before it does go to different pools in every order.
* **Windows of two, four lines** in `logs`: both connections and both handlers can
  be full with no line printed yet only for the first lines, so each may be the
  one that waits. `LogsProofs` has neither bound.
* **Two versions and three creators** in `images`: one pull resolves before the
  tag moves and one after, while a third reads.
* **Three pieces** in `tail`: a line before, across and after an estimated offset
  or a rotation; `MaxLine = 2` makes overlong lines, `AvgLine = 2` makes offsets
  inside a line and before the file.
* **Pipes of two lines, two lines written** in `agent`: a pipe can be full, and a
  state can follow another on the same pipe or on the other one.
* **One restart, two retries** in `agent`: each further one leads back to the same
  states; one failure more than restarts is a machine left behind. `BootProofs` has
  neither bound.

### Deadlock

Deadlock is checked in `pool_faults`, `pool_calm`, `pool_surplus` and
`pool_stop_all`: the API may always call a pool. It is off where the system may
stop: `pool_stop` (a stopped pool that nobody calls), `server` and `agent` (the
process has returned), `api` (all commands have ended and nothing changes any
more), `images` (all pools stopped, nothing to publish), `logs` (the command has
ended), `tail` (the goroutine has ended and nothing is left to write). What must
not be waited for in these is a liveness property: `Terminates`, `CommandsEnd`,
`EnsureEnds`, `HandlersEnd`, `StopEnds`, `GoesInTheEnd`.

### Fairness

* Goroutines and remote calls: weak fairness of the loop, of each creator, of
  each cleanup goroutine, of the deleters, of `Stop` and of an RPC handler between
  its two steps. Go's scheduler runs what is runnable, and calls carry contexts or
  end.
* A machine that has been signalled, or whose context is cancelled, exits
  (`Dying`): firecracker's process gets SIGTERM or is killed. A machine that was
  not told to stop need not exit.
* Nothing is assumed of the API, of clients, of writers, of rotations, of signals
  or of the runner's process.
* `Server`: the steps of `Run`, of each errgroup goroutine and of the shutdown
  goroutine are fair, and so is the end of a stream whose machine is gone; that a
  client closes its stream is not assumed. A failure of a server is not fair.
* `Api`: the goroutines of every handler; a question to an agent has a timeout of
  five seconds, so it ends. Nothing of connections, pools and agents.
* `Logs`: the command, both handlers, their noticing that the other side is gone,
  and the agent's drain; a tail that does not follow comes to its end. Nobody has
  to interrupt, break or write.
* `Boot`: the agent's own goroutines and systemd. A request to the metadata
  service ends, with an answer or without. The runner's process may run for ever,
  or write nothing; clients may never call or never leave.
* `MCPoolCalm` assumes of the timing that `Scale`, which takes microseconds every
  two seconds, does not read while a goroutine has only local work left. Without
  it the pool may hunt for ever around its target, a pass that counts a machine
  twice following one that counts none: `pool_surplus` is one step of that. The
  assumption says nothing of remote calls, whatever number of passes they last.

## 4. What the runs found

Each is a difference between a comment or document and the code, kept as a run
that TLC must find violated; `PROJECT.json` quotes the sentence.

* `pool_surplus` (pool.go:258): a machine is listed before its creator's pending
  count goes down; a pass in between counts it twice and removes one that is
  wanted.
* `pool_stop_all` (pool.go:203): a machine whose start had begun when `Stop` read
  the map is inserted and watched afterwards. Its context tells it to stop, but
  `Stop` does not wait for it and can return while it is alive. It does end later,
  as `StopCompletes` shows.
* `tail_removed` (tail.go:233): a file that is removed and created anew is never
  reopened.

The models contain further behaviour of this kind that no property excludes, and
`PROJECT.json` notes it at the hazard: creations in flight that go on after
`Pause`; a machine taken out of the map that runs on because `StopVMM` failed; a
registration left at GitHub when a start fails; a rotation between the opening of a
file and its watch; half-written lines sent as two; fewer lines
than asked for when lines are long; an `Always` pull that is shared with one
begun earlier; the gauge after an overlapping pause and resume
(`docs/user-guide/metrics.md:17`); the state of an exited runner that a line read
ahead sets back (runner.go:32); a number of replicas beyond int32 that is set as
another one, and reported as asked; a runner started twice with one JIT
configuration, when its agent failed after the first start; a process that hangs at
a pipe nobody reads after a line too long; a machine whose agent has ended by itself,
or could not start the shutdown command, which nothing shuts down
(`docs/user-guide/images.md:28`); CIDs after the counter
has wrapped.

Outside the models, for whoever changes the code next: two pools of the same name
overwrite each other in the server's map (server.go:142); the installation of
GitHub is looked up once and kept (pool.go:494); copying the metadata through
`gob` fails on lists and nulls (pool.go:515).

## 5. Proofs

| Theorem | Module | Says |
|---|---|---|
| `PoolInvariant`, `TypeCorrect`, `CountersCorrect`, `LeaseSafety` | `PoolProofs` | `Spec => []PoolInv`, and the invariants it implies |
| `RunningListed`, `LeaseOwned`, `RunnerOwned`, `TargetKept`, `StopDrains`, `PoolImplementsLifecycle` | `PoolOwnershipProofs` | who answers for machines, leases and registrations; targets; `Stop`; `Spec => Lifecycle!Spec` |
| `ServerTypes`, `ClosesAfterPools`, `CleanReturn` | `ServerProofs` | types, `[]ClosedAfterPools`, `[]ReturnsClean` |
| `OnePull`, `VersionsAdvance` | `CreationProofs` | of `Images`: `[]WaitsForPull`, `NoRollback` |
| `DistinctCIDs`, `OnePullWhileCreating` | `CreationProofs` | `[]CIDsDistinct`, and `[]WaitsForPull` of the composition |
| `Typing`, `GaugeIsRight` | `ApiProofs` | types, `[]GaugeSettles` |
| `HandlersCanSort` | `ApiProofs` | a handler that is to sort finds an order, for maps of any size |
| `ViewsAreRight`, `ListingsAreRight`, `StatesAreRight` | `ApiProofs` | `[]ViewIsFresh`, `[]ListingIsExact`, `[]StatesAreFresh` |
| `LogsTypesAreRight`, `LinesKeepOrder`, `SuccessIsComplete`, `StreamIsKept` | `LogsProofs` | types, `[]PrintsInOrder`, `[]OkMeansAll`, `Spec => Stream!Spec` |
| `StateIsKept`, `BootTypesAreRight` | `BootProofs` | `[]StateKeepsUp`, types |
| `LinesFollowOn`, `TailTypesAreRight` | `TailProofs` | `[]SentInOrder`, types |
| `OldFileIsSent`, `LastLinesFound` | `TailProofs` | `[]OldFileSent`, `[]FindsLastLines` |

**Assumptions.** Those named in the modules: the set of runners is finite, targets
are integers with a natural number among them, fault sets hold known faults,
bounds are naturals. TLC evaluates them in every run.

**Pool.** `LiveHoldsLease` is not inductive: giving the lease back is harmless
only because no creator of the same runner can be there at that time, and its
machine is gone or abandoned; and that in turn because a creator starts only on a
name nothing is left of, and because all machines are told to stop before a wait can
expire. `RunnerInv(r)` says what a runner holds at each position of its creation and
cleanup; `PoolInv` joins it, for every runner, with the types and with
`CountersMatchGoroutines`. The counters are needed for the types (a counter that
could go below zero would leave `Nat`) and for `StopDrainsSettled`, where the
wait group being zero must mean that no cleanup goroutine is left. The proof has
a step per action, and lemmas on the cardinality of a set that gains or loses
one element.

`PoolOwnershipProofs` carries the ownership properties over the same invariant:
they depend on `Faults` (a lease is owned as long as replies and releases do not
fail) and need what the map and the victims say of a running machine. The
refinement maps each action to one of `RunnerLifecycle`, or to a stutter;
`PoolInv` supplies the guards, for example that a registering creator has its
lease.

**Server.** The invariant adds where the shutdown goroutine can be for each state
of the two servers: the metrics server is closed only from position `grpc` on,
and that position is reached only when every pool is `stopped`, which no step
undoes.

**Images.** The invariant says that a pull that has resolved its tag resolved
something no older than the local image and no newer than the registry. That is
kept because one pull runs at a time (`WaitsForPull`) and versions only grow.

**Creation.** Every identifier taken lies between 3 and the counter, and those of
two creators differ, as long as fewer were taken than the counter has values;
nothing else about the order of creators and pools is needed.

**Api.** What an answer says is right only if everything the handler gathered before
was right, so the invariant follows it: for each place a handler can be at, it
says which variables of its own it uses there and how what they hold is related to
the facts the call has seen (`ViewFilled`, `PoolsListed`, `MachinesCollected` and
their like). Those facts only grow, and no process writes what belongs to another,
so one lemma keeps every part over the steps of the others, and what is left is one
step per handler. Two parts reach further: a listing in progress has, or has yet to
visit the pool of, every machine that was listed throughout, and the pools read and
those still to be read are together all pools, in order. `GaugeIsRight` needs that
at most one handler has set the flag of a pool and not yet its gauge, and that the
flag is then the one of its call (`GaugeInv`).

Sorting is a choice among the sorted orders of what was gathered; whichever is
taken, it is sorted and has the right elements. That there is one is
`HandlersCanSort`: a smallest number of elements that could not be sorted would not
be 0, and of more the last goes to the end and the others are fewer. No induction
theorem is needed, only that a set of naturals has a least element (`Least`).

**Logs.** `PrintsInOrder` is not inductive: it needs that the lines printed, those
on the one wire, in the server's hand, on the other wire and in the agent's hand
are, one after the other, a beginning of the lines sent, and all of them unless
something broke. `OkMeansAll` adds that the end of a wire is `eof` only when the one
before it ended so and has nothing left. The invariant says both for each hop;
lemmas on `Append`, `Tail` and `SubSeq` of such runs of numbers carry it over the
steps. The refinement maps `Take` to `Tell`, `Recv` to `Print` and the end of the
command to `Finish`; everything between is a stutter.

**Boot.** `StateKeepsUp` says nothing while lines are on their way, so its invariant
speaks of those, for each pipe: what its reader has read ahead leads from the state
it has found last to some state, and what the pipe holds leads from that one to what
the process told last on it (`Leads`); and the agent's state is one that a reader has
found last. Three lemmas say what a sequence leads to when a line joins it, leaves
it, or when it is empty.

**Tail.** `SentInOrder` needs where the next line would begin: as long as the
goroutine scans, the last line sent ends a whole number of buffers before the
scanner's offset, or lies in the earlier file (`Reached`), and while it waits, the
scanner has nothing left, or just a buffer that was too long (`OrderInv`); while the history is
read and sent, its lines follow each other without a gap up to the offset (`Chain`).
That the second file comes after the first needs one fact about events: a rename is
queued once, and the second file is never open while it is (`FileInv`).

`OldFileSent` is about events: while the goroutine waits, what it has not read of the
old file is announced by a write event, and before the rename if it was written
before (`Announced`). So when the rename is read, nothing written before it is left;
a scanner that has ended has sent what it read, up to a buffer that would be too
long (`OldFileInv`). The event queue merges an event only with an equal last one,
which keeps the announcement.

`FindsLastLines` needs what the lines found so far are: all the lines from the
estimated offset on, the first perhaps without its beginning (`Covers`), and that
the offset is the start of the file or far enough from its end for the lines wanted
if none is longer than assumed (`FoundInv`). At the end, short lines that reach from
that offset to the end are at least as many as wanted, and one more if the offset is
inside a line; so the cut one is never among those kept. `LastOfLines` counts those
that follow a line to conclude that the ones kept are the last; the line in which
the offset lies begins after a last end before it, which there is because the order
of the naturals is well-founded (`LastEnd`).

**Only model-checked.** All liveness: `StopCompletes`, `Converges`,
`ExitedIsReaped`, `Terminates`, `CommandsEnd`, `EnsureEnds`, `HandlersEnd`,
`CommandEnds`, `DrainEnds`, `CatchesUp`, `StopEnds`, `NeverBlocked`,
`GoesInTheEnd`; TLAPS does not reason about fairness and `ENABLED`.
Every invariant and every action property of the passing runs is proved, as is each
refinement.

## 6. Plan

Done, in the order of importance:

1. `Pool` with `RunnerLifecycle`, its runs and its proofs.
2. `Tail`, the part of the agent with the most states per line.
3. `Server`, `Images` and their proofs.
4. `Agent`, and `Boot` around it: the start, panics and restarts.
5. `Logs` with `LogStream`, its run and its proofs.
6. `Api` with `Messages`: commands, handlers and conversions.
7. `Creation`: what the creators of different pools share.

Left:

1. `Pool` composed with `Creation`: an image removed between `ensureImage` and the
   lease that would keep it, and a stop of one pool that fails creations of
   another.
2. `Server` composed with `Pool`: `Stop` of each pool, and calls to a pool that is
   stopping, in place of the four positions.
3. In `Tail`, the errors of the watcher and the event kinds it merges.

## 7. Not modelled

* **GitHub client**: authentication; the pool sees only that a call succeeds,
  fails, or has its effect and fails.
* **Configuration**: parsed once; its results are constants.
* **Metrics, helpers**: declarations, copying and formatting. The status gauge
  alone is state, and is in `Api` and `Server`.
* **`GetHealth`, `GetVersion`, `ListImages`** and the image commands: one read each
  and no state; their messages are left out with them.
* **The tables that commands print and the ssh of `login`.**
* **Metadata and JSON** in the MMDS client: a value is there or is not
  (`BootFails`).
* **The data race on `isActive`** (pool.go:347): an aligned byte, so a reader gets
  the old or the new value; `Pool` lets it read either by interleaving.
* **Contents**: images, kernel arguments, metadata, log text.
