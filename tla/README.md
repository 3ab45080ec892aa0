# systemd-docker in TLA+

This directory is a specification of `systemd-docker` (`src/main.go`), the wrapper that
runs a docker container as a systemd service, and of the parts of docker and
go-dockerclient vendored beside it that have a behaviour worth checking; with TLC
configurations that check it on small instances and TLAPS proofs of its main invariants.

    tlc -config core.cfg MCService.tla      # one of the runs of section 3
    tlapm ServiceProofs.tla                 # one of the proofs of section 4

The eight modules with proofs (`*Proofs.tla`) take tlapm a minute or two each.

## 1. The system

### systemd-docker

One sequential process per start of a unit, and one goroutine for the log. It talks to
parties that change state while it runs, and it holds no lock on any of them:

| component | where | state it keeps | operations |
|---|---|---|---|
| argument and environment parsing | `main.go:48-146`, `docker/pkg/mflag` | the `Context` | `parseContext`, `setupEnvironment`; `Parse`, `parseOne` |
| lookup and launch | `main.go:148-288` | `c.Id`, `c.Pid`, the `docker run` child | `lookupNamedContainer`, `launchContainer`, `runContainer`, `getContainerPid` |
| cgroup move | `main.go:290-413` | none of its own; cgroup membership of the container's processes | `moveCgroups` and its helpers |
| notification, pid file | `main.go:415-462` | the unit's main process and readiness in systemd; a file | `notify`, `pidFile` |
| log piping | `main.go:464-484` | a goroutine that is never joined | `pipeLogs` |
| keep-alive, removal | `main.go:486-525` | none | `keepAlive`, `rmContainer` |
| docker daemon | API | containers, names, State.Running, State.Pid | create, start, inspect, wait, delete |
| kernel | `/proc`, `/sys/fs/cgroup` | processes, cgroup membership | exit, write to `cgroup.procs` |
| systemd | `example/nginx.service` | main process, readiness | start, start timeout, stop, restart |
| people | docker CLI | - | `docker start`, `restart`, `rm -f`, `run --name` |

systemd starts the program; the program asks the daemon over HTTP (one request per call,
no caching: `getClient` never stores the client); `docker run` is a second process that
makes requests of its own; the kernel's files are read and written by pid; `MAINPID=` and
`READY=1` go to systemd as datagrams; with `--notify` the container sends `READY=1`
itself.

What is hard. Every answer is stale when it is used: between any two calls the container
may end, be started again, be removed, or its name be given to another one. The daemon
learns late that a process has ended. systemd-docker, its `docker run` child and the
container die independently, and systemd kills all that is in the unit's cgroup when the
main process ends - which, after `MAINPID=`, is the container and no longer
systemd-docker. An error at any point ends the program without undoing anything. The next
start must cope with whatever is left.

What makes each part correct:

- parsing: the words before `run` are systemd-docker's, those behind it docker's;
  `docker run` is asked for the same, but detached and without `--rm`.
- lookup and launch: id and pid belong to one container, the unit's own; no stopped
  container of an older `ExecStart` is revived with `--rm`; at most one container per
  named unit; nothing running is deleted.
- move and notification: systemd is told of a process only once it is in the unit's
  cgroup; `READY=1` comes after `MAINPID=`.
- log: what the container writes arrives, in order, once; only an end may be lost.
- keep-alive and removal: what is supervised is what systemd and the pid file were told;
  after a normal end with `--rm` nothing is left.
- all together: once disturbances stop, the unit's container runs, in the unit's cgroup,
  as its main process; units do not touch each other's containers.

### The vendored code

`Godeps/_workspace/src/github.com/` has the client library that systemd-docker calls and
much of docker itself, which the `docker run` child and the daemon are made of.

| component | where (under `docker/docker` or `fsouza/go-dockerclient`) | state it keeps | operations |
|---|---|---|---|
| docker run, start -a, attach | `api/client/commands.go`, `hijack.go`, `utils.go` | channels `hijacked`, `errCh`, `sigc`; the cidfile | `CmdRun`, `CmdStart`, `CmdAttach`, `hijack`, `forwardAllSignals`, `waitForExit`, `getExitCode` |
| the other commands | `api/client/commands.go`, `utils.go` | `encounteredError` | `Cmd*`, `call`, `stream` |
| remote API server | `api/server/server.go`, `engine/http.go` | none: each request runs a job | the handlers, `makeHttpHandler`, `httpError` |
| API listeners | `api/server/server.go:36-38, 1180-1380` | `activationLock`, the umask, `chErrors` | `ServeApi`, `ListenAndServe`, `ServeFd`, `AcceptConnections` |
| engine | `engine/engine.go`, `job.go` | `handlers`, `shutdown`, `tasks`, `onShutdown` | `Register`, `Job`, `Run`, `OnShutdown`, `Shutdown` |
| event monitor | `event.go` | listeners, `C`, `errC`, `lastSeen`, a RWMutex, a WaitGroup | `AddEventListener`, `RemoveEventListener`, `monitorEvents`, `sendEvent`, `eventHijack` |
| fake docker server | `testing/server.go` | containers, images, failures, three RWMutexes, a channel | the handlers, `notify`, `PrepareFailure`, `CustomHandler`, `MutateContainer` |

They interact as client and server: a command sends requests, a handler turns each into
a job of the engine, the listeners hand connections to the handlers once the daemon is
installed; the event monitor reads `/events`, and the fake server stands in for the
daemon in the library's tests.

What is hard. `docker run` is several goroutines that meet through unbuffered channels,
closed in deferred calls; signals come at any time; the streams of a container end before
its state says so. Handlers answer with status 200 before they know that the job will
fail. `Shutdown` and `Run` look at one flag and one counter under different locks, and
give up after timeouts. The event monitor blocks in channel sends with a lock held, and
its goroutines overtake each other. The fake server lets go of its lock between finding a
container and changing it.

What makes them correct: a command's status is true; a waited-for container's code is
the command's; signals keep their order; a command ends when nothing keeps it; jobs are
counted exactly, and shutdown handlers run once, after them; no event before `lastSeen`
is missed, and a removed listener is not sent to; every request takes effect once.

`PROJECT.json` lists the hazards line by line with the properties that watch them.

## 2. The modules

    Supervision     what systemd, and who reads the pid file, may rely on
       ^ implemented by Service

    DockerHost      containers, processes, cgroup membership; what a request does
       |            (external: the daemon and the kernel)
    SystemdDocker   the program and its docker run child, one action per call
       |
    Service         systemd, the containers' own steps, the docker CLI; Next, fairness,
       |            the properties
       +--- MCService, ServiceProofs

    Takeover        what moving a container into a unit promises
       ^ implements
    CgroupMove      moveCgroups over several processes and hierarchies
       +--- MCCgroupMove, CgroupMoveProofs

    ParseArgs       parseContext and setupEnvironment over mflag; no state
       |
    LogPipe         mainWithArgs with its arguments and pipeLogs' goroutine
       +--- MCLogPipe, LogPipeProofs

    DockerRun       docker run, start -a, attach with their goroutines
       +--- MCDockerRun, DockerRunProofs

    ApiServer       the handlers as functions of a request; no state
       |
    DockerCli       the other commands against these handlers
       +--- MCDockerCli, DockerCliProofs

    ApiStartup      the listeners
       +--- MCApiStartup, DaemonProofs

    Engine          jobs and shutdown
       +--- MCEngine, DaemonProofs

    EventMonitor    the event monitor
       +--- MCEventMonitor, EventMonitorProofs

    ContainerLifecycle   what the fake server promises
       ^ implements
    FakeServer      its handlers and locks
       +--- MCFakeServer, FakeServerProofs

An MC module only gives constants their values. In every module with disturbances the
constant `Env` says which of them a run allows, so that a property can be checked exactly
as far as it holds. The definitions under "Slips" are actions or operators with a
plausible mistake in them. No behaviour of a specification uses them; substituted for the
real ones they show which property notices which mistake.

**DockerHost.** `ctr[id]` is what the daemon knows: status, name, arguments, `pid`
(State.Pid), and `by`, the unit that created it (a history field; no action of the
program reads it). `alive`, `cgroup` and `home` belong to the kernel: which pids exist,
the cgroup each is in, and the container it was given to a process of (`home` is history
too). The process ends first (`ProcessEnds`) and the daemon notices later
(`ReapContainer`): in between `State.Running` is true of a dead process, which is the
window most of the program's double checks are about. Starting a container that runs is
a 304, taken as success. Ids and pids are reused, but never while somebody still holds
them.

**SystemdDocker.** `pc[u]` is the call the process of unit `u` makes next; `dpc[u]` the
request its `docker run` child makes next. `Id`, `Pid` are `c.Id`, `c.Pid`; `target` the
id in a local variable. Each call is an action:

| code | actions |
|---|---|
| `lookupNamedContainer` | `LookupInspect`, `LookupRemove`, `LookupStart`, `LookupReinspect` |
| `launchContainer`, `docker run` | `Launch`, `DockerCreate`, `DockerStart`, `DockerExits`, `GetContainerPid` |
| `moveCgroups` | `MoveReadCgroups`, `MoveListPids`, `MoveStatPid`, `MoveWritePid` |
| `notify` | `NotifyCheck`, `NotifyMainPid`, `NotifyRecheck`, `NotifyReady` |
| `pidFile` | `WritePidFile` |
| `keepAlive`, `rmContainer` | `KeepAliveInspect`, `KeepAliveWait`, `RmContainer` |
| any `return c, err` | the `failed` branches, and `CallFails` |

**Service.** `StartUnit` is `Restart=always` or `systemctl start` (and may bring a new
`ExecStart`: `Args`); `StopUnit` kills the unit's cgroup, because the main process is
gone, the start timed out, or someone stopped the unit. `Die`, `Reap`, `ContainerReady`,
`CliStart`, `CliRemove` and `CliRun` are the rest of the world.

**Supervision.** The abstract specification of the whole: what one sees of the units
without a daemon, containers or calls. A process gets into a unit only while the unit's
program is at work; systemd is told only of a process that is in the unit, or has ended;
ready is sent once, after the main process; the pid file names the main process; only a
stop of the unit kills, and what it kills is in the unit; a new process takes a pid that
no unit is following. `Service` implements it with `unit` mapped to the cgroups of the
living processes, `main` to `mainPid`, `file` to `pidFile` and `busy` to the units whose
program runs (`Supervises`).

**CgroupMove.** The same `moveCgroups` seen closely: the container has any number of
processes in any number of hierarchies, which fork and exit while they are moved one by
one. `Cgroups`, `own` and `base` are what the code finds (`c.Cgroups`, its own paths, the
container's paths); `todo`, `hier`, `pids`, `pid` are the loops' variables (`ns`,
`nsName`, `pids`, `pid`), and `pc` the file it opens next: `/proc/<pid>/cgroup` (`read`),
`cgroup.procs` of the container (`next`), `/proc/<pid>` (`stat`), `cgroup.procs` of the
unit (`write`). A path is "root", "unit" or "docker", which is all the code compares.
`seen` and `quiet` are history: what was listed, and whether nothing has forked and this
is the first attempt. `Retry` is the next start of the unit when the container has
survived the failure of this one, which it does if c.Pid was not yet in the unit's cgroup
of `name=systemd`. `SystemdDocker` has the steps of one process in one hierarchy between
the rest of the program; `CgroupMove` shows what they are worth for a whole container.

**Takeover.** The abstract specification: processes join the unit one at a time, none
leaves it but by ending, children stay with their parents, and the main process has
joined before the takeover is done. `CgroupMove` implements it with `member` mapped to
the processes that are in the unit in every hierarchy to be moved.

**ParseArgs.** Operators only. A word is a string; the constant `Words` takes it apart
into its dashes, its name and what comes after `=`, and `Letters` says which one-letter
options a word of several letters stands for. `parseOne`, `ParseLetters` (a fold over the
letters) and `Parse` (a recursive function of the number of words left) are mflag's, on a
set of flags; `NameLike` says which names begin with "name", as `main.go:113` looks at no
more of a word than that; `parseContext` applies them to systemd-docker's
flags, and the loops over the words behind `run` are `NameIn`, `IsRm`, `IsDetach` and
`WithDetach`. `DockerRun` is what docker run, external here, makes of a command line: it
is the reference the result is compared with.

**LogPipe.** The whole of `mainWithArgs`, coarsely: parsing (the real one), attaching or
running, `notify`, and then two sequential processes that share nothing but the
container: `keepAlive`/`rmContainer` (`KeepAlive`, `WaitContainer`, `RmContainer`) and
the goroutine (`PipeLogs`, `CopyLine`, `LogsEnd`, `LogsFail`). `journal` counts how often
each line has arrived; `Restart` starts the unit again.

**DockerRun.** `pc` is the command's own goroutine; `hj`, `receiveStdout`, `sendStdin`
those of `hijack`; `sigc` the channel of signals and what reads it; `conn` the connection
as the daemon sees it, with attach and start as the server has them; `hijacked` and
`errCh` the two channels `CmdRun` selects from, closed in the order of the deferred
calls. `box` is the container, `file` the cidfile. `GetExitCode` has the three outcomes
of `getExitCode`: the state the daemon tells, an error, and -1 without an error when the
connection is refused (`NoCode`). A start that does not reach the daemon ends `docker
run`, but leaves `docker start -a` with its attach connection open (`CmdStart`). A
scenario (`scene`) fixes flags, faults and the number of signals.

**ApiServer, DockerCli.** `ApiServer` translates each handler into the job it runs, its
environment (a set of <<name, value>> pairs) and the way its output is answered, and
gives the status and body for every outcome of the job. `StepsOf` in `DockerCli` is a
command's list of requests; the actions send one, run its job with an outcome of the
daemon's choosing, and read the answer as `call`, `stream` and the command do. `Refuse`
is a failure of the client's own: a port that is not `Published`, found out from a good
answer, or a repository that is `Rooted`, refused before anything is asked. `exit` is the
command's status, `failed` is `encounteredError`.

**ApiStartup.** `at[a]` is where the goroutine of an address is between `ServeApi`'s `go`
and its end; `lock` is `activationLock` (nil, made, closed). Its specification is
`ApiSpec`: the module shares no name with `Engine`, so that one module of proofs extends
both.

**Engine.** `run[r]` is where a call of `Run` is, `down[d]` where a call of `Shutdown`
is; what the code does under `eng.l` is one step. The two timers are alternatives of
`JobsDone` and `HooksDone`, allowed when `Env` says that jobs are slow or handlers
stuck. `early` is history: the jobs counted when `Shutdown` began.

**EventMonitor.** Go's RWMutex is modelled as Go documents it, a waiting writer keeping
new readers out, which is what makes the recursive read lock of `sendEvent` matter.
`user[l]` owns listener `l` and adds and removes it; `monitor`, `reader`, `sender` and
`updater` are the goroutines of `monitorEvents`, `eventHijack`, `sendEvent` and
`updateLastSeen`; `C` and `errC` exist anew each time the monitor is enabled. An event is
its time, which is all that `lastSeen` is about. `received` and `missed` are history: the
events taken from a channel, and those that nobody will ask the daemon for again, because
monitoring was off when they came or a connection was made while `lastSeen` was zero.

**FakeServer, ContainerLifecycle.** `req[p]` is the request a goroutine serves and how
far it has got: found, acting, notifying. The promise is `ContainerLifecycle`: every
request takes effect at one moment, and each change of state is to be sent once.

## 3. The runs

| run | instance | what it shows |
|---|---|---|
| `core` | 1 unit, 2 ids, 3 pids, 2 versions of `ExecStart`, all pairs of options; failing calls, kills, stops, `KillMode=process`, `docker rm`, `docker run` | `Supervises`: `Supervision` is implemented; `TrackedByUnit`: systemd follows no process outside the unit's cgroup; `AnnouncedProcess`: what was announced is of the container `c.Id`; `SyncWhileSupervised`: what `keepAlive` watches is what systemd and the pid file know; `NoOrphans`; `RmLeavesNothing`; `RemovesOnlyStopped`; `RmNeverRevives` |
| `two_units` | 2 units of three kinds, 2 ids, 2 pids; `docker start`, `rm`, `run` by hand | `Isolation`: a unit's steps leave the other's containers and processes alone |
| `recovery` | `FairSpec`, named units with and without `--rm`, all disturbances | `Recovers`: once they are over for good, the unit ends up served |
| `restart_desync` | only `docker start`/`restart` by hand | `SyncWhileSupervised` fails: after a docker restart `keepAlive` goes on with the new process, which was neither moved nor announced (README.md:6 says things stay in sync). `recovery` shows that systemd then restarts the unit |
| `move` | 3 processes, 2 hierarchies, 3 kinds of `--cgroups` (one with a name no hierarchy has); forks, exits, failing calls, retries; `FairSpec` | `TypeOK` (no hierarchy in which the container is in `/` gets on the list); `SnapshotMoved`: all that was listed and lives is moved; `AllMoved`: everything is, unless something forked or an attempt failed; `OnlySelected`; `Terminates`; `TakesOver`: `Takeover` is implemented |
| `main` | some 16600 command lines, each with and without a socket of systemd, over 3 starts with a log of 2 lines; failing calls, kills, people who start and remove the container; `FairSpec` | `RunUnderstood`: what `docker run` is asked for, and what the words behind `run` do not change; `OnlyTheEndIsLost`; `LinesOnce`; `Piped` |
| `run` | 2 commands, 2 exit codes, 3 signals one of which has no name; three kinds of scenario (below); `FairSpec` | `RunTellsTheCode`; `SignalsInOrder`; `NoEmptyCidFile`; `Ends` |
| `cli` | every command with every set of its options, two names in both orders (one a published port, the other a root repository), three versions of the API; a daemon that fails in every way, or is not there | `StatusTold`: the exit status is true; `EachTried`; `OptionsReach` |
| `startup` | one socket of systemd's, one path, one TCP port; every step may fail; listeners that hold connections back | `NotBeforeInstalled`; `ServedOrTold`: who waits gets served, who fails ends `serveapi`, and the umask comes back |
| `engine` | 2 jobs, run again and again, 2 calls of `Shutdown`, 1 shutdown handler; slow jobs and stuck handlers; `FairSpec` | `TasksExact`; `HooksOnce`; `EarlyJobsFirst`; `ShutdownReturns` |
| `events` | 2 listeners, 1 monitor, 2 readers, 2 deliveries, 2 events, channels of 1, at most 3 parties at once; refused connections, garbage, ended responses, unread channels | `CounterExact`; `NoSendAfterRemoval`; `NoneSkipped`; `RemovalGoesOn`: a removal hangs only behind a delivery that is held up, or in `Wait` behind a listener added since, whatever else goes on meanwhile |
| `fake` | 2 requests of any kind, 2 containers, 1 image, 1 tag; prepared failures, custom handlers, mutations | `NotifiedOnce`; `Answered`; `Lifecycle`: `ContainerLifecycle` is implemented |

`TypeOK` is a conjunct of one of the invariants listed where it is not listed itself (in
`Service`, `LogPipe`, `DockerRun`, `DockerCli`, `ApiStartup`, `EventMonitor` and
`FakeServer`); that of `Engine` is proved.

**Bounds.** *Service:* `MaxArgs` (versions of `ExecStart`) is the only counter; two
versions are enough to tell old from new. Two ids: an old container and its replacement,
both of which the program may hold; names being unique a third has no new role with
`--name`, and without it a full daemon is one more failure of `DockerCreate`. Three pids:
the process systemd was told of, the one the pid file names and the one that runs now can
all differ. Two units suffice for isolation because an action reads the state of one unit
only. `MCPairs` holds every possible pair of option values.
*CgroupMove:* nothing counts up. Three processes are c.Pid, one that is moved or left and
one that forks or dies meanwhile; with two hierarchies one can be dealt with, skipped or
not selected while the other is not.
*LogPipe:* `MaxLines` 2 is a line and one after it, `MaxRuns` 3 an attempt, one that
finds the container running and one that finds it ended. The command lines: every two
words of systemd-docker's options before three kinds of `docker run`, and every three
words behind `run`: an option that takes a value, its value and what comes after it. Two
of the words only begin like `--name`.
*DockerRun:* a scenario is one command with any set of flags when anything may fail, one
that is sent two signals (two are enough to come out of order), or two that may share a
cidfile. Two signals do not meet dials that fail, and the two commands that share a file
have no flags but that: the state would multiply without one part reading the other's.
*DockerCli:* a second name is tried after the first has failed, or not; of the versions
1.8 is old, 1.14.0 the server's and 1.15 too new for it.
*EventMonitor:* `MaxTime`, `MaxGen`, `MaxRetries` and `Cap` bound events, enablings,
reconnections and channels; `MaxParties` bounds listeners and connections together: two
listeners with one connection, or one with two that overlap. With `MaxRetries` 0 the
first reconnection that is refused ends the monitor.
*FakeServer:* two requests at a time and as many one after the other as the ids allow
(an id is not used twice).
Ids, pids, requests and the like are symmetric, except where liveness is checked.
What section 4 proves depends on none of these numbers.

**Deadlock** is not looked for in `cli`, `engine`, `events`, `fake`, `main`, `move`,
`run` and `startup`: a command, a shutdown or a move ends and nothing is left to do, and
the event monitor and the fake server really can block for ever (below). What may block
there is stated as a property instead (`RemovalGoesOn`, `Answered`).

**Fairness.** Only liveness properties use it. *Service:* weak fairness of the program
and of its child, sequential processes whose calls return; of `StopUnit` while systemd
gives up on the unit and of `StartUnit` (`Restart=always` and `TimeoutStartSec` in
`example/nginx.service`); of `Reap`: the daemon waits for its children. Nothing is assumed
about failures, people, or containers ending; `Recovers` only speaks of behaviours in
which these end for good (`<>[][Calm]_vars`). *CgroupMove:* the loop itself; none of its
calls blocks, and forks and exits need not stop. *LogPipe:* the goroutine gets its turn.
*DockerRun:* every goroutine and the daemon go on, and a container comes to its end; that
the user ends the input is not assumed (`Ends` asks it only of a terminal). *ApiStartup:*
goroutines run and the daemon gets installed; no listener is assumed to fail.
*Engine:* `Shutdown` goes on, by its timers if need be; jobs and handlers only when they
are not slow or stuck.

## 4. The proofs

Every invariant below is inductive, was checked by TLC on the run's instance before it
was proved, and is proved for every value of the constants that meets the assumptions its
module names. TLC evaluates these on every run.

`ServiceProofs` assumes that the "no" values are not members of the sets they stand
beside, `--notify` only with a socket, and `MaxArgs` positive:

| theorem | |
|---|---|
| `TypeCorrect` | `Spec => []TypeOK` |
| `MainProcessTracked` | `Spec => []TrackedByUnit` |
| `MainProcessOfContainer` | `Spec => []AnnouncedProcess` |
| `OneContainer` | `Spec => []NoOrphans` |
| `UnitsIsolated` | `Spec => Isolation` |
| `RmRevivesNothing` | `Spec => RmNeverRevives` |
| `RmLeavesNone` | `Spec => []RmLeavesNothing` |
| `StoppedIsRemoved` | if `"start" \notin Env`, `Spec => RemovesOnlyStopped` |
| `InSync` | if `"start" \notin Env`, `Spec => []SyncWhileSupervised` |
| `ImplementsSupervision` | `Spec => Supervises` |

The argument. `TypeOK` is not inductive: `GetContainerPid` is well typed only because
`c.Id` is set there. `TypeInv` adds `Control` (what `Id`, `Pid` and `target` are at each
point of the program) and `HostInv` (the daemon's pid of a container is a process of that
container; a name is given once). `Inv` adds `Tracks`: `c.Id` is a container the unit may
own, `c.Pid` is a process of it, the main process is `c.Pid` or systemd-docker itself,
and past the move `c.Pid` is in the unit's cgroup. The cgroup of a process changes only
when it is started (with a pid nobody holds) or when a unit moves it; two units never
hold the same pid because its home container has one owner (`OneHolder`). For orphans,
every container a named unit made carries its name (`MadeNamed`), and names are unique.
Each step is checked once for the unit that takes it, and the others are unaffected
(`OthersSame`, `HeldSame`).

The action properties rest on two lemmas that say what a step asks of the daemon:
`UnitStepDaemon` for a unit's step, which names only ids the unit holds, and `NextDaemon`
for any. `Isolation` needs `Belongs` besides: a living process is the one the daemon runs
for its container, and in a unit's cgroup only if the container is one that unit may have;
so neither a removal nor a move nor a unit's end reaches another unit's process. `Course`
says where the docker run child may be: it is idle unless systemd-docker reads from it or
has failed, and the container it is about to start was created with the present arguments.
That is what `RmNeverRevives` needs, and with it nothing comes after the removal in
`RmLeavesNothing` - which turns out to hold with `docker start` by hand as well.
`Settled` says that what is about to be removed does not run, and that a running `c.Id`
runs as `c.Pid`. It is inductive only if nobody starts containers by hand: all others that
could start what a unit has the id of are its own child, idle by `Course`, or other units,
which have no right to it (`OthersUnstarted`). The hypothesis is a statement about the
constant `Env`; the runs `core` and `restart_desync` show both sides of it.

`ImplementsSupervision` shows for every action which step of `Supervision` it is, or that
it is none: a request may start a process (`Spawn`, whose pid is new because systemd and
the pid files are among those that hold one) or remove one (`Clear`, of the unit or of
none by `UnitStepIsolated`), a move is `Join`, `NotifyMainPid` is `Tell`. The guards of
the abstract steps come from the invariant: that `c.Pid` has been moved by the time it is
told or written is in `Tracks`, that `mainPid` is still systemd-docker's own before
`notify` is in `Course`, that a unit is started only when its main process is gone is
systemd's. What `MainProcessTracked` says of every state follows here for every step as
well: who kills, who is moved, and when what systemd knows may change.

`CgroupMoveProofs` assumes that `name=systemd` is a hierarchy and c.Pid a process:

| theorem | |
|---|---|
| `MoveTypeCorrect` | `Spec => []TypeOK` |
| `MovesMain` | `Spec => []MainMoved` |
| `MovesWhatItLists` | `Spec => []SnapshotMoved` |
| `MovesOnlySelected` | `Spec => OnlySelected` |
| `MovesAllWhenQuiet` | `Spec => []AllMoved` |
| `ImplementsTakeover` | `Spec => TakesOver` |

The invariant `IInv` says that a process is where docker put it or, in a hierarchy to be
moved, where systemd-docker is (`Places`); that what was listed and lives has been moved or
is in hand (`Listed`); and that c.Pid has been listed in each hierarchy that is behind,
unless it was there before (`MainListed`). `MainMoved` needs all three: after a retry some
hierarchies are skipped, and that these are exactly the ones c.Pid is right in follows
from `Places`. (`MainMoved` is proved and, being what `Takeover` asks before `done`, part
of what the run checks with `TakesOver`.) For `MovesAllWhenQuiet`, `AllListed` adds that
in a first attempt without forks every living process is listed.

`DaemonProofs` has the two parts of the daemon's own start and end. Of the engine it
assumes that there are finitely many calls of `Run`:

| theorem | |
|---|---|
| `EngineTypeCorrect` | `Spec => []TypeOK` |
| `CountsJobs` | `Spec => []TasksExact` |
| `CallsHooksOnce` | `Spec => []HooksOnce` |
| `JobsBeforeHooks` | `Spec => []EarlyJobsFirst` |

`IInv` is `TypeOK`, `TasksExact` and three more: one call of `Shutdown` at most is at
work, and no handler has been called before it gets there (`OneShutdown`); an early job
stays counted or refused, it is not run anew (`EarlyCounted`); and when the handlers are
called the early ones are over (`EarlyOver`). The counter is a cardinality, so each step
that changes it is one element more or less (`CountUp`, `CountDown`).

Of the listeners it assumes what `ApiStartup` does, finitely many addresses with one
protocol each:

| theorem | |
|---|---|
| `SpecNotBeforeInstalled` | `ApiSpec => []NotBeforeInstalled` |

`Gate` says that the lock is closed only by `acceptconnections` and that who has passed
it has seen it closed; `Results` that a goroutine that has returned has sent one error.

`LogPipeProofs` assumes that the bounds are numbers, whatever they are, and nothing of
the command lines:

| theorem | |
|---|---|
| `SpecOnlyTheEndIsLost` | `Spec => []OnlyTheEndIsLost` |
| `SpecLinesOnce` | `Spec => []LinesOnce` |

Each start copies from the first line on, so a line is in the journal at least as often
as the next (`Ordered`), and at most once for each start (`OncePerRun`). Without
disturbances a start that fails has left nothing running, and what is run anew has a log
of its own (`OwnLog`); a line is there twice only if a later start found the container
still there. What a command line is parsed to does not matter here, only that it is
parsed first.

`DockerRunProofs` assumes that 0 is an exit code, that -1, "failed" and "none" are not, and
that a command is not called "absent" or "empty", which are states of the cidfile:

| theorem | |
|---|---|
| `SpecRunTellsTheCode` | `Spec => []RunTellsTheCode` |
| `SpecSignalsInOrder` | `Spec => []SignalsInOrder` |
| `SpecNoEmptyCidFile` | `Spec => []NoEmptyCidFile` |

All of `IInv` but one conjunct is about each command by itself (`Mine`), so a step need
only be looked at for the command that takes it (`Framed`). `Hijacks` says how far the
goroutines of `hijack` can be when `CmdRun` is at each of its steps, `Codings` what the
command has learned of its container by then; the code is the container's because the
container has come to its end before it is asked for, unless it is the -1 of a connection
refused, which only a `docker run --rm` takes for a code (`NotTold`). `Signalling` says
that the channel holds the last of the signals sent and that the rest have been forwarded
in order. The exception is `File`: an empty cidfile belongs to a command that is still to
write or to remove it.

`DockerCliProofs` assumes that the commands are ones with options and that a command has
at least one argument, none of them empty:

| theorem | |
|---|---|
| `SpecStatusTold` | `Spec => []StatusTold` |
| `SpecEachTried` | `Spec => []EachTried` |
| `SpecOptionsReach` | `Spec => []OptionsReach` |

The heart is what an answer says of the job: for a handler that answers after its job is
over, a good answer comes from a good job and only from one (`TellingAnswer`); for one
that has sent a status before (`Unsure`), a good job gives a good answer (`VagueAnswer`).
Both are proved handler by handler, and `StepsWellFormed` command by command says which
handlers its steps are sent to. `IInv` then counts the requests against the steps
(`Counted`, `Awaited`, `InOrder`), and keeps that a failure has been met when one is
reported, or what was asked for is refused (`Blamed`), that all jobs have been done, or
tried again under the same name, when none is (`Vouched`), and what has been printed
(`Printed`). `Undone` keeps that a port that is not published and a root repository never
end well.

`SpecOptionsReach` needs two things more. `OptionsTell` goes through the table of options
command by command: each set of options gives some parameter of the query a value that it
has not otherwise, in each request that may close the command, and `Setenv` passes that
value on to the job, for every version of the API. `Follows` keeps that the steps left
are the last ones of the command, that a good answer is to the job of its step, and that
a command that has got through has run the job of a request that closes it.

`EventMonitorProofs` assumes that there are finitely many listeners and deliveries, and
that owners, monitors and deliveries are told apart:

| theorem | |
|---|---|
| `SpecCounterExact` | `Spec => []CounterExact` |
| `SpecNoSendAfterRemoval` | `Spec => []NoSendAfterRemoval` |
| `SpecNoneSkipped` | `Spec => []NoneSkipped` |

The counter is a sum of two cardinalities: the listeners, and the deliveries that hold
the lock for reading. An owner changes the list only while it has the lock for writing
(`Writers`), and removes only what it has added (`Added`). `NoSendAfterRemoval` is
inductive with `Sending`: only a delivery that has the lock has listeners left. For
`NoneSkipped`, `Stream` follows an event from the daemon to `lastSeen`: what comes before
an event in the channel has been taken or is in the channel before it (`NoGap`), a
connection is not ahead of the channel (`Followed`), a channel of the past has only what
came before the monitor was enabled again (`Channels`), and what is still to be recorded
as seen has been taken, with all before it (`ToRecord`); each of them but for what is in
`missed`, of which section 5 says what it can be.

`FakeServerProofs` assumes that containers and images have different ids and that there
are finitely many requests at a time:

| theorem | |
|---|---|
| `SpecNotifiedOnce` | `Spec => []NotifiedOnce` |
| `SpecLifecycle` | `Spec => Lifecycle` |

What is owed for a container is the number of requests that are about to notify (`Owed`),
a slice has no container twice (`Slice`), and a request that has found its container has
the id of one that was created (`Requests`), even if it is gone by now. With that, each
handler's step is a step of `ContainerLifecycle` or changes nothing there; a removal by a
stale index is one that takes away another container, which the abstract specification
allows and section 5 tells of.

Only model-checked:

- liveness: `Recovers`, `Terminates`, `Piped`, `Ends`, `ServedOrTold`, `ShutdownReturns`;
- `RemovalGoesOn` and `Answered`, which say `ENABLED`;
- `RunUnderstood`: what the folds and recursive functions of `ParseArgs` compute for a
  command line is a matter of induction over its words.

## 5. Where code and documents part

One is a finding with a run of its own (`restart_desync`). The others were met while
modelling; the models have them, and the properties say exactly what is left:

- A container started between the inspection and the removal is removed though it runs
  (`main.go:167`, README.md:54); `RemovesOnlyStopped` holds without `docker start` by
  hand.
- A start that fails after `docker run` leaves a running container, which the next start
  takes over with its old arguments (`main.go:162`).
- A container that ends before it is inspected, moved or announced makes the start fail
  (main_test.go:223 expects of such a one that it succeeds).
- A process forked between the reading of `cgroup.procs` and its parent's turn stays in
  docker's cgroup, and so does what a failed attempt left when the next one finds c.Pid
  moved (README.md:79): the two exceptions in `AllMoved`.
- Any word behind `run` that begins with -name or --name names the container, one of the
  container's own command too, and the last one counts (`main.go:113`); `RunUnderstood`
  speaks of command lines in which such a word stands only where docker has its `--name`.
- Lines are repeated after a re-attach, and the end of a log may be lost: `LinesOnce` and
  `OnlyTheEndIsLost` say when and what.
- docker run: a dial that fails may be taken for the acknowledgement of the hijack, and
  the acknowledgement comes before the streams are attached, so early output may be lost;
  signals sent before the container runs are lost; one without a name becomes SIGKILL; a
  command waits for its standard input when it has no terminal (`WaitsForInput`); two
  commands with one `--cidfile` may both find it absent.
- docker run --rm: when the daemon refuses the connection on which the exit code is asked
  for, `getExitCode` returns -1 and no error (`utils.go:206-210`); the command goes on to
  remove the container and ends with -1 (the exception in `RunTellsTheCode`).
- docker start -a: when the request to start is lost, the command still waits for the end
  of the attached stream (`commands.go:683-687`), which a container that does not run
  never brings (`WaitsUnheard`).
- docker client: `pull --tag` is never sent (`OptionsReach` leaves `pull` out); a 404
  is taken for a missing image; errors behind the first byte of `cp`, `export`, `save`
  and `logs` are not errors of the command (`Unsure`). What a command refuses of its
  arguments without a request (too few of them, a bad template, a path without a colon,
  a build context that cannot be read) is left out but for `push`, whose rule
  `StatusTold` names.
- API listeners: READY=1 is sent whether or not a listener exists; had `acceptconnections`
  run first, the lock made afterwards would never be opened (`ServeApiFirst` is TRUE in
  the run; the daemon's main program, which starts both, is not in the repository). Two
  paths at once may lose the umask, each taking the other's for the old one; the run has
  one.
- engine: a job that has passed the check may run on after `Shutdown`; jobs get five
  seconds, where a comment says that there is no timeout.
- event monitor: a send on a closed `C` panics; a listener may be added to a monitor that
  has been disabled; `sendEvent` takes its read lock twice and deadlocks with a writer in
  between. Until an event has been recorded, a connection made anew asks for none of
  the past, so what had not been handed on before is lost (`missed`). A removal that finds
  the list empty may wait for a listener added since (`event.go:78`, the last case of
  `RemovalGoesOn`).
- fake server: a container is removed by a stale index, or while it runs; `findImage`
  takes its read lock twice (`FindImageStuck`).

## 6. Abstractions, and what is not modelled

- In `Service` a container has one process and there is one cgroup hierarchy, the one
  `--cgroups` must name (README.md:79); `CgroupMove` has the rest.
- Processes in sub-cgroups of the container's cgroup, and a `--cgroups` given twice, are
  left out of `CgroupMove`.
- A process that has ended is gone from `/proc` at once, except that the write of a
  zombie's pid may succeed (`WritePid` of `CgroupMove`).
- A pid is never reused while somebody holds it. With reuse no promise of the program
  would hold: it has nothing but the number (the hazard at `main.go:416`).
- The id `docker run` prints before an error is not kept (`c.Id` is not used after one).
- Image pulls are part of `DockerCreate` in `Service`; `DockerRun` has them.
- An error after the daemon has done what it was asked for is the same as the request
  followed by a kill.
- A request has the parameters that some option sets or some job reads; an option given a
  value has one value that is not its default. Bodies are "done", "empty", "garbled" and
  the like.
- Not modelled: the debug, ping, viz and resize routes, login and the credentials sent
  along, the image tree and the tables printed, the build context, a job's output streams
  (`engine/streams.go`), `StdCopy`, go-dockerclient's request layer, and `utils` and
  `opts` beyond what is named above: no state that outlives a call, or I/O and
  formatting. The build scripts (`build`, `image/`) have no state of a running
  system.

## 7. What could come next

1. `MainProcessTracked` derived from `Supervision`, of which alone it is a consequence.
2. `Service` with the `docker run` of `DockerRun` in place of its two requests.
