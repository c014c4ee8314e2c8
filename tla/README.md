# Verification of the InitWare scheduler daemon

The TLA+ development kept beside `cmd/schedulerd`: models of its scheduling core, the
TLC runs that check them on small instances, and TLAPS proofs for all instances.
File names below are relative to the repository; `scheduler/`, `app/`, `js/` and
`restarters/` are under `cmd/schedulerd/`.

## 1. The system

The daemon holds a graph of *objects* (systemd units, mostly). Asked for an operation
on one of them it generates a *transaction*, the set of jobs that the edges of the
graph demand, and carries the jobs out in the order the `kAfter` edges prescribe, each
through the *restarter* in charge of the object.

| Part | State | Operations | Interaction |
|---|---|---|---|
| Event loop (`app/app.cc`) | `m_timers`, the kernel queue, descriptor watches | `add_timer`, `del_timer`, `handle_timer`, `loop`, `add_fd`, `del_fd` | calls the callback of an expired timer |
| Job scheduler (`scheduler/scheduler.cc`) | `transactions`, `running_jobs`, `last_jobid`, state, id and timer of each job | `tx_enqueue`, `tx_enqueue_leaves`, `job_runnable`, `job_run`, `job_complete`, `job_timeout_cb` | calls `Restarter::start()`, which may call `job_complete()` before it returns |
| Transaction generator (`scheduler/txgen.cc`) | `jobs`, `objective`, requirements between jobs | `job_submit`, `verify_acyclic`, `try_remove_cycle`, `merge_jobs` | reads the object graph, yields the transaction |
| Object graph (`scheduler/scheduler.cc`, `object.h`) | `objects`, `m_aliases`, `edges`, `edges_to`, `m_loadqueue` | `object_add`, `object_get`, `object_load`, `object_remap_unowned_edges`, `edge_add`, `dispatch_load_queue` | asks JavaScript to load an object that is not known yet |
| Restarters (`restarters/`, `js/restarter.cc`) | none | `start`, `stop` | `TargetRestarter` answers success within `start()`, `JSRestarter` calls JavaScript, which may answer at any time |
| JavaScript host (`js/js.cc`), bindings (`js/scheduler.cc`, `js/fs.cc`) | the QuickJS runtime, its timers and pending jobs | `setTimeout`, `loadObject`, `jobComplete`, `objectLoad`, file system calls | on the event loop |
| Manifest loader (`lib/iwjs/sdloader.mjs`) | none of its own | `loadSystemdUnit` | reads unit files, calls `objectLoad` |
| Start-up (`schedulerd.cc`) | | loads, starts `default.target` | `exit(0)` before `app.loop()` |

What is hard here. There is one thread, but it is *reentrant*: a completion runs further
jobs, whose restarters complete them, while the loops of the outer calls are still
going. Answers race timeouts. Units are loaded while names of theirs are already in use.
JavaScript holds bare pointers to timers, and clears them from within their callbacks. Ids are given out lazily. A restart job turns into a
start job in mid-flight. Submission and cycle detection recurse along a graph that may be cyclic,
and cycle removal deletes from the containers being walked. The properties that make
each part correct:

* event loop and JavaScript host: no event leads to a freed object, the loop keeps coming back to
  `kevent()` with each timer that is due armed, jobs left pending are run before the loop blocks again;
* job scheduler: no wakeup is lost, the order is respected, a job is started once and
  settled once, a running job is timed and does not run for ever;
* transaction generator: the jobs are exactly those the edges demand, the order graph
  of an accepted transaction is acyclic, what the goal was asked for and requires is not deleted, requirements
  connect existing jobs, one job per object is left, generation ends;
* object graph: `edges` and `edges_to` mirror each other, a name belongs to one object,
  every name that is mentioned gets its turn to be loaded, loading ends;
* manifest loader: every directive of a unit reaches the graph;
* the whole: what the unit files say about order and requirements holds of the calls of
  `start()`, and the daemon gives up only on units that contradict themselves.

## 2. Modules

| Module | Models | Used by |
|---|---|---|
| `Lists` | a pass over a `std::list` that keeps the elements sought (`Filter`) | extended by `TxGen`, `ObjectGraph`, `Boot` |
| `Evloop` | the timers of `App` | extended by `JobSched`, `JSHost` |
| `JobSched` | the job scheduler with its restarters, composed with `Evloop` | `JobSchedRefines`, `JobSchedProofs`, `Boot` |
| `JobOrder` | nothing of the code: what the job scheduler promises | `JobSchedRefines` |
| `JobSchedRefines` | the refinement mapping from `JobSched` to `JobOrder` | `MCJobSched`, `JobSchedRefinesProofs` |
| `TxGen` | the constructor of `Transaction` | `MCTxGen`, `Boot` |
| `ObjectGraph` | the object graph, the manifest loader and the loading part of `main()` | `MCObjectGraph`, `Boot` |
| `JSHost` | JavaScript timers, promises and pending jobs, descriptor watches, `App::loop()` | its `.cfg` |
| `Boot` | `main()`: `ObjectGraph`, `TxGen` and `JobSched` one after the other | `MCBoot` |
| `MCJobSched`, `MCTxGen`, `MCObjectGraph`, `MCBoot` | instances for TLC | the `.cfg` files |
| `ListsProofs` | lemmas on lists and `Filter`, least numbers and functions applied repeatedly | extended by the proofs below |
| `EvloopProofs` | lemmas on `add_timer` and `del_timer` | extended by the next two |
| `JobSchedProofs` | theorems about `JobSched` with any restarters | `JobSchedRefinesProofs` |
| `JSHostProofs` | theorems about `JSHost` | |
| `JobSchedRefinesProofs` | theorems about `JobSched` with restarters of one kind, and the refinement of `JobOrder` | |
| `TxGenProofs` | theorems about the three phases of `TxGen` | `BootProofs` |
| `ObjectGraphProofs` | theorems about `ObjectGraph` | `BootProofs` |
| `BootProofs` | theorems about `Boot`: from the unit files to the calls of `start()` and to the exit | |

Recursion in the modelled code is written with recursive functions and with stacks that are
variables, never with `RECURSIVE`, so that all modules but those for TLC can be reasoned about.

### Evloop

`m_timers` maps the address of each live `Timer` to its `m_udata`; `kq` is the set of
addresses the kernel has an event for. They are apart because the code lets them
diverge: a delivered one-shot event is gone from the kernel while its `Timer` stays in
the list until `del_timer` (so a timed-out job leaves a dead `Timer` behind). Addresses
are reused, lowest first; they are only compared for equality.

### JobSched

Variables carry the names of the fields they model. Two are about control.

`calls` is the call stack. In `tx_enqueue_leaves()`, `job_complete()` and `job_run()`
nothing happens after a nested call except the next turn of the caller's loop, so the stack is
exactly the list of turns still to be made, innermost first: a `leaf` turn of the loop
of `tx_enqueue_leaves()`, an `other` turn of the loop at `start_others` (or the check of
the job a restart was converted to), a `start` turn for the call of `Restarter::start()`.
Every turn evaluates its condition when it is made, as the code does. With `calls`
empty the program is in the event loop.

`asked` are the `start()` calls that have returned without an answer. A restarter
answers a call at most once; when and what is chosen freely from `Answers` and
`Results`: `{"within"}`/`{"success"}` is `TargetRestarter`, `"later"` is JavaScript.

`crashed` is set where the code dereferences the null pointer that
`running_jobs[id]` creates for an unknown id (the release build compiles the asserts out).
`starts` is a history variable. Each action is one handler or one turn of a loop:

| Action | Code |
|---|---|
| `tx_enqueue` | `Scheduler::tx_enqueue` up to the loop over the leaves of `transactions.front()` |
| `tx_enqueue_leaves` | one turn: id if there is none, then `job_runnable`, `job_run` |
| `start_others` | one turn of the loop at the end of `job_complete` |
| `start_answers`, `start_returns` | the restarter calls `job_complete` within `start()`, or does not |
| `jobComplete` | JavaScript answers later |
| `job_timeout_cb` | a timer elapses |

Generated transactions enter as a choice from `TxSpecs`: one job type, or none, for
each object, as `OneJobEach` of `TxGen` says. The object graph enters as a choice from
`OrderGraphs` and does not change. `GraphAssumption` asks that the two sides of an edge
agree, which `edge_add()` establishes; `MirroredUnlessSplit` of `ObjectGraph` says when
loading keeps it.

### JobOrder and the refinement

`JobOrder` is the scheduler without call stack, ids, timers and wakeups: what is to be
done to each object (`work`), how far that is (`status`), and four actions, `TakeUp`,
`Begin`, `Succeed`, `Fail`. A job begins when those ahead of it have succeeded; what is being
stopped is not waited for; a restart that succeeds goes back to waiting, as a start.
`JobSchedRefines` maps a job of the front transaction to it: running means that `start()` has been
called for its present type, whether or not `running_jobs` still has the entry. Two
properties say that the one implements the other: `ImplementsJobOrder` (every step is a
step of `JobOrder` or none) and `CarriesOutJobOrder` (its fairness too). A second call of `start()` for a
running job is a stuttering step of the refinement; `StartedOnce` is about that.

If one restarter answered from within `start()` and another left jobs under the id -1
open, a job could be settled by the answer meant for another job that ran under -1, and settled again later:
the refinement fails there. So does `RunningIsTimed`, and not only of the id -1: a job that was left open under -1 and started
again under its own id is in `running_jobs` twice, and when it is settled under the one the entry under the other stays, without a timer. The instances let restarters do one or the other. The theorems of
`JobSchedProofs` hold for any mix; those of `JobSchedRefinesProofs` assume one kind (`OneKind`).

### TxGen

Jobs are identified by object and type, `reqs` and `reqs_on` are one set. The three phases
of the constructor follow each other in `phase`. In `submit`, `agenda` holds the edge
visits still to be made, innermost recursion first (`add_req()` comes after the recursion
in the code, but nothing reads a requirement before submission is over). In `verify`,
`cursor` is the position of the loop over `jobs` and `path` the depth-first
search of `object_creates_cycle()`, each object with its next edge. In `merge`, each step is
a turn of the loop over the list of one object. `get_del_list(j)` is `{j}`: the function
returns when it has found the job, before its loop over the requirers. `EdgeLists`
gives each object its list of edges. Every edge leads to an object: `object_get()` makes one for an
unknown name, so `job_submit()` never returns `NULL`.

### ObjectGraph

| Action | Code |
|---|---|
| `script_load` | the start-up script calls `loadSystemdUnit()` |
| `dispatch_load_queue` | one turn of the loop: `loadSystemdUnit()` for the front of the queue |
| `bind_alias` | a turn of the loops of `object_load()` over the aliases: remap the edges of the object the name led to, bind the name |
| `edge_add` | a turn of the loops of `object_load()` over `edges_from` and `edges_to`, with the placeholders it makes |
| `main_object_get` | `main()` gets the object it will start |

`object_load(n)` is what the first two share: find the unit behind a name, make the new
object and work out the names to bind and the edges to add, kept in `to_bind` and `to_add`.
Nothing comes between the turns; the code first takes all names away and then binds them,
which makes no difference as the names of a walk that ends at a file are distinct.
Objects are numbered as they are made and none goes away, as in the set `objects`.

`files` is the file system: at each name nothing readable (which includes a file that does
not parse: `loadObject()` logs the exception), a symbolic link, or a unit given by the
names in each directive. That abstracts `decode()`, drop-in directories (which add to `Wants` and
`Requires`) and the two lookup paths. Names are canonical: the loader appends
`.service` to aliases but not to the names in directives, so the model is about units that
write suffixes out. `get_symlinks()` returns to the start of its loop with a pointer to a
buffer whose scope has ended; the model takes the buffer to be still intact, as it is in
practice.

The types of `edges_from` are combined, those of `edges_to` replace one another in the order
of `depTypes`, as the code has it.

### JSHost

| Action | Code |
|---|---|
| `setTimeout`, `setInterval` | the constructor of `JSTimer`, with `add_timer` |
| `clearTimeout` | `del_timer`, and `delete` of the `JSTimer` |
| `settle_promise` | `JSPromise::resolve`/`reject`, or JavaScript: a job becomes pending |
| `add_fd`, `del_fd` | `App::add_fd`, `App::del_fd` |
| `script_ends` | the end of the start-up script in `main()` |
| `kevent`, `kevent_fails` | the call in `App::loop()`, for one event |
| `dispatch` | `handle_timer`, `handle_fd` up to the callback |
| `callback_returns`, `callback_throws` | the end of the callback; nobody catches an exception |
| `run_pending_jobs`, `job_returns`, `job_throws` | a turn of the loop, and the end of the job |

JavaScript is arbitrary: in the script, in a callback and in a job (`InScript`) it may
take any of the first rows, in any order, any number of times within the bounds.
`jstimers` are the live `JSTimer` objects with their `m_id`, `handles` the pointers
JavaScript has been given: `qjspp.h` wraps them with an empty deleter, so they keep nothing
alive. Use of freed memory ends in `pc = "corrupt"`. `misuse` records that a handle was cleared twice, which the code leaves
to JavaScript to avoid; `HandlesValid` says that nothing else goes wrong. A callback
may free its own `Timer` and `JSTimer`: the function called is a copy (`js_traits<std::function>` duplicates
it) and nothing of either object is read after it, so that this is harmless. Delays are
left out: any armed timer may elapse next. The narrowing of the delay from
`int64_t` to `int` (`js.cc:43`) is therefore outside the model.

### Boot

Each part is a named instance with its own variables. `load` is a step of `ObjectGraph`;
`new_transaction` translates the graph into the edge lists of `TxGen` (`TxEdges`) and the order
edges of `JobSched` (`OrderFrom`, `OrderTo`), and submits the objective; `generate` is a step of `TxGen`; `enqueue` hands the jobs
that merging has left to `tx_enqueue` of `JobSched`; `run` is a turn of its loops with
`TargetRestarter`; `exit` is the `exit(0)` of `main()`. A rejected transaction (`Rejected`) ends the
daemon, since nobody catches the string that is thrown. Unit files have no symbolic
links here, so a name stands for its object. Properties are stated from the directives in the files
(`Says`, `Needed`, `Required`), not from the edges. `Needed`, the jobs that starting the default unit cannot do without,
is the least set that has what its jobs need. `Required` are the default unit, what it `Requires=` or `BindsTo=`, what those
do, and so on. `Doubtful` are the units that are merely wanted, by whatever unit, with what those want or require: their jobs may be met
before it is known that they are required, and then what is below them is not marked (see the divergences below).

## 3. Runs

Passing runs:

| Run | Instance | What it shows |
|---|---|---|
| `JobSched_target` | all 25 acyclic orders of 3 objects, with and without repeated edges; every mix of none/start/stop/restart; two transactions; `TargetRestarter` | on return from `tx_enqueue()` all jobs have succeeded and no timer is left (`CarriedOutOnReturn`), none ran twice (`StartedOnce`), the inductive invariant of the proofs holds, also while jobs run under id -1 (`SchedInv`), and `JobOrder` is implemented with its fairness (`CarriesOutJobOrder`) |
| `JobSched_later` | chains, fork, join, repeated edge, along and against the order of the map; start with one stop or restart; later answers with success or failure; two transactions | types, `NoLostWakeup`, `RunningIsTimed`; a timer outlives its job only if that was started twice (`TimersAreOfRunningJobs`); no job runs for ever (`RunningEnds`); order and single settlement as `JobOrder` has them (`ImplementsJobOrder`) |
| `TxGen_build` | each ordered pair of 3 objects has one of three requiring/wanting/ordering edges or none, or one of four that mix start, stop, verify and propagation or none (19720 graphs); goals start, stop, restart, reload | submission is the closure of the demands (`NothingLeftOut`, `SubmissionIsClosure`); cycle detection is exact (`AcyclicUnlessRemoved`, `RemovedOnlyFromCyclic`); `ReqsConnectJobs`; merging leaves one job each (`OneJobEach`); marked jobs are spared (`GoalObjectsKept`); the objective and what firmly required jobs require keep a job of their kind, through cycle breaking and merging (`AimsMet`); `Terminates` |
| `ObjectGraph_load` | each of 3 names is missing, a link to another, or a file that says one of three things or nothing about each other (20577 file systems and scripts) | unless a unit is split, order edges are mirrored (`MirroredUnlessSplit`) and `Before=` reaches the other unit if nothing replaces it (`BeforeReaches`); no placeholder is forgotten (`PlaceholdersQueued`); a unit's own directives survive reloads (`OwnDirectivesKept`); loading ends (`LoadingEnds`) |
| `JSHost` | 3 timers at 2 addresses, one descriptor, 2 watches, up to 2 jobs pending at a time | no event leads to a freed object (`NoStaleEvent`); `Timer` and `JSTimer` stay paired while addresses are reused (`TimersPaired`); handles are good unless cleared twice (`HandlesValid`); the loop blocks with no job pending, the first time excepted (`DrainedBeforePoll`); unless jobs leave further jobs for ever, the loop always comes back to `kevent()` with each timeout and interval that is due armed (`TimersOffered`) |
| `Boot` | each of 3 units is missing or says one of three things (the default unit one of four) or nothing about each other; two scripts, one of which need not mention the default unit (15028 file systems and scripts) | the loaded graph is as the proofs about `JobSched` assume (`GraphFitsScheduler`); order from the file to `start()` (`OrderHonoured`); jobs only for units that were read (`JobsAreLoaded`); the default unit and what is required by it and by the units it requires are started (`RequiredUp`); the daemon gives up only for cause (`RejectedForCause`), leaves nothing behind (`CarriedOutAtExit`), stays within the table of operations (`OperationsNamed`) and ends (`BootEnds`) |

`SubmissionIsClosure` and `Acyclic` are stated from the edges, those of `Boot` from the
unit files, independently of the operators of the algorithm.

Runs that end in a violation, each of something the repository says of itself:

| Run | Says | Does |
|---|---|---|
| `JobSched_second_start` | `kRunning` is a state besides `kAwaiting` | nothing assigns it; a second edge to a running job starts the job again |
| `JobSched_late_answer` | restarters notify completion; jobs may time out | the answer after the timeout finds no entry and dereferences null |
| `JobSched_failure` | a job ordered after a failed one is uncovered or cancelled | it waits for ever |
| `TxGen_residual_cycle` | `verify_acyclic()` returns true if the transaction is now acyclic | only one cycle per object is broken; others remain |
| `JobSched_queue` | transactions are a queue | nothing pops it: the second transaction waits for ever |
| `ObjectGraph_alias` | an object found under any of its aliases is returned, not loaded again | a queued name that has become an alias is loaded once more: two objects for one unit |

Other divergences met while modelling, visible in the actions themselves and without a run of their own: two jobs
merge to a type that nobody stores, the second job keeps its own, so that a start and a verify job may
leave a verify job, whose unit is then never started, though `Requires=` asked for that (`txgen.cc:352` against `scheduler.h:159`;
`AimsMet` and `RequiredUp` say how far this goes: never beyond the types that edges ask for, and in `Boot` only for a unit of which a
unit says `Requisite=`); nothing makes a stop job wait for the
jobs that `after_order()` says run before it (`scheduler.cc:99`, `scheduler.h:141`);
jobs reached by `job_complete()` before `tx_enqueue_leaves()` run under the id -1
(`scheduler.cc:128`, `scheduler.h:49`); the timer of a job started twice outlives it
(`scheduler.cc:76`); jobs requiring a deleted job stay, and may so be run without what they require (`txgen.cc:79` against
`scheduler.h:183-185` and `scheduler.h:216`; no property asks that they go, `RequiredUp` says which units do get what they require); propagated jobs are required though documented as not
(`txgen.cc:476-485` against `object.h:77-91`; `Demand` follows the code, `Requiring` and with it `AimsMet` the header);
`goal_required` is not passed on by a job that
exists already, so that a job the goal needs can be deleted to break a cycle (`txgen.cc:461`,
`scheduler.h:188-189`; the jobs in `Loose` are those this can happen below, without that exception TLC refutes `AimsMet`; `Doubtful` stands for them in `RequiredUp`,
but with its three units the run `Boot` does not meet the case); `Before=` together with, say, `Requires=` or `Conflicts=` of the same unit
loses its order edge, as `edges_to`, a bitmask, is assigned and not combined
(`sdloader.mjs:378`); once a unit is split, edges put under its two names lead to different
objects and `edges` and `edges_to` need not agree, so that a completion can miss a waiting job; a second
`add_fd()` for a descriptor replaces the event of the first, and one `del_fd()` then takes it away from both
(`app.cc:62`, `app.cc:83`); an elapsed timeout is freed only if JavaScript clears it (`js.cc:51`); `run_pending_jobs()` has no limit, so that jobs
which always leave another one keep every timer and descriptor waiting (`js.cc:122`).

### Bounds

Three objects are the fewest with a chain, a fork, a join and a triangle, and so with a
job woken by two completions, or whose dependency completes while an outer loop has
yet to reach it. Two transactions (`MaxTx`) suffice because only the front one is ever
run: the second shows what enqueuing again does to it. `MaxTimers` is larger than the number of
timers a run can leak, so `add_timer` is never refused. Four objects are used where three
cannot show the case: after breaking one cycle from each object a cycle remains
(`Star`). For the object graph three names are the fewest with a link, its target, and a unit that
mentions either; what a unit may say (`Sayings`) combines an order with a requirement so that directives
that are combined, replaced and without reverse edge all occur. `MaxDepth` is the code's bound
of nine, not a bound of the model: loops of links run into it.

In `JSHost` two addresses for three handles force reuse while an older handle is still in
JavaScript's hands; two watches of one descriptor are the case where `EV_ADD` replaces an
event; two jobs at a time (`MaxJobs`) let one throw with another behind it; there is no bound on the jobs in all, so a program whose jobs go on for ever is among the behaviours. `Boot` fixes the order of `Transaction::jobs`
(the default unit in the middle) and takes fewer sayings than the parts alone: what it adds is their composition. A cycle
that `verify_acyclic()` lets pass needs four units, so `CarriedOutAtExit` makes the exception though this run does not meet it.

### Fairness

`MakeTurn` is weakly fair: a thread goes on with the calls it is in. Every
`job_timeout_cb(t)` is weakly fair: the kernel delivers an expired one-shot event. There
is no fairness on answers, since nothing makes a restarter answer, nor on
`tx_enqueue`. In `TxGen`, `ObjectGraph` and `Boot` there is one thread and its steps are fair.

In `JSHost` only `GoesOn` is weakly fair: JavaScript functions return, and the loop goes on. Nothing is asked of
`kevent()`, which may wait for ever, or return other events again and again. `TimersOffered` is therefore about the program and not about
the kernel: the loop gets back to `kevent()` and the event is still registered there. It makes one exception, `JobsNeverEnd`: the program
stays in `run_pending_jobs()` for ever while jobs leave further jobs. Without the exception TLC shows that very behaviour.

## 4. Proofs

The theorems hold for every value of the constants that satisfies the modules' assumptions:
`MaxTimersAssumption`, `GraphAssumption` and `JobSchedAssumption` for the scheduler,
`JSHostAssumption`, `TxGenAssumption`, `ObjectGraphAssumption` and `BootAssumption`. TLC evaluates these in the
runs of the same modules. They give the constants their types, say that an order enumerates
the set it is for, and, `GraphAssumption`, that the two sides of an order edge agree. That one
is an obligation on loading, and for unit files without links it is discharged: `LoadingFitsScheduler`
proves of `Boot` that the scheduler is given such a graph.

| Theorem | Property | Module |
|---|---|---|
| `SchedInvariant` | `SchedInv` | `JobSchedProofs` |
| `TypeCorrect` | `TypeOK` | |
| `NoWakeupLost` | `NoLostWakeup` | |
| `RunInvariant` | `RunInv` | `JobSchedRefinesProofs` |
| `RunningAlwaysTimed` | `RunningIsTimed` | |
| `TimersAccountedFor` | `TimersAreOfRunningJobs` | |
| `NeverStartedTwice` | `StartedOnce` | |
| `TargetsCarriedOut` | `CarriedOutOnReturn` | |
| `ImplementsOrder` | `ImplementsJobOrder` | |
| `HostInvariant` | `HostInv` | `JSHostProofs` |
| `TypeCorrect`, `PairedAlways`, `EventsLive`, `HandlesAlwaysValid`, `PollsDrained` | `TypeOK`, `TimersPaired`, `NoStaleEvent`, `HandlesValid`, `DrainedBeforePoll` | |
| `TxInvariant` | `TxInv` | `TxGenProofs` |
| `TxTypeCorrect`, `NoDanglingRequirement`, `SubmissionComplete` | `TypeOK`, `ReqsConnectJobs`, `NothingLeftOut` | |
| `SearchComplete`, `SearchSound` | `AcyclicUnlessRemoved`, `RemovedOnlyFromCyclic` | |
| `GoalNeverLost`, `MergeComplete` | `GoalObjectsKept`, `OneJobEach` | |
| `SubmitInvariant`, `RejectionHasCause`, `NothingNeededLost` | `SubmitInv`, `CauseInv`, `KeptInv` | |
| `SubmissionExact`, `AimsAreMet` | `SubmissionIsClosure`, `AimsMet` | |
| `GraphInvariant` | `GraphInv` | `ObjectGraphProofs` |
| `GraphTypeOK`, `NobodyForgotten`, `DirectivesKept` | `TypeOK`, `PlaceholdersQueued`, `OwnDirectivesKept` | |
| `WaitingIsWoken`, `BeforeIsHonoured` | `MirroredUnlessSplit`, `BeforeReaches` | |
| `LoadingFitsScheduler` | `GraphFitsScheduler` | `BootProofs` |
| `OnlyLoadedUnits` | `JobsAreLoaded` | `BootProofs` |
| `OrderIsHonoured` | `OrderHonoured` | `BootProofs` |
| `CarriedOutByExit` | `CarriedOutAtExit` | `BootProofs` |
| `OperationsAreNamed` | `OperationsNamed` | `BootProofs` |
| `GivesUpForCause` | `RejectedForCause` | `BootProofs` |
| `RequiredIsUp` | `RequiredUp` | `BootProofs` |
| `LoadsAsSpecified` | `Boot` implements `ObjectGraph` | `BootProofs` |

So each invariant, step property and refinement that a passing run checks is also a theorem,
liveness and `FilterIsSelectSeq` excepted.

### The job scheduler, with any restarters

Every set of objects, every order graph with mirrored edges (cyclic ones too), every sequence
of transactions, every restarter behaviour and every timeout. `NoLostWakeup` says nothing of
states within a call, so it is not inductive. `SchedInv` adds three things. `WakeupInv`: in
*every* state a runnable job is running or has a turn pending in `calls`. `MirrorInv`: an edge
is in `edges_to` of its far end, hence a completion leaves a turn for every job it may have
made runnable. `IdInv`: assigned ids are unique and below `last_jobid`, and a job without an
id has its `leaf` turn pending. The last is what makes the shared id -1 harmless to wakeups:
such a job may lose its entry in `running_jobs` to another, but `tx_enqueue_leaves()` has
still to look at it. Two lemmas carry the argument: `RunKeepsWakeups` (running a job under an
id nobody else has, or -1, disturbs no other job's entry that matters) and `SettleKeepsWakeups`
(a completion makes runnable only jobs with an edge to its object, and leaves turns for all of
these). There is one lemma for each action.

### The job scheduler, with restarters of one kind

With both kinds at once jobs that are left open under -1 mix with nested completions, and the properties
of this part fail (see "JobOrder and the refinement"). `OneKind` excludes exactly that;
the repository's two restarters are of one kind each. `RunInv` is `SchedInv` with

* `EntryInv`: an entry of `running_jobs` is under the id of its job, which is awaiting, for which
  `start()` has been called in its present type, and whose timer is armed and carries that id;
* `TimerInv`: an armed timer carries the id of a job that is running with that timer, or of one that was started twice;
* `LaterInv`, if answers come later: nothing ever runs under -1, as all jobs have their ids
  before the first completion makes turns;
* `WithinInv`, if they come within `start()`: a `start` turn is only ever the innermost one, its job is the
  only one running and has the only timer, and `starts` has for each job what its state says;
* `BlankInv`: nothing has happened before the first transaction.

Why two of them: it is for different reasons that two jobs do not share an entry,
the ids in one case and the nesting in the other.
`NeverStartedTwice` needs `"later" \notin Answers`: `JobSched_second_start` shows that otherwise it is false.
`TargetsCarriedOut` is about `TargetRestarter` (`Answers = {"within"}`, `Results = {"success"}`) and an
acyclic order. Its `TargetInv` adds that there is a rank that decreases along the edges, and that no job
has failed; in the event loop, were some job not carried out, one of least rank would be runnable, against
`WakeupInv`. `ImplementsOrder` shows in `StepRefines` what each action is in `JobOrder`: `tx_enqueue` of the first
transaction is `TakeUp`, a turn that runs a job is `Begin` or, if the job was running, nothing, a
completion is `Succeed` or `Fail`, and all else nothing.

### The transaction generator

Every set of objects, every list of edges, every goal. `TxInv` has, besides the types,
`ReqsConnectJobs` and `NothingLeftOut`:

* `LinkInv`: requirements, and visits still to be made, are of jobs that exist;
* `GoalInv`: until jobs are merged, the marks on jobs and the goal-required requirements say the
  same, since `object_requires_all_jobs()` looks at the ones and `merge_jobs()` at the others;
* `PathInv`: the path of `object_creates_cycle()` is a chain of ordered objects with jobs;
* `SearchInv`: as long as no cycle was met, no object the search is done with is in a *circular* set,
  one in which each member is ordered after a member, and an object of the path that is in one has
  an edge into it still to be looked at, or is followed on the path by a member. Circular sets stand for cycles: no path
  has to be named, and no induction along one is needed;
* `MergeInv`: the objects that are merged have one job at most.

`SubmitInv` says that every job submitted so far is in the closure of the goal, every mark in
that of the required edges. `Closure` steps along the edges as often as there are jobs; that no
further step adds a job, because each before it would have added one, is proved
from the cardinality of the set. So `Closure` is the least set that is closed under `Asks` (`ClosureIsLeast`).

Three more invariants say what the phases do to that closure. They look at whether a job stops
its object or not (`Alike`), as merging may turn a start into a verify job but never a stop job into another.

* `CauseInv`: a mark stands for a job that required edges lead to; `cyclical` comes with a set of objects of such jobs
  that is ordered in a circle, `unmergeable` with two such jobs of one object of which one is a stop job. `try_remove_cycle()`
  gives up only if each object of the path has a job that is the objective or has a goal-required requirement, and such jobs
  are marked (`CauseCyclical`). `merge_jobs()` gives up on two marked jobs only, and those that cannot be merged are a stop job and
  another one (`MergeKinds`).
* `KeptInv`: as long as no jobs of a cycle were deleted, an object that submission reached has a job, and if it was to have
  one that does not stop it, it has such a job or required edges ask for it to be stopped. `merge_jobs()` drops
  such a job only in favour of a marked stop job (`ToDelete`), which stands for a required one by `CauseInv`.
* `AimInv` is about `Aims`: the objective, and all that is required, in the sense of `object.h`, by jobs that are not `Loose`. `Loose` is the least set
  that has the jobs asked for without being required, and what its own jobs ask for, the objective excepted. While jobs are submitted, one that is not marked
  is in `Loose`, and what a job outside `Loose` requires is marked (`AimSubmit`): the edges of a job are visited once, with the mark it has by then, and a job
  outside `Loose` has its mark from the start. From then on each aim has a marked job of its kind. Breaking cycles deletes no marked
  job (`MarkedKept`), and `merge_jobs()` replaces one by a job that is marked too (`AimMerge`).

In a transaction that is made, with one job for each object, the marked job is the only one there (`AimsGiven`); that it is one
of those the edges ask for is in `AimInv` too. That is `AimsAreMet`. It does not say that the job has the type aimed at, as a merged job keeps that of
one of the two. `FirmAreAims` says that what is reached is an aim or `Loose`.

### The object graph

Every set of unit files, with links and loops of links, and every start-up script. The
properties look at the graph between calls of `object_load()`, which is built in many turns.
`GraphInv` has the types, `PlaceholdersQueued`, and

* `NamesInv`: a name is among the names of the object it leads to; a loaded object has the names along the
  links from its own, and no others, once they are bound; a placeholder has only one;
* `LoadInv`: the names and edges a call has still to deal with (`IsLoading`) are a rest of those of
  its unit;
* `EdgeInv`: an edge in a list was given by a unit that is loaded, and lies where its end leads or,
  when the unit was loaded under another name, at an object for the same file;
* `PlacedInv`: of the edges a loaded unit gives, each not yet to be added is in both lists: at the
  loaded object itself if that end is one of its names.

The last two are what `object_remap_unowned_edges()` must keep: it moves the edges that others own to
the new object and leaves those the old one owns. `WhenIdle`, `SameFile`, `EndsMeet` and `EdgesReach` lead
from `GraphInv` to the properties, none of which looks at edges that are in no object's reach.

### The whole daemon

Every set of unit files without links and every script. `LoadsAsSpecified` shows that `Boot` implements the
specification of `ObjectGraph`: whatever else a step does, to the object graph it does a step of `Next` there or nothing.
So `GraphInv` holds of it, and no part of that proof is repeated. `NoLinks` and `OneName` then show that an object goes
by one name and that no unit is split, `EdgesMirrored` that each edge in a list of an object in reach is in the other list
of the object at its other end, and `OrderAgrees` that what `tx_enqueue()` finds of the order on both sides
agrees, once no call of `object_load()` is under way (`LoadedInv`). `OrderInv` keeps it: the order is read once, after loading is over.

The transaction is carried over in the same way (`MakingInv`): what `tx_enqueue()` makes of a loaded graph are initial
states of `TxGen` (`EdgesForTx`, `MakingBegins`), and each step of `Boot` is a step of `TxGen` or leaves the transaction alone, so
`TxInv` holds of it. What jobs there can be then follows from a lemma about `TxGen`, `StaysWithin`: if a set
of jobs has the objective and, with a job, all that the edges of its object ask for, the transaction never has a job
that is not of the set. `ReachInv` applies it to `MayRun`, the jobs to start, stop or verify units with an object. When loading ends
the default unit is among those; if no unit and no script has mentioned it, it has just been given an object, it
is still in the load queue and has no edges (`ReadyInv`). `JobsAreLoaded` is what `PlaceholdersQueued` says of those units.

The scheduler comes last (`RunsInv`). `new_transaction` gives it the order while it has no transaction, which `RunInv` allows as
long as the two sides of the order agree (`OrderGiven` of `JobSchedRefinesProofs`, with `OrderAgrees`); from then on each step of
`Boot` is a step of `JobSched` or leaves the scheduler alone. `JobInv` says that the transaction that runs is the one that was made,
that nothing fails, and that a job was begun only behind jobs that had succeeded. No job restarts a unit, by `ReachInv`, so that no job
that has succeeded is ever waited for again (`TargetStep`). `OrderHonoured` then needs that what the directives say
is in the graph (`SaidIsOrdered`, from `OwnKept` and `BeforeGiven` about `ObjectGraph`); `CarriedOutAtExit` that jobs left over at the exit, none of which
is runnable, would be a circular set, which the order that `TxGen` looks at has too (`OrderInGraph`); `OperationsNamed`
is in the types.

Last, what the default unit needs (`MadeInv`): the invariants `CauseInv` and `KeptInv` of `TxGen` hold of the transaction, and main()
exits only when it has been made. They speak of edges, the properties of directives. `EdgeIsSaid` leads from the ones to the
others: by `EdgeInv` each edge of an object was given by a loaded unit, and `SaidFrom` and `SaidTo` read off the tables of the
manifest loader which of its directives did. So what a job requires by its edges it needs by the directives (`RequiredIsNeeded`),
`Needed` is closed under the required edges, and has all of `Closure(TRUE)` since that is the least such set
(`ReachedIsNeeded`). A rejection then has a cause in the files (`RejectedForCause`). 
`RequiredUp` combines all of these, in both directions. `OwnKept` gives the edge for a `Requires=` or `BindsTo=`, and the edge asks for a start job
(`RequiresAsks`). `AskedIsSaid` says of what a job asks for which directive did: so only units in `Doubtful` have start jobs that are
`Loose` (`LooseIsDoubtful`), and what the units in `Required` outside it require is aimed at (`RequiredAreAims`). main() exits only after the transaction was made,
and then does nothing more (`MadeInv`), so that `AimsGiven` finds one job for each such unit, not to stop it. It starts the unit, or verifies it
where a `Requisite=` asks for that (`VerifiedIsSaid`); and `CarriedOutAtExit` says that it has succeeded if the order has no cycle.

### JavaScript

Every number of timer addresses, watches, handles and jobs, and any JavaScript. `HostInv` adds to the types,
`TimersPaired` and `HandlesValid`:

* `WatchInv`: the kernel's event for a descriptor carries the address of a live watch of that descriptor;
* `EventInv`: at most one event is in hand, none while JavaScript runs in the script or in a job, and until
  `dispatch` has looked its target up that target is live: no JavaScript runs between `kevent()` and the look-up;
* `DrainInv`: once `kevent()` has been called, no job is pending when it is called again.

`NoStaleEvent` follows from the first two.

### Only model-checked

* Liveness, which is beyond the prover: `RunningEnds`, the fairness that `CarriesOutJobOrder` adds to
  `ImplementsJobOrder`, `Terminates`, `LoadingEnds`, `TimersOffered`, `BootEnds`.
* That `Filter` is what `SelectSeq` computes (`FilterIsSelectSeq` of `MCTxGen`, on short lists).

The provers cannot use the induction theorems of the library, which take a predicate as a parameter.
Where induction is needed it is over a set of numbers: `ListsProofs` derives from the well-foundedness of the naturals that
a nonempty set of them has a least element, and the rest is by least counterexample.

## 5. Not modelled

* `stop()` of restarters and `object_set_state()`: never called. Log lines and graph output.
  A `startJob()` of a JavaScript restarter that throws: it would unwind the loops of the
  scheduler (`js/restarter.cc:23`), but no such restarter can be registered yet.
* `jobComplete()` called for another outstanding job from inside the JavaScript of a `startJob()`: the restarters of the model answer the
  call they are in, or from the event loop.
* `tx_enqueue_leaves()` takes `front()` of the list of jobs of an object before it asks whether the list is empty (`scheduler.cc:123-125`). The list is
  empty where the jobs of an object were deleted to break a cycle; what was read is not used then, and the model skips the object.
* Delays of timers, and `kevent()` refusing a registration.
* Symbolic links in `Boot`: once a unit is split into two objects (`ObjectGraph_alias`) the
  parts disagree about what an object is.
* The text of unit files, drop-in directories and path handling: string processing without state.
* `qjspp.h` (third party) but for non-owning pointers and calls of functions, `js/oldjs/fd.cc` (not built), `sysdimport.cc` and `log.cc` (empty).
* Process manager, reference monitor, portability layer, service restarter: described in
  the repository's README, without code.
* `main()` calls `exit(0)` before `app.loop()`: as committed, only what happens within
  `tx_enqueue()` happens at all, and only the target restarter is registered.
  `JobSched_target` and `Boot` are about that program; the other runs of the scheduler and `JSHost` are about the daemon with its
  event loop running and a `JSRestarter` registered, as the code for both is there.

## 6. Mutations

For each property of a passing run the module holds a mutated form of one of the
definitions, marked `Mutant` and placed before it (`job_run_TimerOnce` before `job_run`): a plausible slip
in that code which the property detects. No specification uses them.

## 7. What is left

All safety properties that the runs check are proved. What could come next needs changes of the model: symbolic links in
`Boot`, which the divergence of `ObjectGraph_alias` stands against as long as units can be split, and restarters of both
kinds side by side, once the code gives a job its id before it can run.
