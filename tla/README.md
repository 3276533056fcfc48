# TLA+ models of bcode

bcode is a coding agent split into a daemon, clients (terminal, command line,
web) and plugins. Several daemons may run on one machine, of different builds
and with different state, and share the sessions on disk. The models here are
about the part where that is hard: who owns a session or a workflow run, who
may write it, what every process may conclude from what it sees, how the input
of a session is worked off, and how the daemon itself comes to be.

Everything is modelled from the code under `packages/`. `PROJECT.json` has the
exact correspondence (`map`), the runs, the mutants that show each property can
fail, the findings, the hazards and the theorems.

## 1. The system

### Components

| Component | State | Operations | Talks to |
|---|---|---|---|
| Session lease files (`session/src/lease.rs`) | coordinator lock, write lock, directory of owner records with a lock each | acquire lease, maintenance, handoff, write lock, drop, observe, probe | every process that has a session directory |
| Session actor (`session/src/actor.rs`) | loaded state and sequence, lease, cached database handle, attached clients, guard counts, published snapshot | commands from a channel, release messages from a second channel, idle timeout | lease files, database, manager, clients |
| Session manager (`session/src/lib.rs`) | map from session to actor handle, catalog | create, load, ensure loaded, adopt, delete, fork | actors, lease files, migration |
| Session database (`session/src/db.rs`) | events, projections, writer epoch | append with sequence check, reads, projections | actor |
| Submission queue and session runtime (`session/src/submission.rs`, `server/src/lib.rs`, `submission_recovery.rs`, `provider_retry_recovery.rs`) | durable submissions, runtime work rows and retry checkpoints; in the daemon a map of runtime tasks, their channels, the registry of running work, the turn admission lock | submit, admit, steer, activate, run, settle, cancel, resume, end, recover on attachment, close when idle | actor, agent runtime, clients |
| Turn continuation, durable interactions (`session/src/turn_continuation.rs`, `durable_interaction.rs`) | durable records with a transition relation each | advance, answer, retry | actor, server, agent runtime |
| Session migration (`session-migration/`, `server/src/session_operations.rs`) | maintenance guard, journal | prepare, convert, hand the lease over | lease files, manager |
| Workflow store (`workflow-store/src/`) | runs, nodes, attempts, execution authority with a fencing token | schedule, dispatch, receipts, transfer, reassign, recover, graph edits | workflow runtime, server |
| Daemon lifecycle (`daemon-lifecycle/src/lib.rs`, `ipc/src/lib.rs`) | startup lock and descriptor, socket, instance records, daemon images | ensure running, stop, classify, retain images | clients, daemon processes |
| Agent runtime (`agent-runtime/`) | turn in progress, tool batch | run, cancel, steer | actor, providers, tools |
| Provider authentication pools (`provider-auth/`) | account health, cooldowns | select, report, fail over | providers |
| Agent policy (`agent-policy/`, `agent-permissions/`) | rules | combine into a decision | agent runtime |
| Server, IPC, client, search, views, TUI, CLI, web UI, plugins, tools, catalogs, router, applications | mostly derived or presentational | | |

### How they interact around a session

A daemon that wants a session registers in its owner directory (`lease.rs`) and
gives the resulting guard to the session's actor. The actor opens the database,
attaches clients and appends events. Work that outlives a command (a model
turn, a plugin call, a queued command) holds an *ownership guard*, a clone of
the lease with a counter in the actor; dropping it sends a message. When no
client and no guard is left the actor closes the database and lets the lease
go, and another daemon may take the session over. A migration excludes all of
them by maintenance, and hands its maintenance over as a lease.

### How they interact around a workflow run

One daemon, on record in the run's execution authority, drives a run: under the
run's drive gate it prepares attempts of pending activations, hands each off to
the owner of the operation (for an agent node, a model turn in a session) and
stores the receipt. The turn runs by itself; a completion task settles the
attempt when it ends, and so does reconciliation, which asks the owner for every
attempt with a receipt. When a daemon ends, another takes the run over: of the
same build to go on, of another build for recovery only, behind a barrier.
Operators pause, resume, cancel, retry and repair through the same store.

### How input becomes turns

A client's prompt, or a turn that another part of the daemon admits, is accepted
into the session's durable queue under the turn admission lock; a prompt may
instead be accepted as steering of the turn that runs. The session's runtime
task gets a hint through its channel, or finds the record by itself. It takes
the head of the queue, activates it durably, registers the work, runs the model
turn, activates steering on the way, and settles: what steering is left is
cancelled, the end of the turn is recorded, the work row is finished. An idle
runtime removes itself. A daemon that ends leaves records; the first client that
attaches to the session makes the next daemon keep what a retry checkpoint can
resume and fail the rest.

### How a daemon starts

Every client that finds no server takes the startup lock, looks again, removes a
stale socket, writes a descriptor and spawns the daemon with a duplicate of the
locked file description as its stdin, then waits for a notification and a
verified handshake under its deadline. The others wait for the lock and ping.
Servers run in the foreground bind the same endpoint without the lock.

### What is hard

* Processes meet only at files. Liveness is a lock test, stale when it is used;
  a drop takes no coordinator lock; a crash leaves records behind.
* An actor awaits the database in the middle of releasing and of appending;
  other daemons run then, and so do other tasks of the same daemon.
* Releases of guards are messages: late, and interleaved with acquisitions.
* A commit that fails may have landed.
* The manager's tasks read published snapshots and act on them later.
* Workflow runs change coordinator while the old one may still write.
* A turn may have been accepted although its submission timed out or its daemon
  died; a mutating one must not be repeated, and a live one not be forgotten.
* Completions, reconciliation, recovery, the operator's cancellation and the
  driver's settle the same attempts.
* The runtime, clients, cancellations and recovery passes meet in a queue, some
  of them without the lock that orders the others; hints get lost.
* Several clients start the same daemon at once, under deadlines; a start outlives
  the client that began it, and a daemon its listener.

The full list, line by line, is `hazards` in `PROJECT.json`.

### What makes each part correct

* Lease files: one owning daemon; maintenance alone; a returned guard stays
  visible until it is dropped; nothing live is pruned; doubtful records keep
  everybody out; every call returns.
* Actor: nobody's activity is without a lease; the database is open in one
  daemon; the counters are the guards; a state called current is current; the
  last hold to go releases the session.
* Workflow store: only the holder of the current fencing token changes a run;
  one unsettled attempt per activation; what runs is tracked; settled is final;
  work that may have taken effect is not repeated; a run asks for repair as long
  as an attempt needs it.
* Submission queue: one runtime takes input; it closes over nothing; input starts
  in order, is not run after a cancellation and does not wait for a hint; steering
  does not outlive its turn; recovery spares what is alive.
* Daemon lifecycle: one launched daemon, who finds its handoff; a live socket is
  not removed; who waits is served; an image in use is kept.
* Continuations and interactions: each durable step is taken once, across restarts.

## 2. Modules

| Module | What it is |
|---|---|
| `SessionLease` | the lock files and owner records, one action per observable file operation |
| `SessionOwnership` | the promise: the session is free, owned by one daemon, or maintained by one agent; one writer |
| `SessionLeaseProofs` | invariants of `SessionLease`, and that it implements `SessionOwnership` |
| `SessionActor` | the actors of several daemons over one session, with the manager's load, migration and delete tasks |
| `SessionActorProofs` | invariants of `SessionActor`, and that it implements `SessionOwnership` |
| `WorkflowRun` | one workflow run: attempts, receipts, execution authority, cancellation, repair, over several daemons |
| `WorkflowRunProofs` | invariants of `WorkflowRun`, that settlements are final and that a fenced owner writes nothing |
| `SessionRuntime` | the submission queue of one session and the runtime tasks that work it off, over restarts of the daemon |
| `SessionRuntimeProofs` | invariants of `SessionRuntime`, and the order in which turns start |
| `DaemonStartup` | the launchers and servers of one endpoint: lock, descriptor, spawn, socket, readiness, shutdown |
| `DaemonStartupProofs` | invariants of `DaemonStartup`, and that a listener keeps its endpoint |
| `MCSessionLease`, `MCSessionActor`, `MCWorkflowRun`, `MCSessionRuntime`, `MCDaemonStartup` | instances for TLC |

### SessionLease

An *agent* is one caller in a daemon; it holds at most one guard. `pc` says
where it is in which function, `tok` is the token in its guard, `todo` the part
of a directory listing that pruning has still to visit. `dir` maps a token to
the agent whose record is linked under it. `coordX`, `coordS`, `writeX` are the
holders of the two lock files; `probe` is the record an observer has locked for
its test. `legacy` is a record of an older or foreign build, `legacyAlive`
whether the process it names exists.

`BeginAcquire`, `LockCoordinator`, `Prune*`, `CheckIncompatible`,
`PublishOwner`, `UnlockCoordinator` are `acquire_session_lease` in its order;
`BeginMaintenance`, `CheckFirstOwner`, `BeginTransition`, `DropMaintenance` are
the maintenance guard and its handoff; `BeginWrite`, `LockShared`, `LockWrite`,
`EndWrite`, `UnlockShared` the write section; `DropRecord`, `DropUnlock` the
guard's `Drop`. `LockTimeout`, `IoError`, `Crash` are the ways out. The scans
after pruning are one action each: the coordinator is held, records can only
disappear, so the answer of a scan is that of an instantaneous one.

The content of records is reduced to the daemon and its epoch. Tokens are
model values; `ReuseStamps` says whether two registrations of one process may
draw the same one, which the code's token (process id, milliseconds, session)
allows.

### SessionActor

Per daemon: the actor's `status` (absent, summary, current), `step` (ready, or
where in an append or a release it awaits), its `lease`, the cached handle
`db` (none, open, or retained after a close that could not be proven),
`clients`, the `published` snapshot, the guard `counts`, and `next`, its next
sequence. `guard` says of each ownership guard whether it is free, held, or a
release message in the channel, at which actor, and which lease it keeps
alive. `tail` is the last durable event. `loader`, `loaderGuard`, `deleting`,
`handover`, `maintainer` are the manager's tasks and a migration.

A lease is an `Arc`: it is registered as long as something refers to it
(`Registered`). Acquiring one is `SessionOwnership`'s `Own`: the actor model
stands on the promise that `SessionLease` is shown to keep.

The actor's commands are atomic but for the awaits that matter: a release is
`closing`, then `dropping`, then done; an append is `appending`, then commits or
fails. `CommitFails` lets the event land although the append reports an error.
`LoadCheck`, `LoadGuard` and `LoadFinish` are `ensure_cached_session_loaded` around its two
awaits; `DeleteCheck` and `DeleteFinish` are `delete_session` around its own.

### WorkflowRun

`db` has the rows of the run, its activations and its attempts; `receipt` and
`handed` are two columns of the attempts, `auth` the execution authority,
`barrier` the recovery barrier. A store transaction is one action, and what it
computes is an operator on `db`: `Applied` is `apply_attempt_observation`,
`WithOutput` the persisting of an output, `Finalized` the end of a cancelled
run, `Attached` the storing of a receipt. `task[d]` is what the holder of a
daemon's drive gate is doing between two transactions, with the authority it has
captured. `exec` is the truth about the operations, which the store knows only by
observation. `work` and `completion` are the registry of runtime work and the
completion tasks; `asked` and `unmarked` the progress of cancellations.

`Prepare`, `Handoff`, `CheckOwner`, `Register`, `Submit`, `PersistReceipt` are a
dispatch in its order, with `SubmitLost` and `AdmissionFails` the ways out of it.
`Complete` and `CompleteFails` end a completion task. `RecoverReceipt`, `Examine`
and `Classify` are the recovery of preparations without a receipt; `Observe` and
`Reconcile` a page of observations around its awaits; a page has one or two
attempts. `RequestCancellation`, `CancelNeverDispatched`, `Signal`,
`MarkSignalled`, `SettleOrphan` are the cancellation by an operator and by the
driver, which differ in what they do about missing work. `TakeOver` and
`ResumeRecovered` change the owner. `world` is what a behaviour is given and never
changes: which activations are read-only, which daemons there are, how many
retries an operator has, and whether owners are only taken for ended when they
are (`sound`): the daemon's own check is trusted in all worlds but one, which
shows what the fence does without it.

### SessionRuntime

`rec`, `accepted`, `terminal`, `work` and `retry` are what is durable: the
submissions with their order, the first end of each turn and who wrote it, the
runtime work rows and the provider retry checkpoints. `map` is the session's entry
in `session_runtimes`, `rt` the runtime tasks: where each is in its loop and its
turn, its channel and retained hints, the turn it has, whether that is open to
steering. `registry` is the daemon's `RuntimeWorkManager`, `lock` the holder of the
turn admission lock; `request` and `attach` are what a client's request and an
attachment's recovery are doing between two of their steps. A submission names its
own turn, so turns are submissions.

`Submit`, `Accept`, `Wake`, `Admit`, `Enqueue`, `Resume`, `Authorize` are the requests
around their awaits. `Drain` to `StartRecovered` are the runtime's loop up to a turn:
hints are drained and pruned, one is taken, or the queue's head without one, and it
is activated, found cancelled, or fails. `Register`, `Begin`, `ActivateSteering`,
`CloseSteering`, `ScheduleRetry`, `RetryProvider`, `ServiceCancel`, `FailTurn` are the
turn; `Settle`, `AppendTerminal`, `TakeWork`, `FinishWork` its end, in the code's order.
`IdleClose` and `IdleRemove` end a runtime. `AttachObserve`, `AttachRead`, `Preserve`,
`FailAbandoned`, `FailAbandonedTurn` are the recovery pass. `Crash` ends the daemon and
keeps what is durable. `disturbances` counts crashes, storage failures and
interventions against the bounds.

### DaemonStartup

`launcher` says where each call of `ensure_daemon_running` or `prepare_daemon_image`
is, `lock` who has the locked open file description open, `owner` what the startup
file says, `server` the life of each server process, `told` the notifications in a
child's pipe, `endpoint` the server whose socket is at the path. A child is named
after its launcher, as its handoff is. `Begin` to `Recheck` are `acquire_daemon_until`
in its order, `WriteHandoff` and `Spawn` the start itself, `ReadNotice`, `Verify`,
`ChildExit` the wait. `Leave` is every way in which a call ends without success: a
failure, its deadline, the death of its process. `TestEndpoint`, `RemoveForBind`,
`Bind` are `LocalIpcListener::bind`, which prepares once more when the transport says
that the path exists, and `Listen` the transport's own next step; `Publish` and `Notify` are
`notify_launcher_ready`; `Shutdown` drops the listener, `Drained` is the end.
Writing a shorter descriptor over a longer one has a state in between, in which the
file cannot be read (`HalfWritten`).

## 3. Runs

| Run | Instance | Result |
|---|---|---|
| `lease_safety` | two callers of one daemon, one of another, four tokens, any legacy record | passes: one owner daemon, exclusive maintenance, guards backed by records, unsettled owners block, pruning spares the live, the handoff has no gap, and the inductive invariant |
| `lease_liveness` | three daemons, one without writer epoch | passes: every call returns, and every step is a step of `SessionOwnership` or a stutter |
| `lease_shared_stamp` | `ReuseStamps` | violated: see findings |
| `actor_safety` | two daemons, one client, two guards of one kind | passes: activity is owned, the database exclusive, counts match, current is caught up, and every step is a step of `SessionOwnership` or a stutter |
| `actor_liveness` | one daemon, two leases, two guards of different kinds | passes: the last hold to go releases the session; adopting a migration's lease over one's own keeps the database exclusive |
| `actor_delete` | one daemon, two clients | violated: see findings |
| `workflow_attempts` | one activation, up to three daemons of two artifacts, three generations, in three worlds: mutating with a retry, read-only, and owners falsely taken for ended | passes: what runs is tracked, an admission keeps its attempt, one unsettled attempt, no silent replay, settlement is final, a stale owner writes nothing, a barred run is stopped |
| `workflow_concurrent` | two mutating activations in flight, one daemon | passes: repair is pinned, an ended run is settled |
| `workflow_cancelled` | a read-only activation | violated: see findings |
| `runtime_queue` | a prompt and an admitted turn, two runtimes, one failure and one intervention | passes: one live runtime, it closes over nothing, runs what is activated, strands no steering, starts in order, takes waiting input unless a turn goes on for ever |
| `runtime_recovery` | the same without failures | violated: see findings |
| `daemon_startup` | two starts, one image preparation, a socket of an earlier server, a foreground server | passes: one launched daemon, the handoff is intact, a listener keeps its endpoint, a waiter is served |

### Bounds

* `MaxLeftover = 1`: `Drop` ignores a failed removal, so records of dead owners
  may pile up. One left-over record is enough to be classified, pruned, probed
  and met by a rival; more of them are visited independently. Four tokens are
  three guards and one left-over.
* Three agents, two in one daemon: reentrant registration and a rival. No
  action looks at more than one other agent at a time.
* `MaxTail = 3`: an append by one daemon, one by another after a release, and
  one after a commit that failed and landed.
* Two guards: an acquisition between the drop of another guard and the receipt
  of its message. They are of one kind in the safety run, where the counter is
  the point, and of two in the liveness run.
* Tokens, daemons and guards of one kind are exchanged by symmetry in the safety
  runs; never in a liveness run.

* Workflow runs: two attempts in flight are a page whose parts interfere, and two
  repairs; a read-only activation can be dispatched again under its identity, so
  it is met by its own earlier turn and completion. Two attempts of one
  activation are one retry. Three generations are needed to leave an artifact,
  and come back to it. Read-only redispatch multiplies the states, so the run
  with it has one activation. A run may stop (nobody is left to drive it),
  so these runs do not check for deadlock. The worlds are those in which the
  cases happen; false evidence needs no third daemon.
* `MaxFailure = 1`, `MaxAsk = 1` in `runtime_queue`: one crash or one failing
  write, and one repeated request, attachment, cancellation, resume or ended
  turn beside the two submissions themselves. A turn that is interrupted, the
  daemon's restart and its recovery are one of each. Two runtimes are one that
  closes and its replacement; identities are taken again. A third submission
  would show what stands between two others; the exception in `StartsInOrder`
  is such a case and needs four.
* `daemon_startup` has no counters: every launcher is one call, every process
  lives once. Two starts are one that is left behind and one that meets it; the
  theorems cover any number.

The session of `runtime_queue` may be idle for ever and the processes of
`daemon_startup` may all have ended: neither run checks for deadlock. A daemon that dies in `SessionLease` stays dead (a restarted daemon is another
instance), so its runs may stop and do not check for deadlock. The runs of
`SessionActor` do.

### Fairness

`SessionLease`: weak fairness of the steps of a call in progress. The code runs
them without waiting for anybody but a lock, and a lock wait ends at
`LOCK_WAIT_BUDGET`. Callers, write sections, maintenance and observers are not
forced to end.

`SessionActor`: weak fairness of an actor's own continuation of a release or an
append (the awaited database call returns, well or badly); strong fairness of
receiving a given release message, because the run loop's `tokio::select!`
chooses among its ready channels at random, so a message that is ready again and
again is taken with probability one. Nothing is assumed of clients, guards and
tasks.

`SessionRuntime`: weak fairness of a runtime's own steps, but for the end of a turn's
rounds (`TurnEnds`). A turn may go on for ever: provider retries have no limit by
default (`docs/retry-fallback-safety.md:10`), an omitted `host_max_retries` is
unlimited too (`tool_host_retry.rs:77`, `docs/configurable-limits.md:37`), and a
permission or an answer of the user is waited for without one. So
`WaitingInputIsTaken` exempts the behaviours in which some turn goes on for ever
(`[]TurnGoesOn`), and only those: without the exemption TLC finds the behaviour in
which input waits behind such a turn. Nobody has to submit, attach, cancel or resume.

`DaemonStartup`: weak fairness of a living launcher's and a living server's next
step, a drain included, since the client connections end on the shutdown signal.
Nobody has to shut a server down. A caller that waits for a server to answer reaches
its deadline; one that waits for the lock is not given one, so that
`WaiterIsServed` does not hold by giving up.

## 4. Proofs

For every value of the constants (any number of agents, daemons, tokens, clients,
guards, activations, attempts, submissions, runtimes and launchers, and any bounds).
No theorem has a hypothesis on the state; `~ReuseStamps` below is the one hypothesis
on a constant beside the named assumptions, which TLC evaluates in every run.

`SessionLeaseProofs`: `TypeCorrect` from the specification alone; everything
else assumes `~ReuseStamps`, and `lease_shared_stamp` shows that it must.
The property `SingleOwnerDaemon` is not inductive. `LeaseInv` adds: who is at a
point that holds a lock is its holder (`LockInv`); a guard has its linked record
(`RecordBacksGuard`); a caller about to publish has ruled out records of other
daemons and a maintainer all records (`ScanInv`), which stays true because the
coordinator keeps new ones out; a record that cannot be decoded stops every scan
(`LegacyInv`). From it follow one owner, exclusive maintenance, blocking by
unsettled records, that live records survive (an action property), and
`LeaseImplementsOwnership`, a step by step refinement in which publication of
the record is the moment of ownership. `HandoffIsSeamless` speaks of the step
that returns the lease; it needs that the agent has been alone since it
published (`HandoffAlone`), which stays true because guards come from
publication alone, and publication needs the coordinator the agent still has.

`SessionActorProofs`: from `ActorConstants` (the set of guards is finite, since
they are counted). `ActorInv` consists of the lease discipline (`LeaseInv`: all
referred-to leases are of one daemon, none during a migration), the order of a
release (`ReleaseInv`: a lease while the database is open or written, no handle
once the lease is about to go, quiescence all along), the guards (`HolderInv`),
`TailInv` (a state is called current only while the handle is there) and the
properties themselves. `LeaseMove` is the one lemma about leases: every step
moves leases in one of a few ways, and those keep `LeaseInv`. The counters need
the cardinality of sets; the exclusive database follows from the lease and
release parts; that a current state is caught up follows because who commits
owns the session, so nobody else has a handle, so nobody else is current.
`ActorsImplementOwnership` closes the circle: an acquisition of the model relies on
what `SessionOwnership` promises, and all that actors, guards, messages, loads,
migrations and deletions do with their leases is again a behaviour of
`SessionOwnership`, with a daemon as the one owner however many leases it has. A
write section lies inside the step that commits, so there is no writer in any state
of this mapping. The proof is by `LeaseMove` once more: the first lease of a daemon
is `Own`, the last one gone `Disown`, and only a migration moves otherwise.

`WorkflowRunProofs`: from `WorkflowConstants` (there is a first daemon, the caps
are numbers, the worlds are worlds). The theorems are all the safety properties
of the run, and `WorkflowInv` has three strands.

* *The store by itself* (`Sound`): attempts of an activation have no gaps, an
  unsettled one is the last and its activation runs, the run asks for repair
  exactly while an attempt does, an ended run is settled. It is stated of any
  store and not of `db`, because a transaction of the code is a composition of
  operators on the store (`Applied`, `WithOutput`, `Finalized`, `Attached`,
  `Repaired`, ...), and a page of observations is two of them: each operator has
  a lemma that a sound store stays sound and only advances, and a transaction
  is a chain of lemmas. `AttemptsAreExclusive`, `RepairStatusAgrees`,
  `EndedRunsAreSettled` and `SettlementsAreFinal` come from it.
* *The store and the operations*: what the run has gone past (a later attempt, or
  an activation waiting for one) ended as failed or paused, or was abandoned
  (`PastIsOver`), because the observation somebody is about to apply is still
  true when it is applied (`ObservedIsTrue`). `WorkIsNotRepeated` follows, in
  every world.
* *One driver at a time*, in the worlds where an owner is taken for ended only
  when it is (`world.sound`): who is between two transactions under a drive gate
  holds the current authority, what it admits is handed off and has no receipt
  yet, and what it is about to classify has no operation (`Undisturbed`). With the
  receipts that gives `RunningWorkIsTracked` and `AdmissionsAreSpared`, neither of
  which is inductive without the other. `FencedOwnersAreSilent` does not use the
  strand: the fence is what is left in the world where the evidence is wrong.

The lemmas on store steps are per action (`NextStore`), then types, then what
the step does to tasks, operations and receipts (`NextShape`), then the parts of
the invariant. TLC had checked `WorkflowInv` on the instances of
`workflow_attempts` and `workflow_concurrent` before.

`SessionRuntimeProofs`: from `RuntimeConstants` (the bounds are numbers, the two
null values are none of the real ones). None of the five safety properties is
inductive. `RuntimeInv` adds: a runtime between the close of its channels and its
removal, or between settlement and the terminal event, holds the admission lock
(`HolderHasLock`), so nothing becomes pending then; whatever points at a started
turn (a checkpoint, a recovery hint, a settlement, a selection) points at a
record that was activated as a turn of its own, and records only go forward
(`CheckpointIsStarted`, `RecoverHintIsStarted`, `SettledIsStarted`,
`SelectedIsOwn`); a busy runtime's turn has not settled before
(`BusyTurnIsUnsettled`), so settlement, which cancels the steering
(`SettlementClears`), comes once; what is selected is in order already
(`SelectedIsInOrder`). That at most one runtime is open (`OneLiveRuntime`) is
what allows to look at one runtime at a time. Each action is first reduced to its
shape: what it does to the steps, turns and channels of the runtimes.

`TurnsStartInOrder` was at first not provable, for a reason: the exception in
`StartsInOrder` named a steering message that is still pending at the activation.
Such a message can be cancelled between the selection of a turn behind it and the
activation, which does not look again. It takes four submissions; TLC found the
behaviour on such an instance once the proof had pointed at it. The exception now
covers a cancelled one.

`DaemonStartupProofs`: from `StartupConstants` (the kinds of processes are
different). `OneLaunchedDaemon` speaks of live children and is not inductive: what
keeps a second one away is the lock. `StartInv` adds that launchers past the lock
and live children have the description open (`HoldersHold`), that all who have it
open are the launcher and the child of one start (`OneStart`), that there is no child
before the spawn (`ChildComesLate`), that a child publishes nothing it was not handed
(`PublisherIsChild`), and the handoff itself from its writing on (`HandoffHolds`).
Six lemmas say what the kinds of steps do to it: a launcher moves, returns or
writes, a server moves, a child writes, and a launcher past the lock is alone.
`ListenerKeepsEndpoint` is a property of behaviours: `Kept` holds from the moment
its premise does, and every step keeps it because every test of the endpoint of a
listener finds the listener.

Only model-checked: `CallsReturn`, `LastHoldReleases`, `WaitingInputIsTaken` and
`WaiterIsServed`, because liveness under fairness is out of the prover's reach,
and the disagreements, which are behaviours and not theorems. Every invariant and
every action property of the passing runs, and both refinements, are theorems.

## 5. Disagreements between code and its documentation

Details with quotations are `findings` in `PROJECT.json`.

1. Two registrations of a process in one millisecond share a token, and the
   drop of one unregisters the other (`lease.rs:58`).
2. `attach` does not refresh the published snapshot, so `delete_session` accepts
   a session with a connected client (`actor.rs:5310`, `lib.rs:2416`).
3. Of two cancellation passes the second takes work the first has told to stop
   for missing, and settles a live read-only turn as cancelled
   (`server/src/lib.rs:44373`, `runtime_work.rs:518`).
4. The recovery pass of an attachment reads which turns are live before it reads
   which rows are active, and fails a turn that starts in between
   (`server/src/lib.rs:6011`).

More disagreements were met on the way that no run is about:

* `docs/workflow-operations.md:172` says that failed is a terminal status that
  "remain[s] authoritative"; a failed run becomes one that requires repair when
  another attempt cannot be proved (`workflow-store/src/lib.rs:4064`,
  `receipts.rs:1322`).
* A request looks its runtime up before it takes the admission lock
  (`server/src/lib.rs:16706`). If the runtime closes in between, the input is
  accepted, the failed wake-up is ignored (`server/src/lib.rs:16559`, "The actor also
  discovers durable pending work"), and nobody runs it until the next request or
  attachment. `WaitingInputIsTaken` therefore asks only while a runtime lives.
* `end_interrupted_turn` (`submission_recovery.rs:354`) does not see a recovered
  hint that the runtime has drained already: the turn runs after its end was
  recorded.
* A message that still waits to steer an ended turn, at the head of the queue,
  hides an interrupted turn behind it (`submission.rs:167`), and later input runs
  around it, also when that message is cancelled before the activation; the exception
  of `StartsInOrder`.
* After an activation that fails the phase stays `PreparingModelRequest` while the
  runtime is idle (`server/src/lib.rs:18012`).
* A process that dies between the two halves of `write_startup_owner`
  (`daemon-lifecycle/src/lib.rs:3576`) leaves a descriptor that cannot be read, and
  every later `ensure_daemon_running` fails until the file is removed by hand.
* A foreground server that comes up between another process's test of the socket
  and its removal loses its socket, although `bind` means to refuse "to replace live
  IPC socket" (`ipc/src/lib.rs:4225`). `ListenerIsKept` leaves that moment out.

The models have four more behaviours a reader may not expect, which no run is
about: a session released between listing and reading its record is refused as
if its owner metadata were damaged (`lease.rs:679`); `session_maintenance_is_active`
answers yes for any holder of the coordinator (`lease.rs:371`); a prune
concurrent with an observer keeps a dead owner's record as live (`lease.rs:637`);
a turn that stops in a recoverable state cannot be settled while its run is
paused, nor can the page of observations it is on (`receipts.rs:1364`).

## 6. What is not modelled

`components` in `PROJECT.json` gives the reason for each part. In `SessionActor`
left out are: the content of events and every projection; commands that only
read, or that append through the same path as `append_event_conditionally`;
session creation, forks and the catalog; a second actor for the same session in
one daemon, which `delete_session` could let in between removing the handle from
the map and the end of the old actor. The load path may own a session again
without a guard after a release between its check and its reload; the model has
that behaviour, and it is safe, but how long such a lease stays is up to the
next request and is not stated as a property.

`WorkflowRun` has independent activations, each an exit of the graph, dispatched
as model turns. Left out are: joins, fan-out, loops, child runs, graph edits and
what they cancel; other kinds of operations and the automatic retry schedules
that only plugin blocks have; deadlines and allowances; explicit reassignment
and the takeover of ended descendants. A turn is accepted and live at once: the
session's queue of pending submissions is `SessionRuntime`'s, and the two are not
composed. The drive gate is taken by one task at a time,
as in the code; a daemon that is fenced off keeps its gate and its tasks.

`SessionRuntime` has one session without workflow-owned input and without skill,
summary and compaction commands. Hints are a set, for repeated ones are dropped; the
counter of queued followups is the channel. What a turn does between its model
requests is left out but for steering, retries and cancellation; the continuation
records of an interrupted turn (`turn_continuation.rs`) are too. Two handlers are one
step each although they await. `EndInterruptedTurn` holds the admission lock from its
checks to its appends, each of which demands the generation the one before left; what
needs no lock, the drain of a recovered hint and the recovery of an attachment, does
not come in between in the model. `ServiceCancel` decides under the lock and marks the
row after releasing it, in the same task; the mark is in the step or is lost
(`CancelMarks`), and nothing tells an active row from a marked one before that task
goes on or dies.

`DaemonStartup` is the Unix path. Left out are the start within the caller's own
process (`ensure_daemon_running_in_process`, `daemon-lifecycle/src/lib.rs:3300`: the same
`acquire_daemon_until`, but a callback instead of a child, so that no lock is handed on
and the endpoint alone says that a server runs after the call), instance records, image retention,
servers of other artifacts at the same endpoint (a ping refuses them; their sockets
are treated as any live socket), and foreign descriptors, which end a call as an
unreadable one does.

## 7. Plan

1. `WorkflowRun`: liveness of cancellation and of repair under fairness of the
   driver and the recovery pass; the fence held over an external commit; then
   successors, joins and sibling cancellation.
2. `TurnContinuation`, `DurableInteraction`: the transition relations with restarts
   between any two durable steps; at most once, and eventually.
3. Classification of instance records and image retention.
4. `AuthPool` and `AgentPolicy`: selection and decision operators against
   reference definitions; cooldown and failover as a state machine.
5. A composition of the actor with the session runtime across a release.
