# studyAgent in TLA+

studyAgent runs coding agents as *tasks*. A task is a persisted state machine; events
(from the user, the agent, the model, the tools) move it from phase to phase, and every
step names an *effect* (start or resume the agent, call the model, dispatch a tool, ask
the user, announce the outcome) that some executor carries out and answers with further
events. The same core runs in two settings: inside one process, over an event bus and a
reactor, and across processes, over queue files, where each command of a CLI does one
step. These modules specify that core, the files it lives in, the tools it hands out and
the session in front of it: what the code does, what it must never do, and what must
eventually happen.

## The system

Paths are relative to `src/internal/`.

| component | state | operations | interacts with | what is hard | properties |
|---|---|---|---|---|---|
| task state machine, `runtime/statemachine` | per task: phase, agent and agent phase, the pending model/tool/user/sub-agent call, failure count and budget, last event id | one handler per event type, replay of the last event | called by the reactor under the task's lock; state in a `StateStore`; effects returned to the reactor | late, duplicate and mismatched answers; the failure budget; replay after a lost effect | a pending call exactly in the phase that waits for it; terminal is final; replay repeats the effect; the effect fits the phase |
| event bus, `runtime/eventbus` | subscriptions, bounded queue, closed flag, one read-write lock | `Subscribe`, `Unsubscribe`, `Publish`, `PublishAsync`, broadcasts, `Close`, the workers | calls handlers (the reactor, recorders); handlers publish | a publisher waits for the queue under the read lock; close against send; handlers that publish | no send on the closed queue, `Close` drains, at most one writable subscriber, who can block for ever |
| reactor, `runtime/reactor`, `runtime/sync_dispatcher.go` | task lock pool, event and effect semaphores, executors, cancellations | `Advance`, dispatchers, cancel, timeouts | bus, state machine, executors | goroutines race for a task; counted locks come and go; an answer races a timeout or a cancellation | one handler per task; no leaked lock; every event is served |
| asynchronous runner, `entrance/app/app_agent_runner.go` | run records, two queue files, snapshots, task states | `Submit`, `Advance`, `DispatchNextEffect`, `Work`, `Run`, `Continue`, `Recover`, `SelectAgent` | the reactor with a queueing dispatcher; executors; several processes over the same files | a crash between any two writes; input at any time; another agent selected half way | an undisturbed run always has exactly one item of work; nothing twice; nothing refused; it ends |
| agents, `runtime/agents` | a snapshot per agent and task: pending model call, step index, messages, plan | `start`, `resume`, decisions | executor of `agent.start` and `agent.resume` | the snapshot is written by another step than the task state | snapshot and state agree; the turns are bounded |
| model and tool executors, `runtime/agents/model.go`, `runtime/tools` | none | `ExecuteEffect` | model clients, tool registry | a failed call must still answer, under the id of its call | answers match |
| runtime facade, `runtime/runtime.go`, `task_runtime.go`, `task_agents.go` | registered task runtimes, their subscriptions and agents | `RegisterAgent`, `Publish`, `State`, `Cancel`, `Close` | bus, reactor, persistence | check-then-act registration with roll-back; close against registration | a failed registration leaves nothing; a registered task is routed |
| persistence, `runtime/persistence` and the queue files | files of JSON lines, SQLite tables, memory mirrors | load, save, delete, append, list, enqueue, pop | everything above; several processes over one file | two copies; torn lines; reads that decide a later write | what was acknowledged stays readable; the readers agree; once is once; a file is a table |
| context manager, `runtime/contextmgr` | none | message selection and compression | nothing: only its look-up of a context window is called, at start-up | limits, pairing of calls and results | |
| interactive session, `entrance/runtimecli` | current task, owned tasks | read a line, read the task's state, start, answer or guide | runtime facade; output handlers on the bus worker | a state read and used later; goroutines of effects that answer late or never | a task is carried on; its outcome is told once; an answer is taken |
| tool registry and policy, `capability/tool`, `foundation/policy` | registered tools | decide, confirm, execute | tool executor, user | precedence of rules; policy and tool parse the input by different rules | every change was authorised |
| workspace tools, `capability/builtin/workspace`, `foundation/workspace` | the file tree | list, read, search, summarise, patch, write | tool executor; the user and other tasks change the tree meanwhile | line counts of a diff, partial writes, limits, ignore rules | a failure changes nothing; a diff does what it says; a full result hides nothing; nothing ignored is shown |
| orchestrator, `orchestrator` | none | ask a planner for a plan, copy it | nothing imports it | | |
| commands, start-up, configuration, logging, model clients, prompts | little or none | parse, format, input and output | | | |

The hazards this leads to are listed at their lines in `PROJECT.json`; each names the
properties that would catch it, or says why none does yet.

## The modules

| module | models | role |
|---|---|---|
| `TaskStateMachine` | `statemachine.TaskStateMachine` | one action per handler, with replay, rejection and store failures |
| `TaskLifecycle` | | what a client may rely on: a task starts once, moves between running and waiting, and ends once, for good, within its budget |
| `MCTaskStateMachine` | | the instance for TLC, with symmetry |
| `TaskStateMachineProofs` | | proofs |
| `AsyncRunner` | `app.AppAgentRunner` with the agents, the model and the tools as executors | composes `TaskStateMachine` with the queues, the snapshots, other processes and crashes |
| `AsyncRunnerProofs` | | proofs, over those of `TaskStateMachine` |
| `RecoverCommand` | `AppAgentRunner.Recover` as a command beside the others | the first finding |
| `TaskLockPool`, `TaskLockPoolProofs` | `reactor.taskLockPool` under `Reactor.Advance` | locks with reference counts |
| `EventBus`, `EventBusProofs` | `eventbus.Bus` | the lock, the queue, the workers, closing |
| `TaskRegistration`, `TaskRegistrationProofs` | `Runtime.RegisterAgent`, `Runtime.Close` | registration in four maps and a file, with roll-back |
| `MCTaskRegistration` | | the instance for TLC, with symmetry |
| `JsonlFile` | `appendJSONLRecord`, the readers of the stores, the queue | a file of JSON lines, as operators |
| `RecordTable` | the SQLite stores | the abstract specification: one row for a key |
| `Persistence` | the file stores, the mirrored stores and the work queue, used by several processes | implements `RecordTable` where it can |
| `PersistenceProofs` | | proofs |
| `InteractiveSession`, `MCInteractiveSession` | `runtimecli.Session`, `Reactor.Advance`, `AsyncEffectDispatcher`, the executors | composes `TaskStateMachine` with goroutines, the bus queue and the user |
| `InteractiveSessionProofs` | | proofs, over those of `TaskStateMachine` |
| `ToolPolicy` | `policy.StaticPolicy` | the decision on a request, as operators |
| `UnifiedPatch` | the diff parser and applier of `write.go` | operators on lines |
| `WorkspaceTools`, `MCWorkspaceTools` | `tool.Manage.Execute`, `apply_patch`, `write_file` | composes the two with a tree that others change |
| `IgnoreRules` | `foundation/workspace/ignore.go`, and git's reading of the same lines | operators, the second the reference for the first |
| `WorkspaceRead`, `MCWorkspaceRead` | `list_files`, `search_text`, `read_file`, `get_workspace_summary` | a walk over a tree the user edits |
| `WorkspaceToolsProofs` | | proofs about `WorkspaceTools`, `IgnoreRules` and `WorkspaceRead` |

A definition whose name begins with `Slip` is the next one with a mistake a programmer
could make. No specification uses a slip; each property is known to fail with one of
them in place of the original, which is how we know that it looks at what it says.

### TaskStateMachine

`st[t]` is the record the `StateStore` holds for task `t`; a step of the model is one
call of `HandleEvent`, which the reactor makes under the task's lock. Actions have the
names of the handlers. `Accepts` collects the tests that lead to `illegalEvent` or to a
payload error, `Commit` is the tail of `HandleEvent` (remember the event, save, return
the effect), `ReplayEvent` the branch for the last event delivered again. The
environment delivers any event at any time, well formed or not, under a new or the last
id; the only restriction, `Deliverable`, is that an id names one event. `handled` and
`out` are history: what the last handled event was, which effect it had, and what
`HandleEvent` returned. Call ids, request ids and sub-task ids are abstract references;
texts, times, tool arguments and the lifecycle log are left out. `MaxFailures` is a
natural number; `WithMaxFailures` would also take a negative one (no limit), which
nothing in the repository passes.

### AsyncRunner

`events` and `effects` are the pending entries of `queue/events.jsonl` and
`queue/effects.jsonl`, oldest first; `runs` are the task runtimes on disk; `snap` the
agents' snapshots. `worker` is what the working process holds in memory between two
writes, and is what a crash (`Interrupt`) loses. `Advance` and `DispatchNextEffect` pop
(the *done* record is written first); `Publish` is the rest of `Advance` up to the saved
state; `EnqueueEffect` and `EnqueueEvent` are the appends that follow. The executors are
`AgentStart`, `AgentObserves`, `AgentDecides`, `AgentFails`, `AgentRefuses`,
`ModelAnswers`, `ToolAnswers`, `AskUser` and `Announce`. The model may decide anything,
reuse its ids and rewrite the step index. Submitting and typing happen in other
processes at any time; typing is two steps, since the request id is read before the
answer is queued. `SelectAgent` may happen between any two commands. Ids are random in
the code; here they are drawn from those nobody holds, and the bound `IdsLeft` says that
nothing that needs a new one is done when there is none left. The configuration has as
many as can be held at a time.

Three history variables separate the runs the guarantees are about from the rest:
`disturbed` (a crash or a failed write hit the run, its agent was changed half way, or it
asked for a sub agent, which no executor handles), `guided` (it took user input while
running, which the code accepts and which starts a second turn), and `rewound` (the
model set its step index itself). They are not cosmetic: each stands for runs that do
get stuck, double their turns, or go on for ever.

### TaskLockPool

A step is what the pool's mutex makes atomic (`Register`, `Forget`), or one operation on
the task's own mutex (`Lock`, `Unlock`), or on the semaphore (`Enter`, `Leave`), which
goroutines wait for after `Call`; that one gives up when its context is done is left out. `Locks`
are lock objects; one that nobody refers to may be handed out again, so that a goroutine
with a stale pointer would be seen. No event semaphore (`MaxConcurrentEvents` of 0 in the
code) is the same as one with a slot for every goroutine.

### EventBus

The lock is Go's `sync.RWMutex`: a waiting writer keeps new readers out, and a departing
one lets in those that waited. `enqueue` is `CallEnqueue` (up to `RLock`), `CheckClosed`,
then `Send` or `GiveUp`; a worker is `Receive`, `MatchingSubscribers`, and one `Deliver`
per subscriber; a handler may publish (`HandlerPublishes`), as the reactor does. What a
writer does between `Lock` and `Unlock` is one step. The order in which handlers are
called, delivery reports and the log are left out.

### TaskRegistration

`pc[p]` is the step of `RegisterAgent` the call `p` has done, or the one it is about to
undo; each step is one critical section (of the runtime, the agent registry, the runtime
registry or the bus) or one write to the storage, and a failing step leads to the undo
steps of those before it, in the order of the code. An entry of a map holds the caller it
came from, which stands for the agent the caller brought, so that an entry of somebody
else is told apart from one's own. `route` is the bus's writable subscription for a
task: `EventBus` shows that there is at most one, and other code may hold it
(`Stranger`). A record may be there from an earlier process (`OldRun`); a write that
fails may have been done, and the error of the deletion in a roll-back is dropped, as in
the code. `faulty` remembers the tasks this happened to.

### Persistence

One file is looked at, of a kind that is chosen at first: task states, snapshots,
runtimes, events, or the queue. `JsonlFile` keeps a file as its lines and a line as what
was written to it, so that a torn record, and a record that lands on its line, are what a
reader finds them to be. A mirror's `Load` (memory, then the file, then memory) is one
step: one goroutine of a process deals with a key at a time, and what another process
writes in between is `foreign` whether it counts as before or after. The readers speak of line numbers: `Load` finds the last line of
its key, `List` goes over them with a map, `IsNext` is the item of the queue that was put
there first of those whose last line does not say done. A call is the steps between which another process can come: read
(for the stores that read before they write), `CheckEnd` (`ensureTrailingNewline`),
`Write`. A mutex of a store excludes nobody here, since every process has its own; the
calls of one process follow each other. `Crash` leaves the file after any of the outcomes
a death within a write may have, and forgets the mirrors' memory. The history variables
name what the guarantees cannot cover: `between` (a call that had checked the end of the
file when another process died in the middle of a line), `raced` (two processes read
before either wrote), `foreign` (keys another process changed since this one knows them).

### InteractiveSession

A line the user types is `Read` (the state is read, without the task's lock), `Decide`
(which of the branches of `HandlePlainInput`) and then, if it starts, answers or guides,
an `Advance` on the session's own goroutine. The bus worker (`Deliver`) prints an
outcome or a question first, since the session subscribed first, and then makes its own
`Advance`. `Advance` is `HandleEvent`, under the lock; `DispatchEffects` is what comes
after the unlock: a goroutine per effect, whose steps are those of the executors and of
the agent with its snapshot, loaded in one step and saved in another. It ends with
`PublishAnswer`, or with `DropAnswer` if its context is done. `CancelTask` marks the
contexts under way. The analyzer that tells guidance from a new task is a free choice.
Event ids and call ids are random in the code; here they are drawn from those nobody who
deals with the task still holds (`FreshIds`, `FreshRefs`), and the bound `IdsLeft` says
that nothing that needs a new one is done when there is none left.

The modelling met these facts, which are how the code is, and which the properties
except by name: a line typed while the agent runs starts a second turn beside the first;
the two save the same snapshot, one may refuse the other's answer, and the task then
waits for good (`guided`, `refused`). A task that waits for a model, a tool or a sub agent
refuses every line (`runtimecli.go:159`), so a task left so blocks the session.
`CancelTask` cancels contexts and leaves the state where it was (`dropped`). The question
is printed before the task waits for the answer (`runtimecli.go:293`): a line typed in
between finds the task running, and is guidance or a new task instead of the answer.

### ToolPolicy, UnifiedPatch, WorkspaceTools

A call goes from `Execute` (the policy's decision), through the user's yes or no, to
`Begin` (the context and the input), one `Prepare` for each file of the patch, and one
`Write` for each prepared change; between any two of them another call, the user's
editor (`Edit`) or a cancellation may come. `write_file` is the case of one file. A tree
has files, directories, and files a patch refuses (binary, large); a line of a file is a
token with its line end. `UnifiedPatch` works on the lines of a diff as `write.go` does,
headers and counts included; the characters of a line are its token. `Above`, `Git`,
`Outside` stand for the paths' syntax and for links. `disturbed` are the calls one of
whose targets was changed by somebody else after the call began to look at them.

The input is JSON that nobody checks against the tool's schema (`adapter.go:167`,
`registry.go:182`), and `dry_run` and `path` are read twice: by the policy as exact keys
of a map, with `true` for a `dry_run` that is missing or of another type
(`InputBoolField`, `InputStringField`), and by the tool as fields of a struct, which take
a key in any case, refuse another type and know null (`Decodes`, `DryRun`, `FilePath`).
So each of the two is a sequence of keys (`Key`), spelled exactly or not, with a value, a
null or something else; of several the last counts. The two readings differ for an
input like `"Dry_Run": false` or `"Path": ".env"`. `EveryChangeAuthorised` says what holds
of every input (not a dry run to the tool, the tool's flags, no git directory), what the
policy adds unless it took for a dry run what the tool did not (`TakenForDryRun`: the
mode, the user's yes), and that the yes to a high-risk path is there if both read the
same path (`ReadsSamePath`). That the policy's mode holds for every input is
`ReadOnlyModeBlocksWrites`, which is violated; see the findings. The other fields
only the tool reads, or the policy reads by the tool's own decoding (`patch`), and they
are values.

`MCWorkspaceTools` builds the diff of every short script of kept, removed and added lines
on a file, with all of its context and with none, numbered as `diff -u` does, and lets
`PatchSays` compare the result with the script. Met on the way: a file that is emptied but
not deleted keeps one newline (`write.go:828`); a patch that adds both a file and a path
below it fails half way (`write.go:607`, `Nested`); two tasks that patch one file may lose
the first change, since nothing is compared between the look and the write.

### IgnoreRules, WorkspaceRead

One call is made on a tree the user edits meanwhile. A directory is read in one step and
its children are looked at one at a time; `todo` is the walk's stack. `GitHides` is git's
reading of the lines the code supports, and `Expected` what a call ought to show of the
tree by it. The properties except what the user edited, what is below a line with `!`
(the code lets in what git does not), and what `list_files` does at its largest limit:
it stops without saying so (`workspace.go:563`, `list.go:102`). The summary has rules of
its own. It shows directories alone, of the entries a snapshot has, sorted
(`PlacesInOrder` is the order of the strings), at most 40 of them (`MaxImportantDirs`;
`workspace.go:760`); it drops the snapshot's flag and takes an error in the middle for
the end (`Summarize`, `workspace.go:713`), so that its result never says that something
is missing. `cut` remembers why its walk ended, and `NothingHidden` says that it leaves a
directory out only if its walk failed, there are more entries than a snapshot takes, or
its list is full (`LeavesOut`). The rest of the summary (module, commands, languages, git
status) is not modelled. In a directory below the root it reads the `.gitignore` there
and not the root's (`workspace.go:334`). A file that
vanishes during a listing or a search fails the whole call (`search.go:80`,
`list.go:119`). The code applies the default names of files to directories as well
(`ignore.go:133`): a directory called `.DS_Store` is hidden, but a call that starts below
it shows what is there, since only the last name is compared; the default names of
directories hide at any depth. `Visible` says so.

## The runs

| run | configuration and bounds | shows |
|---|---|---|
| `task_state_machine` | one task (tasks share nothing), two references (the pending one and another), two event ids (the last one and another), an agent with a flow and one without, budgets 1 and 2 | every sequence of events of any length: the invariants, finality, replay, and that the machine implements `TaskLifecycle` |
| `async_runner` | one run (the queues are filtered by task), two agents, one turn, one failure allowed, at most two items when the user types | all interleavings of commands, crashes, input and switches: one item of work exactly, nothing refused, the snapshot agrees; such a run ends or asks its user |
| `recover_command` | one turn | **violated**: see the findings |
| `task_lock_pool` | three goroutines, two slots, two tasks, two locks | mutual exclusion while entries are created and dropped, no leak; whoever calls is handled, although two that want one task can hold both slots |
| `event_bus` | two publishers, one worker whose handlers publish, two goroutines that change and close, a queue of one | no send on a closed channel, draining, and `Close` returns unless the bus is wedged |
| `task_registration` | three callers, two tasks, two agent names: two calls that compete and a third that finds what they left | a failing call harms no other, a success stands, failures and `Close` leave nothing |
| `event_bus_routing` | one publisher, one worker, two values per field, two subscriptions, handlers that do not publish | one writable subscriber per event; nothing blocks for ever |
| `persistence` | two processes, two keys, four calls that may write, one death, each of five kinds of file | what was acknowledged stays; `Load`, `List` and memory agree; once is once; the file implements a table |
| `interactive_session` | two tasks, two lines, one turn, one failure allowed, one cancellation a task | a task is carried on or over or asks; its outcome is printed once; an answer is accepted |
| `workspace_tools` | two calls, three modes, one edit by the user; for one call, `dry_run` and `path` given up to twice in every spelling, and diffs of every script of up to three lines | a failure changed nothing, a change was authorised, a diff does what it says |
| `policy_modes` | the same | **violated**: see the findings |
| `workspace_read` | five trees of up to seven entries, one with a directory named like a file that is ignored by default, one with more directories than a summary shows, a `.gitignore` of up to two of 48 lines, depths and limits from 0 past what is there, up to two edits | a full result hides nothing, a summary only for the reasons above; nothing ignored, twice or too much is shown |

The bounds are small because the actors are interchangeable and hold little: two of a
kind are enough for one to overtake, close on or mismatch another, and a queue of one is
full as soon as it is used. In `async_runner`, `MaxItems` bounds only typing; the ids are
as many as can be held at a time, so that `IdsLeft` excludes nothing. A limit of one turn
has the turn that is taken and the next, which the limit refuses.
State counts are about 3.5 thousand for the state machine, one million
for the runner, 0.3 and 0.2 million for the bus, 0.8 million, up to symmetry, for the
registration, 1.2 million for the files, 2.7 million for the session, 1.3 million for
the tools that write and 0.37 million for those that read.

Why the newer bounds are enough: a torn line needs one death and one call after it, and a
race two calls that overlap, so four calls hold a save, a death, a repair and a read of
it. In the session, two lines are the least that can answer, guide or abandon what the
first began, and two tasks the least of which one is left behind; every event of a turn
comes up in one turn, and `MaxTurns` of 1 also has the refusal at the limit. There
are as many ids as can be held at a time, so that `IdsLeft` excludes nothing. The `VIEW` of
`MCInteractiveSession` hides the result of the last `HandleEvent` and the history by
which replay is recognised; no action reads the first, and fresh ids make the second
irrelevant. Two tool calls are enough for one to change what the other has looked at. A
script of three lines has a hunk with nothing removed, nothing added, and both, at the
start and at the end of the file.

`CHECK_DEADLOCK FALSE` stands where the system really may stop: runs of the asynchronous
runner end, and the bus has a deadlock of its own. `Wedged` describes it: the queue is
full, a writer (a call of `Subscribe`, `Unsubscribe` or `Close`) waits, publishers hold
the read lock while they wait for room, and the worker that would make room waits for a
read lock behind the writer; or every worker publishes from a handler. TLC reaches such
states; `ClosesUnlessWedged` says there is no other way for `Close` to block, and
`AlwaysReturns` that there is none with as many workers as publishers and quiet handlers.

### Fairness

- `AsyncRunner`: weak fairness of `Step`. A command returns, and somebody keeps calling
  `work` (`Run` does it in a loop). Nothing is assumed of users, crashes or switches; a
  run that is never left alone by its user is excluded in `Settles` itself.
- `TaskLockPool`: weak fairness of each goroutine's own steps (handlers return), strong
  fairness of taking a mutex, which Go's `sync.Mutex` gives in starvation mode, and of
  getting a slot, since those that wait to send on a channel do so in turn. None for
  `Call`: nobody has to.
- `EventBus`: weak fairness of each goroutine inside the bus; handlers return. None for
  calling in, for a context being done, or for a handler to publish.
- None in the other modules: `CarriedOn` says of every state that something is on its way
  to a task, which is what liveness would need; that executors answer at all depends on
  the model's server and on the user.

### Findings

`recover_command`: the description of the command and the help text promise that
`recover` enqueues one resume event for a persisted run. `Recover` only lists. A run
whose process died between a pop and the next append, or inside `Submit`, has no work
left, is listed as recovered by every call, and never moves again.

`policy_modes`: the policy's refusal says that read-only mode blocks writes
(`policy.go:123`), and the documentation that what is no dry run needs the policy
(`current-status.md:234`). A request with the key `Dry_Run` and the value `false` is a dry
run to the policy, which reads exact keys (`policy.go:92`), and none to the tool, which
decodes a struct (`workspace.go:514`): it writes the file in the read-only mode. By the
same two readings a delete is made, and a high-risk path written, without the
confirmation; `EveryChangeAuthorised` names these cases.

## The proofs

The theorems hold for all values of the constants, under the named assumptions of the
modules (ids are not the empty id, the kinds of goroutines are disjoint, budgets are
natural numbers, a semaphore has a slot); TLC evaluates these in the runs.

- `TaskStateMachineProofs`. `IInv` is `TypeOK`, and per task: the pending calls match
  the phase, the failure count matches the budget, and the last effect, the last event
  and the phase agree. The last part is what replay needs: that the handler of the last
  event returned what `ReplayedEffect` computes from the state. There is one lemma per
  kind of handler and one step per action; the properties, finality and the refinement
  of `TaskLifecycle` follow. Why a strengthening: `ReplayRepeatsEffect` speaks of a
  step, and nothing in `TypeOK` remembers which effect the last event had.
- `TaskLockPoolProofs`. Mutual exclusion follows from three facts that are inductive
  only together: the users of a task share the entry of the map, the reference count is
  the number of users of the lock, and the owner of a lock is the user that handles. The
  count ties deletion of the entry to its last user; cardinalities come from
  `FiniteSetTheorems`.
- `EventBusProofs`. The lock's readers and waiters are exactly the goroutines between
  `RLock` and `RUnlock`, a writer acts only when there are no readers, and so `closed`
  cannot change under a publisher at its `select`; the queue is empty once every worker
  has stopped on a closed queue. `OverlapsExact` shows that `Overlaps` is neither too
  weak nor too strong, and gives the one writable subscriber.
- `TaskRegistrationProofs`. The properties follow from an invariant in which every entry
  of a map has a reason: a call that made it and is still to finish or undo it, or the
  one registration that succeeded. Its crux is that a call that holds the runtime of its
  task knows that no call for the task has succeeded (`Unfinished`): only then may it
  undo. `UndoesItsOwn` alone is not inductive, since it says nothing of entries whose
  caller is at rest.

- `WorkspaceToolsProofs`. What a change needs is looked at when it is prepared and used
  some steps later. The invariant says how far a call is and what was decided about it
  (`Stages`), that each prepared change keeps what the look found, until somebody else
  touches the call's targets (`Prepared`), and that the files form a tree, which is what
  makes a file removable. `Bystander` shows that the step of one call keeps the others'
  part; `WriteEffect` and `FeasibleIsDone` that a prepared change cannot fail. Neither
  property is inductive: both speak of what was done, and their reason is what was
  checked before. Holds for any number of calls and of files in a patch, any tree and
  any requests, under `WorkspaceAssumption` (what is below a `.git` directory or outside
  the root is so too) and `ScenarioAssumption` (the initial trees are trees, and the
  calls are not those of a tool that reads, and the keys of their inputs have values of
  their types). `ChangesAreAuthorised` rests on each side's own reading: `Stages` keeps the
  policy's decision by `PolicyRequest` next to the tool's `DryRun` and `FilePath`, and
  `AllowedWrite` shows what is left when both hold.

- `AsyncRunnerProofs`. A run goes on because the item under way, wherever it is, is the
  one its state waits for. `IInv` says so of each place an item can be in: `Fits` of the
  entries of the two queues and of what the process holds, `SnapshotFits` of the agent's
  files; `Advances` and `Alone` count the items; `DistinctIds` says that no event waits
  twice or was handled before, so that nothing is a replay; `Submitted` and `Saved` that
  only submitted runs have a state. None of the four properties is inductive: that the
  agent accepts an answer (`NothingRefused`) needs that its snapshot names the call,
  this that no second turn has saved over it, and this that one item is under way. What
  the state machine makes of an event is not proved again: `TaskStateMachineProofs` is
  instantiated, and its lemma `HandlerOutcome` cited. `RunnerDrivesMachine` is the
  refinement (each step of the runner is a step of `TaskStateMachine` or leaves its
  variables alone), and `OverForGood` what follows of it without a further proof. Under
  `RunnerAssumption`, and the bound `IdsLeft`.
- `PersistenceProofs`. What writing does to a file is one of three things (`Moves`): it
  holds the same records, one more on a line of its own, or one less, spoiled by a record
  that landed on the line of a dead process; `SameAnswers`, `AddedAnswers` and
  `SpoiledAnswers` say what the readers answer then. `ListIsLoad` shows for every file
  that the two readers agree; `List` is a recursive function, and the induction is one
  over the first line at which it would differ, which needs a smallest element and no
  induction theorem. `IInv` then says what an unfinished call has read and may rely on
  until it writes: nobody else holds its event (`EventsOnce`), its item was put there
  more often than it was done (`PoppedOnce`), the line it will write to is empty unless
  somebody died (`Ends`). `AckedIsKept` is not inductive since the last line may still be
  spoiled: acknowledged records stand on lines that are not the last (`Kept`). For any
  number of processes, keys, calls and deaths, under `PersistenceAssumption`.
- `InteractiveSessionProofs`. `IInv` says of each task what is under way for it and
  where it came from. `Bounded` counts: at most one carrier, and one more for every line
  by which the user guided the task. That count alone does not survive a step, since an
  event that fits nothing would be rejected and leave the task with none: so `Attended`
  says that one of the carriers is what the state waits for, and `Known` that, of a task
  nobody guided, nothing is about that the state and its agent's snapshot do not wait
  for. With one carrier nothing else is under way (`Solitary`), and the snapshot an agent
  loaded is still the saved one when it acts on it. `Shown` follows a question from the
  effect that prints it to the state that waits for it, `Answering` what the session may
  still rely on of a state it read without the lock: that the question stays asked until
  this session answers it. None of the three properties is inductive. There are lemmas
  for what each kind of step does to the counts (`CountsNext`, `QueueShrinks`,
  `EffectsReplaced`), for the tasks a step leaves alone (`DeliverOthers`,
  `EffectOthers`), and one step of `StepInv` per action. `SessionDrivesMachine` is the
  refinement of `TaskStateMachine`; with the theorems of that module it gives
  `SessionTasksStayOver` and `SessionTasksLive`. For any number of tasks, lines, ids,
  turns and cancellations, and the bound `IdsLeft`.

- `WorkspaceToolsProofs`, second half: the tools that read. `ReadInv` says of a walk, at
  any moment of it, that what the result is to show of the tree as it is now (`Expected`)
  is in `out`, or is covered by an item of `todo`, `look` or `kept`, or is at a path
  somebody edited or one that nothing is said of (`Complete`). Neither property is
  inductive: that an item once skipped covered nothing needs that a directory above a
  path git shows is not hidden from the code either (`VisibleIsReached`), that an item
  once taken belongs in the result needs that every directory it was come to through was
  let in (`Entered`) and that it is still what `os.ReadDir` said unless its path was
  edited (`ItemOK`), and that nothing is shown twice needs that no item lies under another
  (`Apart`) and none before what is already shown (`Ahead`). What `List` drops after its
  largest number of entries is made up for by counting: more is then in `out` and still
  to be visited than the call may show (`Enough`), so it ends as truncated. For the
  summary, `ImportantAre` shows that its list holds all directories of the snapshot
  unless it is full, and `MoreThanTheLimit` that a snapshot ends at its limit only if
  there are more entries. An edit
  changes the tree under the walk: `ExpectedStays` shows that it changes what is to be
  shown of no other path, `EditKeepsTree` that the tree stays one. `IgnoreIsGit` is about
  `ignored` alone: the code hides nothing but what git or a default rule hides, and all
  of that but what a line with `!` lets in (`LetsIn`). There is one step of `ReadInvHolds`
  per action. For any tree, `.gitignore`, call, limits and number of edits, under
  `WorkspaceReadAssumption` (names and places are listed once, a place lies in places, limits are
  positive) and `ReadScenarioAssumption` (the initial trees are trees, the calls have
  numbers where numbers belong).

Only model-checked: liveness (`Settles`, `Served`, `ClosesUnlessWedged`,
`AlwaysReturns`), which is out of the prover's reach; and `PatchSays`, which compares what
recursive functions compute with a reference and so needs an induction over data.

## Not modelled

- The synchronous dispatcher, which only tests use; the limit of concurrent effects, which
  a task with one effect an event does not reach; the step limit of `Run`.
- `AsyncRunner` with two workers at a time: `Persistence` shows what two processes do to
  one queue file, and that an item two of them read may be popped twice.
- Asynchronous approval of tools: it has no caller. The command line asks at once, on the
  terminal, with a reader of its own on the same standard input as the session's
  (`capability/tool/policy.go:82`): what one of them has read ahead the other does not
  see, which the model leaves out.
- Of the runtime facade, the flow registry and the options; `RegisterAgent` with a done
  context, which returns before it does anything.
- The context manager, of which the program calls one look-up of a constant, and the
  orchestrator, which nothing imports: there is no use of them to be faithful to.
- Prompts, model clients, commands, start-up, configuration, logging and the `ask_user`
  tool: texts, input and output, with no state or order that a property could be about.

## Plan

1. `TaskStateMachine`, its lifecycle and proofs; `AsyncRunner`; `TaskLockPool`;
   `EventBus`; `TaskRegistration`. Done.
2. The effects of the reactor inside a process, with the session that drives them:
   `InteractiveSession`. Done.
3. `JsonlFile`, `RecordTable`, `Persistence`. Done.
4. `ToolPolicy`, `UnifiedPatch`, `WorkspaceTools` with proofs; `IgnoreRules`,
   `WorkspaceRead`, with proofs. Done.
5. Open: `AsyncRunner` over the queue of `Persistence`, with two workers.
6. Proofs of `AsyncRunner`, of `Persistence` and of `InteractiveSession`. Done.
7. Open theorem: `PatchSays`, were the provers to take an induction over data.
