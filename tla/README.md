# browser-session-agent in TLA+

A TLA+ model of the coordination code of browser-session-agent (Magpie), the
TLC runs that check it on small instances and the TLAPS proofs that hold for
every instance. The program drives browsers for long-running jobs; what is
worth modelling is not the page but what several processes do to shared state:
SQLite rows, lock directories, journals, sockets.

Source paths below are relative to the repository's `src/`.

## 1. The system

| component | where | state it keeps | operations | what makes it correct |
| --- | --- | --- | --- | --- |
| durable dispatcher | `durable/application/dispatcher.ts`, `durable/domain/{work-item,job-lifecycle,scheduler-policy}.ts` | none of its own; local copies of rows during a tick | tick of a job, scan of due jobs | an item runs under one live attempt, ends only with it, never before its dependencies; ready work is served |
| durable repository | `durable/infrastructure/sqlite/` | tables jobs, spec_versions, cases, work_items, attempts, effects, human_requests, resources, grant_usage | claimWork, commitOutcome, heartbeat, cancelJob, activateRevision, single-row saves | what must change together changes in one transaction; fences keep late writers out |
| durable human requests | `durable/application/service.ts` 205-377 | rows of human_requests and resources | openChallenge, answer, skip, prepare, resume | a blocked item always has something to answer; an answer never completes work |
| durable specs, cases, revisions | `durable/application/{service,materialize,planning}.ts` | rows of spec_versions, cases, work_items | create, propose, approve, ingestDiscovery, activateRevision | work is bound to an approved spec; a case is materialized once |
| durable effects and grants | `durable/domain/effect*.ts`, service 165-203 | rows of effects, grant_usage | authorize, prepare, dispatch, mark uncertain, reconcile | an uncertain effect is not dispatched again; grants are not exceeded |
| durable host, adapters | `durable/infrastructure/*host.ts`, `durable/adapters/` | a runtime's browser and model | execute an attempt | (the environment of the dispatcher) |
| prototype jobs | `jobs/` | JSON files under a job directory | sprints, leases, human queue, graph materialization | one sprint at a time; no lost human answer |
| core leases and ledger | `core/{lease,ledger,state,checkpoint,atomic}.ts` | lock directories, append-only files | acquire, steal, heartbeat, release; append | one holder of a directory at a time |
| core commit gate | `core/{gate,approvals,reversibility}.ts` | journal of actions, approvals, grants | claim, approve, commit, recover | a consequential action is performed at most once |
| core plan and task | `core/{plan,task,evaluator,predicates}.ts` | plan steps, a task's state | revise, report, evaluate | a step closes only on evidence |
| browser actions, perception | `core/{browser,act,settle,perceive,...}.ts` | a Playwright page | observe, act, settle | (needs a real page) |
| challenge coordination | `runtime/{resource-coordinator,challenge-handoff}.ts` | circuits and holds per resource, one interactive challenge | open, resume, hand off | a blocked resource stays blocked until fresh evidence |
| attempt budget, effect identity | `runtime/{attempt-budget,effect-identity}.ts` | counters per action and page | allow, record, reset | the same failing action is not repeated without bound |
| tools, wire | `runtime/`, `tools/` | a conversation and a view of the page | tool handlers | mostly prompts and formatting |
| coach, plan mode, assembly | `host/{pi-plan-mode,pi-coach,pi-assemble,pi-capabilities}.ts` | the plan's steps, a review, the artifact, constraints on the tool set | commands, handlers of a turn's and a run's end, the report's gate | nothing mutates while planning or reviewing; the host's own steps come in order; tools taken for a time come back |
| subagents | `host/pi-subagent/` | a child process per call, progress over the calls of a session | admit, spawn, extend, abort, judge | a worker is bounded, failures stop the next one, nobody waits for an operator who is not there |
| hosts | `hosts/` | accounts, sockets, pending RPC calls | login, connect, call, disconnect | a reply settles the call that asked; a lost socket settles them all |
| browser session and runs | `session.ts`, `store/run-store.ts`, `domain/ownership.ts` | one state.json per run, tab records and the current run in memory | start, act, inspect, takeover, resume, pause, stop, ask, status | a run handed to a person is not driven by the agent until it is resumed |
| worker | `worker/` | one Chromium, its tracked pages | start, stop, attach, gestures | tabs keep their ids across a restart |
| plan interpreter | `plan/` | a bounded tree and its results | validate, interpret | bounded work, stops at the first failed guard |
| optimizer, suite, CLI, stores | `optimize/`, `suite/`, `cli/`, `store/` | files written once | record, roll up, compare | sequential |

How they interact: an adapter or the CLI builds a `JobApplicationService` over
the SQLite repository; each process has a connection of its own. The service
calls the dispatcher, the dispatcher calls the repository and the execution
host, the host runs a browser under a directory lease. A challenge found by
the host comes back as a blocked outcome, becomes a human request and a circuit
on the host's resource key, and is released by a person through the service.
There are no callbacks across these processes: everything is shared rows and
files, so the hard behaviour is stale reads, lost updates, and crashes between
two writes.

On the operator's machine one process, the node agent, holds the browser
session; the web host sends it calls over a socket. The agent starts a handler
per message and awaits none, so the calls of a session interleave at every
`await` although the process has one thread.

## 2. Plan

In the order in which they were chosen, the most important behaviour first:

1. `DurableDispatch` (with `WorkItems`, `JobLifecycle`): every durable job goes
   through it - built.
2. `DurableSpecs`: propose, approve, ingest, revise, cancel, with each
   statement a step, against `ConfirmedWork`, what approval promises - built.
3. `BrowserRuns`: the calls of a browser session, its run files and tab
   records - built.
4. `ToolCalls`: the agent's tools, the commit gate, checkpoints, the side tab,
   the ledger and the interactive challenge guard, as calls of one message that
   interleave - built.
5. `SprintJobs`: the prototype's jobs behind their lease directory, with a
   person at the service - built.
6. `NodeLink`: hub and node agents over sockets that break and are replaced -
   built.
7. `OperatorChat`: plan mode, coach and file assembly, as handlers that overlap
   on one tool set - built.
8. `CoderRuns`: the subagent tool, its worker's slices and the progress that
   stops it - built.
9. `DurableEffects`: prepare, dispatch, grant, crash, reconcile; abstract
   specification: at-most-once dispatch per identity key. Nothing calls it yet
   but tests.
10. `DurableScan`: several jobs, a scan stopped by a throwing claim.
11. The web host's sessions and chat sockets (`hosts/web/{runtime,server}.ts`).
12. Pure algorithms against reference definitions: the plan interpreter, the
    case graph.

The modules are independent state machines: what one component's model calls
"the outcome of a run", "an answer" or "a method at the node" is looked into by
another (a kernel's outcome in `DurableDispatch` and a run's in `SprintJobs` by
`ToolCalls`; a method at the node in `NodeLink` by `BrowserRuns`). They meet in
small interfaces only, so composing them would multiply states without adding
interleavings that matter.

Each of the first eight has a proof module, and every safety property that a
passing run checks is a theorem (section 5). Worth proving next: with
`DurableEffects` its abstract specification, and of the present modules the
lemmas that a liveness argument would need (that what a fair action waits for
stays so until it is taken).

## 3. The modules

### JobLifecycle, WorkItems

The matrix of `job-lifecycle.ts` and the reducer of `work-item.ts`: `From` and
`To` give for each command the statuses it is allowed in and the one it leads
to. A row is its status and what its checkpoint says of the last block
(nothing, a challenge, something else).

### DurableDispatch

One approved job. `job`, `item`, `attempt`, `human` and `breaker` are the rows
of the tables; `worker[w]` is where a process stands in `dispatchDueJob` and
the rows it holds in local variables; `operator[o]` the same for a process in
a call of the service, and `calls` how many more of these people may make in a
behaviour (`MaxOperatorCalls`). An action is one transaction or one statement, since
that is what other processes cannot interrupt:

| code | actions |
| --- | --- |
| `getJob`, the listings, `decideSchedule` | `TickStart`, `DecideDispatch`, `DecideWait`, `SaveWake` |
| `claimWork` (a transaction) | `Claim`, `ClaimRejected` |
| `getWorkItem`, the kernel, the reducer | `Begin`, `Finish`, `FinishRejected` |
| circuit, `parkChallengeHuman` (list, insert) | `OpenBreaker`, `ListHumans`, `Park` |
| `commitOutcome` (a transaction) | `Commit` |
| the interval timer, a dead process, the clock | `Heartbeat`, `Crash`, `LeaseLapse`, `CircuitLapse` |
| `cancelJob` (a transaction), `cancelWorkItem` | `CancelJob`; `CancelItem`, `WriteItem` |
| `answerHuman`, `resumeChallenge` | `Settle`, `ReadItem`, `WriteItem` |
| `skipHuman`, `prepareHuman` | `SkipHuman`; `PrepareHuman`, `SavePrepared` |
| `openChallenge` | `OpenChallenge`, `CreateRequest`, `SaveBreaker`, `ReadItem`, `WriteItem` |

`Commit` writes back the item row of `Begin` and the job row of `TickStart`,
however old they are: that is the code, and most of what can go wrong follows
from it. A commit whose attempt is not running throws in the code; no step of
the model ends an attempt but its worker's own commit (theorem
`AttemptsAreOwned`), so the case does not occur.

What is abstracted: the time of a wake is "some" or "none"; a lease is live or
lapsed; an output is rejected, accepted or decisive for the job (`Verdicts`);
host keys and the scheduler's resource keys are both members of `Resources`.
Budgets, deferrals and dispatch history are inputs of the scheduler that no
caller fills; the audit log is not read back.

### DurableSpecs

How work comes into being: `spec`, `caseFacts` and `item` are the rows of
spec_versions, cases and work_items, `caller[c]` a process in a call of the
service with the rows it read, `worker[w]` a tick of `DurableDispatch` reduced
to what touches these rows.

| code | actions |
| --- | --- |
| `propose` | `Propose` (getJob), `SaveProposal`, `AwaitApproval` |
| `approve` | `Approve` (getJob), `CheckProposal`, `SaveApproved`, `SaveItem` per seed, `Activate` |
| `ingestDiscovery` | `Ingest` (getApprovedSpec), `ListCases`, `UpsertCase` per row, then per case `SkipCase` or `MaterializeCase` and `SaveItem` per template; `EndIngest` |
| `activateRevision` | `Revise` (getJob), then one transaction: `CommitRevision`, `CommitArchive` or `RevisionRejected` |
| `cancelJob` | `CancelJob` |
| `dispatchDueJob` | `TickStart`, `TickApproved`, `TickPick`, `TickNothing`, `TickClaim`, `TickBegin`, `TickCommit` |

The order inside a call is the code's, the order of a throw included: a
proposal is saved before the transition is refused, the seeds are saved before
the activation is refused. A hash is a version and a draft, because the version
is part of the hashed bytes; all drafts have the same templates. Work item ids
are a materialization and a template, which is what `newId` guarantees.
`confirmed`, `ratified` and `completed` are history: no action reads them.

### ConfirmedWork

What approval promises: confirm, approve what was confirmed, bind work to what
was approved, once. `DurableSpecs` implements it with `bound` mapped to the
hashes of the rows of work_items and `approved` to `ratified`.

### BrowserRuns

The runs of one operator's browser. `disk[r]` is the status in a run's
state.json (or that the file is absent, truncated or a mixture of two
writings), `tabs` the session's tab records, `current` its current run; `open`
and `attached` are Chromium's tabs and whether the worker is connected to it.
`call[c]` is a call in flight: its method, the await it stands at, and the copy
of the run it read. What happens between two awaits is one action:

| code | actions |
| --- | --- |
| `requireState`, `claim` | `Loads`, `Adopted`: in every call that names a run |
| `act` | `Act` (read), `ActAdmit` (describe the tabs, `assertCanAct`), `Page` or `Fail`, `Truncate`, `Fill` |
| `inspect` | `Inspect` (read, `assertOwned`), `Page` or `Fail`, `Truncate`, `Fill` |
| `takeover` | `Takeover` (read, `assertOwned`), `Release` (after `bringToFront`) or `Fail`, `Truncate`, `Fill` |
| `resume` | `Resume` (read, lock), `Truncate`, `Fill`, then its own inspect from `ResumeLook` |
| `pauseRun`, `stopRun` | `Pause`, `Stop`, then `Truncate`, `Fill` |
| `askUser` | `Ask`, `Truncate`, `Fill`, `Answer`, and the same again |
| `startRun` | `Start` (first tab, claim), `Page` or `Fail` (navigate), `Truncate`, `Fill` |
| `runPlan`, `proposeKnowledge`; `status` | `Peek`; `Status` |
| `worker.start`, `worker.stop`, page events | `Attach`, `StopWorker`, `OpenTab`, `CloseTab` |
| the process ends and starts | `Restart` |

`Truncate` and `Fill` are the two halves of `writeFile`. A run never owns
another tab than the one it started on, so `tabOf` is a function of the run. A
call refused before it changed anything is not a step. `handover` is history:
how far a takeover got, "settled" when its file cannot be overwritten with an
older copy, "lost" when the node restarts while the file says active.

Left out: `events.jsonl` and attention (written, never read for a decision),
the agent's port calls beyond opening and closing tabs (they change no state
of the session and ask for no ownership), and remote input, which changes none
either.

### ToolCalls

The tools an agent works the browser with, as the engine runs them: all calls
of one assistant message together. `page[t]` is what a tab shows, `call[c]` a
call in flight: its tool, the await it stands at, the tab it works in, the page
its decision rests on and the tab it opened. `sideTab`, `halted`, `checkpoint`,
the ledger (`sticky`, `tail`) and `consumed` are shared by all calls.

| code | actions |
| --- | --- |
| `measured` and the first lines of a tool | `BeginPlain`, `BeginClosing` |
| `observe`, `probe`, `check`, `survey` | `Look`, then the guard |
| `InteractiveChallengeGuard.afterObservation` | `Judge`, `Unhalt` after its append |
| `peek`; `side_open`, `side_close`, `park`; `done` | `Open`, `PeekView`; `SideView`, `Drop`, `Close`; `Report` |
| `guardedAct` | `Facts`, `Forbid`, `Save`, then `Refuse`, `Grant`, `Remembers`, `Answer`, then `Claim`, `Mark`, `Act`, `Settle`, `Restore` |
| a person or the site; a new process | `Elsewhere`; `Restart` |

A page is a list (a control of unknown effect), a form (a control that reaches
someone) or a wall (a challenge): the classification of a url or a control is
what these stand for. The ledger is the approvals in it and how its last line
ends: after a line torn by a crash the next event is lost in it, and one more
makes the file unreadable. `yes`, `told`, `fired`, `raced`, and of a call
`slid` and `alone`, are history.

### SprintJobs

The prototype's jobs. `job`, `spec`, `plan`, `sprint`, `entity` and `asked` are
its files, `lock` the lease's directory and the holder named in it, `tick[k]`
a process in a tick, `hand` a person's process in a call of the service.

| code | actions |
| --- | --- |
| `acquireLease`, `release` | `MakeDir`, `Steal`, `MakeDirAgain`, `Hold`; `Release`, `Remove`; `Lapse`, `LapseDead` |
| `runLocked` before a task | `Read`, `Recover`, `End`, `Sprint`, `Pick`, `NoHost`, `Idle` |
| the run of a task | `Mark`, `Reconcile`, `Work`, `Discover`, `Claim`, `Act` |
| what follows from its evaluation | `Success`, `Book`, `Park`, `Defer`, `Abandon`, `Fail`, `Retry` |
| `updateDraft`, `revise`, `proposePlan` | `Redraft`, `Revise`, `Propose`, `Await` |
| `approvePlan` with `materializePlan` | `Approve`, `Add` per task, `Link`, `Activate` |
| `pause`, `resume`; `answerHuman` | `Toggle`; `Answer`, `AnswerMark`, `AnswerUnpark` |
| wake times; dead processes | `Due`; `Crash`, `CrashHand` |

A tick's change of plan.json or of an entity is one step (the file is read and
written without an await that another tick of the job could use); a person's
answer reads a copy and writes it back in two, and may be lost. An entity's
goal facts, merged by a read and a write in the same way, are not told apart.

### NodeLink

The hub (`hub`, `call`) and the node agents (`node`, `work`), with a pair of
queues per connection (`conn`). Messages of a connection arrive in order;
either end learns of a break in its own time, and what it sends until then is
lost.

| code | actions |
| --- | --- |
| `acceptNode`, `attach`; the close handler | `Attach`; `HubSeesEnd` with `Closed` |
| `NodeHub.call`, the answer, `detach` | `Call`, `Answered` with `After`; `Detach` |
| the agent's `connect`, message and close handlers | `Connect`, `NodeHears`, `NodeSeesEnd` |
| `onMessage`: the method, which may throw before its work or after it, then the answer | `Do` (`DoSession` or `DoPort`, `ThrowsDone`), `Report` |
| the network, the agent's process | `Break`, `Crash` |

Of the methods only those that say whose the browser is are told apart
(`startRun` and `stopRun` do to it what `resume` does); the methods of the
port stand for the others. `shut` and `astray` are history.

### OperatorChat

The chat of one operator on the hosted host. `plan`, `coach` and `file` are the
variables of plan mode, the coach and the assembly, `holds` the constraints
that the capability coordinator has in force (the tools are a function of
them), `pi` the model's run, `inbox` prompts it has yet to run. `task[t]` is a
chain of calls that awaits: the handlers of one event, a report, a command, an
assembly nobody waits for. An action runs a task to its next await:

| code | actions |
| --- | --- |
| `/plan`, with a task or alone; `/coach` | `PlanFor`, `SendsTask`; `PlanCommand`; `CoachCommand` |
| `handleCoach`, from four callers | `HandleCoach`, `CompileFails`, `EnableReview`, `AsksReview`, `Returned` |
| `acceptArtifact`, `disableReview` | `Artifact`, `Merged` or `MergeThrows`, `Accepted` (with plan mode's `OnArtifact`), `Aborted` |
| coach: `turn_end`, `agent_end`, `considerSteer`; `considerClose` | `Begin`, `Steer`; `Begin`, `Close`, `Reported` |
| plan mode: `turn_end` | `TurnPlan` |
| plan mode: `agent_end` | `EndExecuting`, `AutoCoach`, `LooksForFile`, `Finish`; `EndPlanning`, `Keeps`, `Execute`, `Executing` |
| `maybeStartAssemble`, `startAssemble` | `HasFile`, `NoFile`, `Listed`, `CoderEnds`, `Relisted`, `Copied`, `Unmade`; `AssemblyThrows` |
| Pi and the operator | `RunStarts`, `Turn`, `RunEnds`, `CallsReport`; `Prompt`, `Abort` |

`memory-host.ts` runs the handlers of one event one after another, and
`runtime.ts` does not wait for them before it emits the next event. A plan is
the set of its roles (`Order`): scout, coach, harvest, deliver, report; one
step stands for the steps of a role. Whether a digest asks for a review, and
what the ledger says, is either. A prompt sent while the session is at work
is kept or refused (`Sends`), as the session's queue and the hosted chat do. A
text tried by `acceptArtifact` may be the text of a later turn again
(`MayRepeat`). `plan.asm` becomes "lost" when an await of the assembly throws,
which nobody catches. The thinking level is left out.

### CoderRuns

The `subagent` tool, which Pi runs one call at a time. `call` is where the call
stands in `execute`, `child` the worker's process and the clock of `runWorker`
that watches it, `progress` what the session remembers of earlier workers
(`saved` its last entry in the session's file), `scratch` the versions of the
files that may count and what admission.json says, `attended` whether
`operatorCanConfirm`.

| code | actions |
| --- | --- |
| `execute` up to the gate; `dispatchAllowed`, `askRecovery` | `Begin` with `Allowed`, `Turns`; `Choose` with `Answered`, `Applied` |
| `confirmLongerRun`, scratch, `runWorker` to `spawn` | `Spawn`, `NoSpawn` |
| the slices of `runWorker`; `confirmExtend` | `SliceEnds`, `Confirm`, `ConfirmLapses` |
| `onAbort`, `killProc`; stdout; `finish` | `Abort`; `Speaks`; `Exit` |
| `evaluateAttempt` and what `execute` does with it, or a listing that throws before it; `askRecovery` again | `Judge` or `Unjudged`; `Recover` |
| timers; files; the parent's end and `session_start` | `Tick`; `Write`, `Admit`; `Restart` |

A task is what `fingerprintTask` makes of its text: family, deliverable, step,
number of blockers, and the files that count for it. Time passes in units; the
program's timers are prompt, an operator and a child take any time. `streak`
is history.

### The MC modules

Model values and small shapes: a chain of two items, or three of which one waits
for another, on one resource; a case graph of one template, or of two with the dependent saved
first; a second task that needs the first.

## 4. The runs

Bounds of the dispatch runs: `Attempts` and `Requests` bound how many claims
and requests there are in a behaviour, `MaxOperatorCalls` the calls of the
service; nothing else is unbounded. `DispatchContention` (1.1 million states)
has two items, the second waiting for the first, so that rows change between
pick and claim while a dependency is open, closed or opened again; two
workers, which may crash anywhere, and a person are what a race needs. Two
attempts are a takeover (an old attempt and a new one) or an attempt of each
item; two requests are one that two processes both list for and both insert;
two calls of the service are a challenge and its answer, or two answers of one
request. Items are not interchangeable; attempts, requests and workers are
(nothing orders them), and the run uses that symmetry, having no liveness
property. In `DispatchFair` (30 thousand) three items on one resource need three
attempts; two of them wait for a circuit the first opened, and the third for
the first's completion as well.

Type invariants: every module's is a theorem. The runs of `DurableDispatch`,
`BrowserRuns` and `SprintJobs` check theirs as well; the other runs ask the
other questions only.

| run | what it asks | result |
| --- | --- | --- |
| `DispatchContention` | two workers that may crash anywhere and a person on two items, one waiting for the other: types, `LeaseHasRunner`, `ItemEndsWithItsAttempt`, `DoneHasCompletion`, `CompletionIsJudged`, `OwnAttempt`, `StartedAfterDeps`, `ChallengeBlockHasRequest` | holds |
| `DispatchFair` | a worker that stays up, three items on one host, one waiting for another: `ReadyIsServed`, `AttemptsEnd` | holds |
| `DocJobMoves` | DOM-03, the lifecycle obeys the matrix | violated: a commit revives a cancelled job |
| `SpecsRaces` | two callers that may crash make every call: `WorkIsConfirmed` (the refinement), `ActiveHasSeeds` | holds |
| `SpecsAlone` | one caller making every call and a worker that may crash, a graph of two: `StartedAfterDeps`, `IngestedIsWhole` | holds |
| `BrowserRaces` | two calls of any kind in flight, two runs, two tabs, five calls in all and one restart: types, `LockReleased`, `TakeoverHolds` | holds |
| `ToolCallsTogether` | two calls in flight and three in all, in the chat and in a job, one restart and one page moved by itself: `TabsAccounted`, `FiredWithConsent`, `FiredOnce`, `AskedOnce`, `RestoresOwnPage`, `HaltHolds` | holds |
| `JobRaces` | two processes ticking a job of two tasks and a person, one trouble (a crash, a lapse, an answer, a pause, a redraft or a discovery): types, `LeaseExcludes`, `AttemptsBounded`, `StartedAfterDeps`, `CommitOnce`, `DoneStays`, `WorkEnds` | holds |
| `LinkBreaks` | two nodes, two calls, two connections, one break, crash or shutdown: `PendingReachable`, `TakeoverAgrees`, `CallsSettle` | holds |
| `ChatTurns` | two tasks under way, five turns and inputs of which the operator types two: `HeldTools`, `InOrder`, `AssemblyHasRunner` | holds |
| `CoderSlices` | three calls on two streams, attended or not, one restart: `RunIsBounded`, `FailuresStop`, `ExtendedSpoke`, `CallsEnd` | holds |
| `DocReportReturns` | COACH-22, a close review decides whether a report terminates | violated: the report waits for a review, which waits for the report |

Bounds of the specs runs: two versions are one revision; `SeedBatches` bounds the approvals
under way or done (two are needed for a repeated or a racing approval),
`CaseBatches` the materializations of cases (one more than cases is a
duplicate). A caller that may not crash never lacks one of these, so the
bounds stop nobody half way.

Five calls are a start and four that race for the run it made, or two starts
that share a tab and three calls. One restart separates what the files
keep from what the process knows; two tabs let a run lose its tab and another
take a different one (2.7 million states). `TakeoverHolds` promises nothing
after a restart that finds active in the file of a takeover (`handover` is
"lost"); `LockReleased` says that this is so only if a call read the file before
the takeover was saved and wrote it back, or the takeover was not saved.

Two calls in flight with a third to follow are what a lost claim, a resumed
halt or a shared side tab needs; two spare tabs are one side tab and one peek or
a second side tab. The restart comes with every torn line. `MaxMoves` lets a
page change between a decision and a click, once.

In `JobRaces` the second task needs the first or is discovered by it, so the
plan has an order, a sprint of one (`Limit`) rolls over, and two attempts
(`Cap`) are one retry. One trouble at a time keeps the run small; two ticks
that meet behind the lease need one lapse and the time it takes, and after that
meeting or a reopened task only the ticks in flight are followed to their end,
since nothing is promised any more.

In `LinkBreaks` a second connection is a reconnect or another node's; two calls
overlap, and one outlives its connection (1.0 million states). With
`MaxTroubles = 2` or three connections the invariants hold as well.

In `ChatTurns` five turns and inputs are a plan, its execution, a review and
the harvest; two tasks are a handler and what it overlaps: the handlers of the
next event, a command or an assembly. `MaxInbox` keeps one prompt waiting. Two
plans instead of one add no case: a plan without a coach or a file is the
steps it has (3.5 million states).

In `CoderSlices` a slice of two units against a cap of five makes the second
extension shorter than a slice, so that what is left decides, and one of seven
is a default longer than the cap; `Wait`, `Silence` and `Grace` of one keep a
question, a silence and a kill apart. Failures and stagnant attempts that stop
are two, the failures as in the program (which lets three attempts stagnate):
three calls are two failures, in one stream or two, with a restart or a success
between them, and the third call, which is refused or let through. One version of one file is a checkpoint that is
there or not; the three tasks are two streams of a plan and another family
(0.8 million states).

Deadlock is checked in the durable runs: a worker can always tick again, and a
caller can always make another call. In the other runs the number of calls,
ticks' troubles, connections or turns is bounded, so a behaviour may end.

Fairness of `SpecsAlone`: the caller, once in a call, takes its next step;
nobody has to make a call, the caller is not `Unreliable`, and nothing is
assumed of the worker.

Fairness of `DispatchFair`: processes that are up keep taking their own
steps (the CLI's loop ticks again and again, `await` returns); circuits lapse
with the clock; and strong fairness of `DecideDispatch` says that the runtime
is attached infinitely often among the ticks that find work. Nothing is
assumed of people, of crashes or of lease expiry, and in that run the worker is
not `Unreliable` and there is no operator: with a crash an item may stay leased
for ever, because the code has no reaper.

Fairness of `JobRaces`: a process with a browser keeps ticking an active job,
a tick once begun goes on unless it crashes, dead holders' leases and wake
times lapse with the clock. A person need not do anything, and a process
without a browser need not tick.

Fairness of `LinkBreaks`: as long as the hub, a node or a call at work can take
a step, one of them does; messages arrive, breaks are noticed (TCP and the
browser's own time limits). Nobody need call or connect again.

Fairness of `CoderSlices`: timers fire, a process sent SIGKILL dies, and the
program's own steps after a worker are taken; in a session that nobody attends
to a worker that is granted is spawned or fails to. No operator need answer, no
child speak or end by itself.

Fairness of `DocReportReturns`: a task that can go on does, and the model ends
what it began, unless a tool it called has not returned. The operator need not
abort.

### What the documents say and the code does not do

Two such statements have a run that refutes them (the rows above marked
violated). The models have the steps that contradict these as well; line
numbers without a file are those of `docs/jobs-v2-spec.md`:

| statement | what the code does |
| --- | --- |
| 334: cancel lets in-flight attempts cancel or fence out | `commitOutcome` saves the item row read after the claim (`repository.ts` 447), so a cancelled item becomes done, failed or blocked |
| 672: an expired lease fences out commits | `commitOutcome` compares the fence and the status, never the expiry (`repository.ts` 420) |
| 812: one open challenge per job, resource and intent | `createHumanRequest` compares the work item too (`repository.ts` 459) |
| 838: outputs validate before state advances | the item is completed first, and the verdict on the item is dropped (`dispatcher.ts` 224) |
| 777: an uncovered effect persists a human request | a block other than a challenge is committed without one (`dispatcher.ts` 203) |
| 720: seeds materialize once, at activation | a second approval after a refused proposal repeats them (`service.ts` 75), and a revision makes none (`repository.ts` 520) |
| 507-511: a crash between statements leaves a valid database | a graph is saved item by item and a case with any item is skipped (`service.ts` 100), so part of a graph may stay for ever; `upsertCases` is no transaction (`repository.ts` 159), so concurrent facts are lost |
| 734-745: retained items are not run under the new version, attempts end before activation | the context takes the latest approved version (`dispatcher.ts` 116); `activateRevision` does not look at attempts (`repository.ts` 490) |
| `architecture.md` 124: takeover sets awaiting_takeover and stops agent actions | a call in flight writes active back (`session.ts` 188, 273): the lock still stops `act` (`TakeoverHolds`), but the person's input is refused, and if the node restarts then, `requireState` (537) claims the tab anew, locked, and `act` is admitted without a resume (the exception of `TakeoverHolds`); the agent's port calls ask for no lock at all |
| `architecture.md` 119: after a worker restart the next inspect or act uses the current page | no method but `startRun` starts the worker: `inspect`, `act` and `takeover` fail until a new run or a port call attaches it, and the new run takes the first tab from the old one |
| 724-725: a case's graph is materialized once | `ingestDiscovery` lists the items of a case and inserts the graph in separate statements without a unique key (`service.ts` 94): two processes both do |
| `challenge-and-approval-handling.md` 162-166, 272: stop all browser actions, zero browser calls after a breaker opens | calls already begun go on, and a peek at any other page lifts the halt (`challenge-handoff.ts` 151): `HaltHolds` is what is left |
| `tools.ts` 717, 752: one side tab at a time, no leaked tab | two `side_open` of one message both open one, and a failed first navigation leaves its tab open for nobody (`core/browser.ts` 184): the exceptions of `TabsAccounted` |
| `gate.ts` 5-13: only a live check counts | precondition and identity are checked on facts read before the person's answer, and the ref is clicked on the page as it is then: `FiredWithConsent` excepts a page that moved |
| `lease.ts` 1-4: a dead process can be displaced after the TTL | so can a live one, since nothing renews the lease, and one that has made the directory and not named itself yet: the exceptions of `LeaseExcludes` |
| the pause of `jobs/service.ts` 156 | a tick with nothing to do writes the job back as it read it, and a new sprint writes active (`runner.ts` 181, 492): the pause is undone; a resume activates a job that was never approved |
| the sprint rolls over (`sprint.ts` 39-72) | not after a member that failed, or was abandoned with others waiting; an answer reopens a done task that no open sprint has: the exceptions of `WorkEnds` |
| `graph.ts` 47-72: tasks are created and linked | a crash in between leaves them unlinked for good: the exception of `StartedAfterDeps` (`cut`) |
| `hub.ts` 67: a lost socket settles its calls | not when the server stops: `detach` forgets the socket first (`hub.ts` 82), and the calls wait for ever |
| `rpc-dispatch.ts` 69: input only while awaiting_takeover | the hub keeps the flag when another node takes the connection (`hub.ts` 57) or a run is paused, and when a resume unlocks, writes active and then throws in its inspect (`session.ts` 425-429; a takeover's append may throw likewise); the node reads the status, then waits, then applies the input: the exceptions of `TakeoverAgrees` |
| 405-407: the approved contract is immutable | `propose` on an active job demotes the approved version and then throws (`service.ts` 53); two revisions, or one after a stale commit, draw the same version (`service.ts` 107) |
| `architecture.md` 91-95: agent actions fail while the run is paused, its lock released | `pauseRun` leaves the lock, and an inspect in flight writes active back (`session.ts` 131, 273): the next act is admitted |
| `run-store.ts` 38: a run's state is one file | `writeFile` truncates before it fills: a call in between fails, a restart in between leaves an empty file, two writings a mixture, and then `status` throws for every run; `startRun` takes the first tab whoever owns it (`session.ts` 107) |
| `coach.md` 351-353: the previous thinking level comes back | two overlapping `handleCoach` save the level one after the other (`pi-coach.ts` 249), and high is what comes back (read in the code; the model has no level) |
| `coach.md` 382: no `subagent` while a plan awaits its coach | the hold takes `scratch_write` only |
| `computer-use.md` 15: scout and coach have no computer tools | a review of the harvest, by a steer or at its close, has `use`: neither list of disabled tools names it (`pi-plan-mode.ts` 66, 363), so `HeldTools` does not speak of it; a plan that ends, or `/plan` during the harvest, leaves `computer-use` in force as well (`pi-plan-mode.ts` 437, 580), also for the next plan |
| the plan's coach (`coach.md` 380) | the artifact is the session's: a second plan does not wait for its coach, whose step nobody ticks, so the plan never ends |
| the file is assembled once (`pi-plan-mode.ts` 331) | two callers pass the check before either begins, and two coders may run; `/plan` in between leaves `assembling` in force when the file is there (`pi-plan-mode.ts` 763 returns) |
| the parent's tools come back after an assembly (`pi-plan-mode.ts` 352-357) | not when one of its awaits throws: a file that vanishes under `listScratchFiles` (`core/scratch.ts` 73; `pi-assemble.ts` 149, 195) or a failing `mkdir` (211) is caught by nobody, and the hold, after the coder also `assembling`, stays: the exception of `AssemblyHasRunner` |
| an artifact that is merged ends the review (`pi-coach.ts` 401-402) | a merge that throws is rethrown (440): the review stays on, and the same text is ignored from then on (380) |
| Execute is the answer to a plan shown | the dialog's answer executes whatever plan there is by then (`pi-plan-mode.ts` 620) |
| two failed coder slices without a checkpoint stop (`bind.ts`, `CHAT_WORKER_HINT`; `evaluations/agent-15-operator-observability.md` 30) | not while a family is asked for: after "Change strategy", or an unattended change, tasks of that family pass a stream that was stopped again (`progress.ts` 363), the exception of `FailuresStop` |
| a child that declines, in admission.json, is not a failure (`progress.ts` 245) | nothing removes the file, so every later worker counts as declined too, and the counts start anew (`bind.ts` 584) |
| a required family is a family (`progress.ts` 63) | an unattended change to "compose" classifies the word itself and asks for "other" (`progress.ts` 135): the next compose task is refused |
| `spawn.ts` 36: the hard cap across slices | a question after which a slice is granted does not count, nor do two graces, and only a time that is asked for is capped (`bind.ts` 361): the default, `BSA_SUBAGENT_TIMEOUT_MS`, may be longer (`spawn.ts` 469-475, `bind.ts` 539-543) and is run to its end: the exceptions in `RunIsBounded` |
| a failed worker counts (`progress.ts` 291) | not when the listing after it throws (`bind.ts` 583): the attempt is judged by nobody (`Unjudged`) |
| a worker that fails is an error (`bind.ts` 265) | one that a signal ended counts as exit 0 (`spawn.ts` 625), unless the host killed it |
| a rejected review is tried again (`pi-coach.ts` 424) | in the hosted chat a retry that is refused leaves the review on: the same text is ignored at `agent_end`, and only another prompt ends it |

Where a row names an exception of a property, the models take the step and the
property says what is left to hold around it; it does not catch the hazard
itself. This is so of a takeover lost by a restart, two ticks that meet behind
the lease, an answer to a finished task, a sprint that cannot roll over, an
approval cut before its links, a shutdown of the hub, and calls that share a
checkpoint or a halt.

## 5. The proofs

`DurableDispatchProofs` proves the seven invariants and the action property of
the passing runs for every set of items, dependency relation, attempts,
requests, resources, workers and operators, and any number of calls of these. Assumed: items are numbers (ids are
ordered), `Deps` maps items to sets of items, `ResourceOf` maps items to keys
or `None`, and `None` is none of the ids.

None of the invariants is inductive, because processes act on copies. `IInv`
adds what they still know: a worker that picked an item knows its dependencies
were completed by attempts (which is never undone, although the items' rows
may change), a worker or an operator about to block an item on a challenge
knows of a request naming it (requests are never deleted), a worker whose job
copy is completed knows of the attempt that was judged (`Informed`,
`Entitled`). The argument:

1. the writer lemmas say which actions touch which rows;
2. `EvidenceStays` and `RequestsStay`: evidence is never taken back;
3. `ExecutingWorkers` and `RunningStays`: an attempt stays with its worker, so
   `OwnAttempt` and `LeaseHasRunner` survive every step;
4. `WrittenRows` and `ItemStep`: what an item row can become and by whom;
5. one lemma per conjunct, `Inductive`, `Invariance`, and the theorems.

`BrowserRunsProofs` proves `TypeOK`, `LockReleased` and `TakeoverHolds` of
`BrowserRuns` for every number of calls in flight, runs, tabs, calls and
restarts. Assumed: the bounds are numbers and `None` is no run. `LockReleased`
is not inductive, for two reasons. After a restart a call could make the tab's
record anew from a file that another call is about to make active: `Known`
excludes it, since a call in flight has loaded its run, so the tab has a record,
and nothing but a restart, which ends all calls, takes a record away. And a
settled takeover could be written over by a call that holds an older copy:
`SettledKnown` says that no call in flight does, except a second takeover, of
which `TakeoverKnown` says that it writes only after it released the lock. The
steps fall into those that load a run (`LoadKeeps`), those that leave the
records alone (`QuietKeeps`), and `Resume`, `Start`, `Release` and `Restart` by
themselves; `OnlyActAdmits` then says that an act goes to the page only through
`assertCanAct`. What is not proved, because it is not so: that a takeover
survives a restart that finds active in its file.

`SprintJobsProofs` proves all safety properties of `SprintJobs` for every number
of processes, tasks and entities and every bound. Assumed: the bounds are
numbers, `Needs` maps tasks to planned tasks, planned tasks come before
discovered ones, `None` is no process and no task. `IInv` says for each file
what those at work still know of it:

- `LeaseKnown`: who is behind the lease is named in its directory, who made the
  directory is alone with it, and who is about to displace a holder has no
  holder to fear. `LeaseExcludes` alone says nothing of the steps of `acquireLease`
  before the lease is held, from which two ticks could come in.
- `OneTick` and `DoneKnown`, `CountKnown`, `ActKnown`, `DepsKnown`: until two
  ticks meet, the one at work has a task that is not done, has an attempt left,
  has claimed what it will do and found its dependencies done.
- `LinkKnown`: the plan that is worked on is linked, unless a crash cut
  `materializePlan` short; otherwise a task would have no dependencies to wait for.

Every step of a tick has one of six shapes (`Plain`, `Picks`, `Begins`,
`Claims`, `Acts`, `Writes`), the steps of a person go on beside it (`Beside`,
`SameWork`); the conjuncts are proved per shape, not per action.

`DurableSpecsProofs` proves that `DurableSpecs` implements `ConfirmedWork`, and
`StartedAfterDeps` and `ActiveHasSeeds`, for every number of drafts, versions,
cases, facts, batches and processes and every graph. Assumed: the templates of
seeds and of a case are sequences without repetition, the case's is not empty,
dependencies are within a case, `MaxVersion` is positive, `None` is no
identity. What a call read before is not the rows any more when it writes;
`CallerKnown` and `WorkerKnown` say what the rows still owe to it: the hash in
hand was named and, where work is bound to it, approved; a batch in hand is
nobody else's (`Apart`) and has what was saved of it and nothing of what is
left; an item in hand could be opened when it was picked, and `completed` only
grows. The refinement then goes action by action: `Propose`, `Approve` and
`Revise` name a hash, `SaveApproved`, `CommitRevision` and `CommitArchive` ratify
it, `SaveItem` binds an absent item, and all else stutters.

`BrowserRunsProofs` above and `NodeLinkProofs` are about who has the browser.
The latter proves `PendingReachable` and `TakeoverAgrees` for every number of
nodes, calls, connections and breaks. Assumed: the bounds are numbers and
`None` is no identity. `TakeoverAgrees` is far from inductive: it speaks of the moments
between calls, and `TakingKnown` says what flag and browser are at each
stage of the call under way (sent, begun, done, answered and not yet heard),
`QueuesKnown` that a message is in one queue, once, at the stage that goes with
it, `TakesKnown` that a call nobody waits for takes nothing any more.

`ToolCallsProofs` proves `TabsAccounted` and the five action properties for
every number of calls in flight, tabs, entities, restarts and moves of a page.
Assumed: a host is a chat or a job, the bounds are numbers, `None` is nothing a
tab can show and no identity. The action properties are about the click; `CallHolds` carries to
it, over the awaits between, what the call learned at its first look: the page
is as it was seen or gone, somebody said yes to its control, in a job the
claim is its own, the checkpoint is its own. `TabsKnown` and `SideTidy` say
whose each open tab is. `SideTidy` at `drop` needs the side tab to be the one
that failed to open, otherwise another call's tab would be forgotten.

`OperatorChatProofs` proves `HeldTools`, `InOrder` and `AssemblyHasRunner` for
every number of tasks, every set of plans and every bound. Assumed: plans are
sets of roles, the bounds are numbers, and a prompt fits an empty inbox.
`HeldTools` speaks of tools and follows from `Held`, which speaks of
constraints: "plan-mode", "coach" and "awaiting-coach" are in force when they
should be, the last unless the task that will set it stands before it ("leave").
`InOrder` follows from `Backed`: whatever says that there is an artifact or a
file (a ticked step, an order in the inbox, the computer's tools, a task about
to accept or copied) has it. `AssemblyHasRunner` is about assemblies none of whose
awaits threw (`plan.asm` is not "lost"). Most steps touch none of this (`Calm`); a step of
the assembly keeps the plan it belongs to (`PlanKeeps`, `RunnerKeeps`).

`CoderRunsProofs` proves `RunIsBounded`, `FailuresStop` and `ExtendedSpoke` for
all tasks, families, caps, slices, waits and limits. Assumed: tasks have a
family, times are positive, limits are
numbers, at least one failure stops, `None` is no value. `ClockKnown` bounds
the deadline a worker runs under and counts what is left from where a question
was asked, `KillKnown` the grace of one that is being killed, `StreakKnown`
says that failures that count have stopped the stream, `LongSlices` that a slice
as long as the cap is the first. A call once admitted
need not be allowed any more when it runs: an unattended change to "compose"
is granted and asks for "other" from then on; `LetThrough` is what remains of
the gate.

All of these were checked by TLC, on the instances of the runs, before they
were proved. What the attempts changed in the modules: `SaveItem`'s choice of
the next step is an IF, because its CASE had guards that overlap;
`LimitsAreNatural` and `BoundsAreNaturals` say that a failure stops at least
once and that a prompt fits; `None` is excluded where it was used as a value
apart (`NoneIsNoProgress`, `NoneIsNothing` of `ToolCalls`); `TypeOK` of
`OperatorChat` types the tasks, the prompts and the model's run.

Only model-checked: the liveness properties `ReadyIsServed`, `AttemptsEnd`,
`IngestedIsWhole`, `WorkEnds`, `CallsSettle` and `CallsEnd` (fairness and
ENABLED are out of the prover's reach), and the violated statements of the
documents, which no theorem can state.

## 6. Not modelled

Whole components: durable effects and grants (nothing calls them but tests;
usage is counted and compared with no limit); the resource coordinator; the
attempt budget (only tests use it); the plan interpreter; the optimizer, the
suite and the command lines (sequential); accounts and the chat's sockets. Of these last: closing an older chat socket
silences the newer one of the same account (`web/server.ts` 243), and a second
`start_screencast` before the first is up leaves a client behind
(`node-agent/client.ts` 210).

Of the subagents: models, prompts, usage and the live view.

Of the chat: the pins of models, a local session that is resumed
(`session_start`), and a scout started from a parent session, which the hosted
chat never turns on.

Of modelled components: what needs a real page (perception, gestures,
settling), the launch of Chromium (two first uses both launch or attach one,
`browser-worker.ts` 199), a person's remote input, prompts and formatting,
argument parsing, SQL and row mapping, offline measurement; the scan of several
jobs (a claim that throws ends it, `dispatcher.ts` 276); pacing, resources and
budgets of the prototype's jobs, and the states of an inbox item, which an
answer ignores. The reasons for each are in `PROJECT.json`.
