# Verification of the Arhugula harness

TLA+ modules, TLC configurations and TLAPS proofs about the harness in this
repository: a Python program that runs *workflows* of steps (model calls, tool
calls, child agents) so that a run survives crashes, pauses and operator
decisions without repeating an effect, losing an output or reporting a success
that is none. The concerns below are that durability core's; routing tables, prompt
shaping, adapters and schemas are listed and left aside.

Contents: 1 inventory, 2 modules and how they correspond to the code, 3 runs,
4 fairness, 5 proofs, 6 what is only model-checked, 7 findings, 8 what is not
modelled, 9 plan.

## 1. Inventory

Packages: `harness-core` (identities), `harness-is` (state: ledger, checkpoints,
memory), `harness-as` (autonomy: sandbox, gates, secrets), `harness-cp` (control
plane: workflow driver, pause protocol, validators), `harness-od` (telemetry),
`harness-cxa` (conversions), `harness-runtime` (everything bound together: `api`,
CLI, bootstrap, `lifecycle/*`).

How they meet: `api.run` / `api.resume` bootstrap a `HarnessContext` and call
`execute_workflow` on a thread. The driver asks a *strategy* (linear or one of
the fan-outs) to run the steps; each step goes through a dispatcher (model, tool,
child). A **human gate** may stand around a dispatch, and ask an operator or a webhook before
it lets it through. The tool dispatcher passes the **effect fence**, the model dispatcher
a chain of providers with **breakers** that all dispatches of the process share. The
driver writes the
**engine output store** (fsync-ed, one journal per run and per branch) and then the
**state ledger** (one hash-chained file for the host, not fsync-ed). A pause leaves
a snapshot or an engine pause record; the next drive of the same run id starts
from these files only.

| component | state | operations | what is hard | what makes it correct |
|---|---|---|---|---|
| effect fence | claim, re-fire latch and captured output per key (files) | reserve, consume re-fire, clear, capture, read | concurrent dispatchers, unsynced directory entries, retries after a timeout, late requests, operator answers | an effect runs at most once; a returned output is real |
| state ledger | one file, one lock per process | append, drain of buffers, verify | two processes, timestamps before the lock, torn and cut lines, power loss | a chain that verifies holds each key once, in time order; what was accepted is there |
| linear driver | ledger, journal, snapshots, pause records, flags | drive, resume, replay, dispatch, record, commit, pause, drain | crash between record and commit, overlapping drives, old snapshots, five engine classes | outputs before commits, no skipped step, whole final state, exclusive leases |
| fan-out driver | branch records, dispatch markers, cardinality, buffered entries, snapshot of dispositions | gates, mark, dispatch, barrier, deadline, settle, pause, drain, re-drive | threads that outlive the deadline, torn records, failing writes, partial resumes, three policies | no guarded effect twice, recorded outcomes are final, the drive returns |
| engine output store | journals and markers | record, read last valid, heal a torn tail | torn tails, absent versus unreadable | see the two drivers |
| engine pause substrates | journal, WAL segments, reconciler revisions | pause, attempt resume, claim | claims by racing resumes, torn first record | one drive per revision |
| pause and resume protocol | snapshots, audit entries | capture, attempt resume | resumed twice, material diff | a resume continues where the snapshot says |
| orchestrator-workers, hierarchical | as fan-out, plus the orchestrator's and the synthesis' records and markers | plan, fan out, join, synthesise | one step in front of the barrier and one behind it, each with its own crash points | workers act on one plan, a run reports one answer |
| evaluator-optimizer, handoff chain | position in the loop, buffered entries, snapshot | generate/evaluate, hand off, drain, capture, resume | counters and outputs rebuilt on resume, a crash between capture and drain | bounded over all resumes, a whole result |
| retry, breaker, fallback | breaker per candidate, attempt counters | choose chain, call, trip, next candidate | shared by concurrent dispatches, state read before an await, a chain that lists a candidate twice | a budget per candidate, no call behind an open breaker, no candidate forgotten |
| HITL gate composer | resume context, audit entries, pause flag | ask, escalate, deliver, decide, pause | a coroutine outlives its driver, retries around and inside the gate | no unaudited execution, no payload nobody agreed to, a rejection is final |
| validator framework | retry staircase | validate, retry, escalate | retries of a step that ran | bounded staircase |
| bootstrap | stages, contexts | materialise, roll back | a stage that fails half-way | everything built is torn down |
| drain, shutdown, pidfile | drained flag, pidfile | drain, stop, lock | a signal during a step | reports only committed steps |
| sub-agent dispatch | child run ids | run child, re-drive | child paused inside a parent's fan-out | deterministic child identity |
| memory substrate | records, operation ledger, derived index with stale marks, per process the starts it captured | boot, compose, retrieve, inject, capture, promote, redact | processes that share the files without a lock, a scan that races a write, a crash between ledger and record, re-drives | nothing hidden is shown, what is called or stored is in the ledger, a re-drive goes on |
| checkpoints, rollback | shadow git, deploy events | checkpoint, roll back | crash in between | all or nothing |
| telemetry pipeline, join | ring buffer, tail-keep buffer, span store | push, flush, dedup | overflow, reordering | kept or counted as dropped |
| cost and audit, sandbox composition, routing, secrets, schemas, CLI, model and memory adapters, MCP hosts | tables, pure functions, I/O | | mostly none | |

`PROJECT.json` lists every component with its sources and status, and the hazards
of the code with the line at which each bites.

## 2. Modules

Each component has a module `X.tla` (state, one action per operation, properties), an
`MCX.tla` with what only TLC needs (symmetry, reduced initial states, values of
function constants) and an `X_proofs.tla` (`FanOut_proofs` holds Orchestrator's as well,
whose invariants rest on FanOut's). Operators whose comment begins with
*Faulty variant* are not part of the next-state relation: each is a plausible bug
that the property it is listed with must reject. Most modules are connected by what they
assume of each other rather than by composition: a product of two of them has
more states than can be explored, and each meets its neighbours in a narrow interface
(a ledger is a sequence of keys to the driver; a fence is a four-valued claim to
`FanOut`). Where the code itself puts one strategy around another's barrier, the module
does so too: Orchestrator EXTENDS FanOut and steps it.

**EffectFence** models `lifecycle/effect_fence.py`, steps 6b to 10b of
`runtime_tool_dispatcher.py`, and the retry loop of `retry_breaker_tool.py`.
`claims`, `refires` and `outputs` are the visible files, `onDisk` what a power loss
would leave; every file operation and every fsync of a directory is an action. A
dispatcher (`Procs`) is a process, a resume, or a dispatch that outlived its caller
(`sync_dispatcher_facade.py` gives up on a timeout and does not cancel). `effects`
counts executions in the outside world, `orphans` the requests of dispatchers that are
gone. The operator resolves an ambiguous pause through `Resolve`; a directive is
bound to a key. For the keys in `Honest` the operator answers RE_FIRE only for a held
claim whose effect has not run and for which nothing is under way (after a restart the
decision is made again); for the others any answer at any time is possible.

**EffectOnce** is what the fence promises, with neither files nor attempts: `Run` once,
or once more where the ambiguity was reported (`Report`) and the operator is mistaken;
`Answer` only of what ran. EffectFence implements it (`ImplementsOnce`) under the mapping
`ran <- effects`, `unknown <- paused` and `told <-` the keys of the dispatches that ended
with `ok` or `suppressed`. A dispatch that ends otherwise tells its caller nothing.

**StateLedger** models `state_ledger_write.py`, `chain_verification.py`, the
bootstrap check, and the two kinds of writers (single appends, the drain of a
fan-out with one stamp). A hash is the chain it covers, so that equal hashes mean
equal histories. `Compose` takes the time stamp, `Acquire` the lock of the process,
`ReadPrior` reads the file and rejects duplicates and time going back, `WriteLine`,
`CutShort` and `PowerLoss` say what reaches the file.

**EventLog** is what the ledger promises to those who append to it: a log of distinct
keys in the order of time. `Record` extends it and tells the writer at once,
`Acknowledge` answers for a key it has, `Spoil` makes it unreadable for good, and only
`Lose` takes entries back. StateLedger implements it for the writers of one process
(`ImplementsLog`) under the mapping `log <- Entries(file)`, the keys and stamps of the
lines that parse, `readable <- Readable(file)` and `told <- landed`: the write, or the cut,
is the step that counts, and the stamp, the lock and the read before it are stutters.

**LinearDriver** models `execute_workflow` and the linear part of
`_execute_workflow_body` with the engine-layer pause substrates, the workflow pause
protocol, the output journal and the inter-step channel. `at` is the loop variable,
`acc` the accumulated state, `store[i]` the execution of step `i` whose output the
journal last recorded. Actions follow the loop: `Position`, `Recover`, `Rebuild`,
`DrainAtEntry`, `EnginePause`, `ProtocolPause`, `Dispatch`, `RecordStep`, `Commit`,
each with its failing twin. Simplifications: the order in which a WAL segment
is rehydrated and the resume attempted is merged into one step; snapshots are not
corrupted and their anchor is the constant the code's context reader returns; spans
and audit entries of pauses are left out.

**WorkflowRun** is what a linear run promises to whoever started it, however often and
by whom it is driven: three variables (`committed`, how many steps are in the ledger;
`performed`, the steps that were executed; `success`, whether somebody holds the result)
and no drivers, crashes or pauses. LinearDriver implements it (`ImplementsRun`) under
the mapping `committed <- Len(ledger)`, `performed <- {i : runs[i] > 0}` and `success <-`
some driver's last result is SUCCESS. It follows that a step is performed only behind
committed ones, so that at any time at most one step of a run is in doubt. The promise
needs that no power loss takes ledger entries back, and says so.

**FanOut** models `_execute_parallelization` with the crash gates of
`_execute_workflow_body`, `_determine_fanout_resume`, the barrier and its deadline,
branch records, dispatch markers, and the pause snapshot of a fan-out. A step has one
of three kinds, which is all the code's tables tell apart: *safe* to run twice
(inference, declarative), *fenced* at its own sink (tools, managed agents), *opaque* (a
child without replay). `place[b]` is where a branch of the current drive stands,
`fate[b]` the code's `terminal_dispositions` with `collected` merged in, `record[b]` and
`marker[b]` the files of the store, `ends[b]` the ledger's terminal entry,
`zombies[b]` a thread that the deadline abandoned. What the loop thread does without an
`await` is one action. The fence is reduced to one state per branch
(none, claimed, re-fired, captured), the operator to the honest one of EffectFence;
answers that silence each other (one ABORT fails the run) are kept. Drives of one run
do not overlap here (LinearDriver and EffectFence cover overlap); the ledger loses
nothing to a power loss (StateLedger and LinearDriver do that).

**FanOutRun** is what a fan-out promises to whoever started it, however often it is driven:
which effects ran (`once` are those that must not run twice: fenced ones, and opaque ones as
long as the markers can be relied on), what the store knows of the branches (`kept`), the
ledger's `entries`, whether a recorded failure ends the run, and the `outcome` somebody
holds. There are no threads, barriers or crashes in it. FanOut implements it
(`ImplementsFanOutRun`) under the mapping `ran <- runs`, `kept <- Readable`, `entries <- ends`,
`sound <-` there is a store and no write of it has failed, `failure <-` an error is recorded
under CASCADE_CANCEL. A crash is a stutter: it takes nothing of this back.

**Orchestrator** models `_execute_orchestrator_workers`: FanOut's branches are its
workers, with all of their markers, records, threads and verdicts. It adds the
orchestrator step in front of the barrier (its marker, its fence, its record, the
snapshot that holds it), the synthesis step behind the drain, and the way a drive starts
and ends. An output is known by the number of the dispatch that computed it, so that
`plans` and `answers` tell whether two groups of workers, or two callers, have acted on
different outputs of the same step.

**Sequential** models the two strategies with a single owner, `_execute_evaluator_optimizer`
and `_execute_decentralized_handoff`. Dispatches are numbered over all drives: entry `e` of
the loop is a generate when it is even. A drive over `n` recovered entries rebuilds
counters, channel and handoffs from them (`Begin`), dispatches, and drains its
buffer when it ends. The loop drains before it captures a snapshot, the handoff captures
first; both orders are in the model as they are in the code.

**ProviderDispatch** models the retry loop and the fallback chain of an inference
(`retry_breaker_fallback.py`), the breakers (`retry_breaker.py`) and how the layers that
choose a model build the chain. All dispatches are coroutines of one event loop: an
action is what happens between two awaits, and the breakers can change at every
await. Only the walk to the next candidate is a step for each candidate (`Choose`, with
`pc` `"choosing"`): it need not end. It awaits nothing, so that no other coroutine moves
meanwhile (`LoopFree`). A dispatch knows its candidate and not its place: `Position` is
the first place of the candidate, as `ordered.index` finds it, and `Advance` goes on behind
it. The configured chain is any sequence that is not empty, since nothing in the code
asks for more. In one that lists a candidate twice, `Circle` is what is between the two
places of the first candidate that comes again: a walk that gets to the end of it
goes round. `tried` is kept for the properties, and counts one attempt too many at most.
`grace[c]` remembers who was trying `c` when its breaker opened. No action makes
a breaker half open, since nothing in the code calls `attempt_half_open`.

**HitlGate** models the gate composer around a linear run with the rules that decide
whether a gate is required (`gate_level_rule.py`, the matrix of personas and
engines), the webhook, the resume context (`holder`), the pause flag, the facade's
timeout, and a sequence of drives. `drv` is the driver's thread, `pc` the coroutine of
its current step, which goes on when the driver has stopped waiting. The gate is inside the
retries of an inference, which pass it again, and outside those of a tool. `Reused` says
whether the drives are the resumes of one run, each in a new context, or the
successive runs of a daemon in one context. `granted` counts audit entries in
favour of a step, `execs` how often the step was handed to the dispatcher inside.

**GatedRun** is what the gate promises about a run and its resumes: a step that owes an audit
entry is run on the `credit` of decisions recorded in its favour, with its own payload or
one edited for it, and behind all steps in front of it; a drive whose step was rejected
runs nothing more, and what a drive has ended with is final. HitlGate implements it
(`ImplementsGatedRun`) under the mapping `decided <- granted`, `performed <- execs`,
`running <-` the step whose dispatcher inside is at work, and `outcome <- drv` where the drive is
over. Gate, question, webhook, delay and resume are stutters; a timeout is `Abandon`,
which leaves the step running.

**Memory** models the memory root that processes share. A process does one job at a time
(`job`): it boots, dispatches an inference step, promotes a record or hides one. `pc` goes
through the accesses to files that the job makes; a boot and a dispatch read the index
(`ReadIndex`), which is scanned anew (`Scan`, record by record) and appended (`Rebuilt`)
when it is stale. A dispatch then reads the eligible records (`Read`), records retrieval,
injection and, the first time in this process, the start of the step, calls the provider
and captures the turn. `Look` and `Log` are the two halves of `append_memory_operation`,
whose lock is one of threads. A redaction writes the ledger first and the record second, a
promotion the other way round, and the model keeps both orders. `during[p]` remembers
what was active at some moment of the retrieval of `p`.

## 3. Runs

Every passing run explores its whole state space. All of them together fire every
action and disjunct of the next-state relations.

| run | instance | shows |
|---|---|---|
| `fence_races` | 2 dispatchers, 3 keys (k3 not fenced), 3 dispatches, 2 attempts; the operator is honest about k1 only | `AtMostOnce` for the honest key; the fence implements `EffectOnce` (a second execution only behind a reported ambiguity, a third never, however careless the operator); `FiredStaysClaimed` |
| `ledger_threads` | 2 writers in one process, 4 batches, torn lines | `AlwaysVerifies`, `AppendReturns`; the ledger implements `EventLog`, so that what landed is in it |
| `ledger_processes` | 2 processes, 3 batches, torn and cut lines | `VerifiedMeansSerial`: the bootstrap check detects every lost race |
| `driver_threads` | 2 overlapping drives, 2 steps, 5 engine classes, 2 faults | ledger, journal, channel, lease and result agree under overlap; all drives together implement `WorkflowRun` |
| `driver_single` | 1 drive at a time, 3 steps, 3 faults, power loss | the strongest statements (`FinalStateIsLatest`, `CommittedNotRerun`) and `Completes` |
| `fanout_crash` | 2 branches, 3 kinds, 3 policies, 3 timeout dispositions, 3 drives, 2 faults | `EffectAtMostOnce`, `StoreCoversLedger`, `SuccessIsWhole`, `DriveReturns`; all drives together implement `FanOutRun`, so that a failure that ends the run sticks |
| `orchestrator` | 2 workers, 3 kinds of orchestrator, with and without synthesis, 3 drives, 2 faults, 4 dispatches of the orchestrator | `OrchestratorAtMostOnce`; all workers of a run act on one plan (`OnePlan`); every caller gets the same answer (`OneAnswer`); `OrchestratedSuccess` |
| `sequential_resume` | both strategies, 3 stages or 2 iterations, 3 drives, 3 faults, 3 policies | `SnapshotIsLedgered`, `CapHolds` over all resumes, `SuccessIsWhole` |
| `dispatch_budget` | 3 dispatches, the chain a, b, b and those that a bound model makes of it, a model outside it, 2 attempts, threshold 2 | `BudgetHolds`: who is not in the circle of a chain is tried 2 times at most; `ExhaustedTriedAll`, `OpenStopsCalls` |
| `hitl_gate` | 2 steps of any kind, 72 escalating setups and 7 others, 2 attempts, 3 drives | `PayloadIsAgreed`, `RejectedRunsNothing`, `DriveReturns`; a run and its resumes implement `GatedRun`: no execution without a recorded decision |
| `memory_shared` | 2 processes, 2 records (one waits for a review, one is promoted), 1 step by 2 routes, 3 jobs of which 2 dispatch, 1 crash | `PacketWasActive` however stale the index is; `RecordsAreLedgered` and `CallIsRecorded` wherever a process dies; `SameRouteGoesOn` |
| `hitl_daemon` | 2 runs of a daemon | refutes `PausedIsAnnounced`: a finding, section 7 |

Bounds and why they are enough:

- *EffectFence.* Three dispatches are a first dispatch, an ambiguous one, and a re-fire
  that may be overtaken by either; two attempts let a retry meet its own late request;
  two dispatchers race at every file operation; a key that is not fenced shares them.
  The theorems of section 5 cover longer histories.
- *StateLedger.* A fork needs two writers, a gap in time two clock values, a
  consequence of a torn line a later append and a restart: three or four batches.
- *LinearDriver.* Two steps have a middle and an end; three steps with one driver
  let an old snapshot lie two steps behind. `MaxRuns` caps the execution counter (a step
  run more often counts as run `MaxRuns` times).
- *FanOut.* Two branches give a failure and a sibling. Operator answers take effect in
  the drive after the one that met an ambiguous claim, which is the drive after the one that crashed:
  three drives. `MCInit` keeps one of the two orders of the kinds and puts safe branches
  with the re-dispatch disposition only; safe and opaque branches are treated alike
  under the others, and re-dispatch without a safe branch is fail-closed. Pairs of two safe
    branches, which have nothing to lose, are left out; the theorems cover them. One write of
  the store fails in a behaviour at most (`lost`).
- *Orchestrator.* The workers of its run are safe ones and fail closed: what their kinds add
  is checked by `fanout_crash` and proved. Four dispatches of the orchestrator are a first
  one, two that a crash lost and one more.
- *Sequential.* With a cap of two a snapshot can lie in each half of each iteration;
  three stages have a first, a middle and a last one; three drives let a resume be resumed.
- *ProviderDispatch.* Two dispatches open a breaker while a third awaits; the dispatches
  are symmetric. The configured chain a, b, b has a candidate in front of the circle and one in
  it, keeps both behind a third model that takes the place of the primary, and loses the
  circle when b is promoted over a, so that a is a displaced primary and the last
  candidate. Each breaker of a real chain meets the same events. Attempts are counted up to
  one too many (`Count`), which is enough to break the budget and ends the count of a
  walk in a circle. `MCProviderDispatch` also compares `Without`, which is written for the
  provers, with `SelectSeq` on all chains of up to four places.
- *HitlGate.* Two steps let an answer for one reach the other; three drives are a pause, a
  resume and a resume of the same snapshot; two attempts pass the gate twice. `Escalating`
  has each pair of kinds and placements, the other setups the rules that waive a gate.
- *Memory.* Three jobs are a dispatch, the dispatch that repeats it or races it, and a
  promotion or redaction under way at the same time; two records give a scan and a retrieval
  a moment between two reads; with one crash a job dies between any two accesses.

`CHECK_DEADLOCK FALSE` is set where a behaviour ends when its bound is used up: in all
runs but those of LinearDriver, which check deadlock.

Every property of a passing run has a mutant in `PROJECT.json`: a definition of the
model replaced by a faulty variant (a lock not taken, a record left to the drain, a
thread started before its siblings are marked, a gate outside the retries) under which
TLC finds it violated.

## 4. Fairness

- `AppendReturns`: weak fairness of `Append_(w)`, the writer that composed a batch is
  scheduled. Nothing is assumed of crashes, and the lock itself is not fair: there are
  finitely many batches.
- `Completes`: drivers' threads are scheduled; somebody drives an unfinished run again
  on a context whose flags are clear (`api.run` and `api.resume` build a new one), and
  restarts a drained host. The claim is honest about its exception: `NeedsOperator`, a
  torn first pause record or a claimed revision of a drive that did not finish.
- `DriveReturns`: while the event loop, a thread that has not passed its fence or the
    deadline timer has something to do, one of them does it. No fairness for what a
  dispatch does after its fence: it may hang for ever, which is the point.
- `DriveReturns` of HitlGate: the driver's thread runs and the facade's timer fires. No
  operator, webhook or provider is assumed ever to answer.

## 5. Proofs

TLAPS checks the following for every value of the constants (any number of
dispatchers, keys, writers, steps, branches, faults and drives), from the named
assumptions on the constants only. TLC checked each inductive invariant first.

- `EffectFence_proofs`: `TypeCorrect`; `ResultsAreReal`; `AtMostOnceThm` and
  `FiredStaysClaimedThm`. At-most-once is not inductive. The argument counts *permits*:
  places from which the effect can still run. `PermitInv`: at most one permit for a
  key, only before the effect fired, and covered by a durable claim. `ArmedInv`: a
  RE_FIRE that was not consumed belongs to a quiet key whose claim is held.
  `ClearInv`: whoever consumed it is alone until the claim is cleared. `AtMostTwiceThm`
  holds without an honest operator: `LatchInv`: the latch a re-fire spends is never
  taken back, and its winner alone clears the claim. `TwiceInv` counts runs and permits
  together: two of them in all, one while no claim has been cleared. `OnceThm` is the
  refinement of EffectOnce, with no assumption about the operator: by `TwiceInv` an effect
  that runs again has a latch on disk, and by `ReportInv` no latch is taken for a
  key whose ambiguity was not reported.
- `StateLedger_proofs`: `TypeCorrect`; `DetectionThm` (any number of processes: a chain
  that verifies is serial, because each writer read its prior when it wrote its hash and
  the hash stands for the whole prefix); `OneProcessThm` (assuming `OneProcess`: the
  lock makes every readable file verify); `LandedThm` from `LandedInv`, assuming `OneProcess`
  and that no write is cut just before its newline (`"line" \notin Cuts`), without which it is
  false (section 7). `LogThm` is the refinement of EventLog under the same two
  assumptions: `LogInv` (a torn line is the last one, since nobody writes behind it) makes
  the mapping one of sequences, `DraftFits` says that what was drafted under the lock still
  fits when it is written (by `DetectInv`: the draft extends the prefix its hash names, and
  by `SoloInv` that is the whole file), and each write is then one `Record`.
- `LinearDriver_proofs`: `PrefixInv` (ledger, snapshots and positions of drives stay
  behind what was executed and recorded) gives `TypeCorrect` and `StoreThm`, which is
  what the docstring of `_record_durable_step_output` claims; `LoopInv` gives
  `NeverSkewedThm`, `SuccessThm` and `FinalStateThm`; `ChannelInv` gives `UpstreamThm`;
  `LeaseInv` gives `LeaseThm`; `OrderInv` gives `LedgerInOrderThm` and `TerminalThm`.
  `RunThm` is the refinement: with `OrderInv`, `LoopInv` and `PrefixInv` every step of
  LinearDriver is one of WorkflowRun or a stutter (`RunStep`), assuming `~PowerLoss`.
  Two more theorems assume `OneDriver`, as the run `driver_single` does: `LatestThm` from
  `LatestInv` (what a drive has gathered is what the store last recorded), and the action
  property `NotRerunThm` from `PlaceInv` (a drive stands where the ledger ends, as long as no power
  loss tore a hole in it).
- `FanOut_proofs`: `TypeCorrect`; `StoreThm` from `RecordInv` (whatever the ledger, a
  buffer, a snapshot or `fate` calls ended is in the store); `EffectOnceThm` from four
  invariants: `FenceInv` (a claim that is none or re-armed belongs to an effect that has
  not run), `PlaceInv`, `MarkInv` (every planned branch has its marker before any thread
  starts, and the cardinality before any marker) and `OpaqueInv` (an opaque branch that
  is about to be dispatched has not run); `SuccessThm` from `EffectInv` (an output,
  wherever it is kept, means the effect ran) and `WholeInv`; `FailureThm` from
  `CascadeInv` (once an error is recorded each later stage of a drive knows it).
  `FanOutRunThm` is the refinement of FanOutRun, with no assumption. It rests on these
  invariants and two more: `DrivingInv` (nobody holds a result while a drive is under way,
  and a drive that pauses has a snapshot) and `FinalInv` (under CASCADE_CANCEL a branch
  whose error is recorded is at its end, so that nothing records over it).
  `PromiseNext` maps each action: most are stutters (`SeesNothing`).
- `Sequential_proofs`: `LoopInv` (what a drive keeps is what its first `next` entries
  give, whichever drives made them) gives `TypeCorrect`, `SuccessThm` and `CapThm`;
  `DrainInv` (what the completed entries of a drive have to write is written or
  buffered) gives `SnapshotThm`.
- `Memory_proofs`: `TypeInv` says for each job where a process can be and what it holds
  there, and gives `TypeCorrect`. `PacketInv` (what a retrieval keeps was active since it
  began) gives `PacketThm`; `RecordInv` (whoever is about to write a record has its
  operation in the ledger) gives `LedgeredThm`; `CallInv` and `RouteInv` relate the place
  of a dispatch to what the ledger and the store hold, and give `CallThm` and `RouteThm`.
- `HitlGate_proofs`: `TypeInv` (where a driver and its coroutine can be together) gives
  `TypeCorrect` and, with the property itself as the invariant, `RejectThm`;
  `PayloadInv` (an answer in the holder waits at the step it was given for) gives
  `PayloadThm`. `ExecutionIsAudited` counts: `AuditInv` adds to the executions of a step
  the attempts that are still *owed* (a finite set whose cardinality a pass of the gate
  raises by at most `MaxAttempts - 1`, and each further attempt of a tool lowers by one)
  and gives `AuditThm`. `GatedRunThm` is the refinement of GatedRun, for resumes and for
  a daemon's shared context alike. To GatedRun an action of HitlGate is one of four
  (`Seen`): it enters the step, leaves it, gives up waiting, or rejects. Entering is a `Run` by
  `ReachedInv` (all steps in front of a drive and of the last snapshot have run) and by the
  theorems on audit, payload and rejection. `PauseThm` assumes `~Reused`: with a context of its own a
  run satisfies what `hitl_daemon` refutes, so that the shared context is the cause.
- `FanOut_proofs`, for Orchestrator: `OnceInv` (whoever may still run the effect is alone,
  and nobody has) gives `OrchestratorOnceThm`. `PlanInv` (what dispatches workers, or lets a
  snapshot carry an output, has the recorded one) gives `OnePlanThm`; a pause that is
  older than the record can dispatch a tool again over it, so the invariant also says
  that its fence then returns the same captured output. `AnswerInv` gives
  `OneAnswerThm`. FanOut's steps appear there only through what they leave alone.
  `OrchestratedSuccessThm` needs more of them: `WorkersInv` carries FanOut's invariants
  through the interleaved steps of the orchestrator, and `SuccessInv` says where the
  records of plan and synthesis are when a drive is past them.
- `ProviderDispatch_proofs`, for every configured chain: `EffectiveWhole` says that the
  effective chain keeps every configured candidate, whatever the layers bind, adds none but a
  bound one, and lists one twice only where the configured chain does. From it,
  `DispatchInv`: while a dispatch walks its chain, the places up to that of its candidate
  hold different candidates (`Reached`); those before it were tried or may not be, and
  outside the circle nothing else was tried. When the walk goes back, everything it
  leaves behind is in the circle. This gives `TypeCorrect` (with `BreakerInv`: a closed
  breaker is below its threshold), `BudgetThm`, `ExhaustedThm` (what a step does to other
  dispatches is to open breakers at most, so that what they may not try only grows; a
  chain that ends has no circle) and, with the property itself as the invariant,
  `OpenThm`; `CostThm` is not repeated in a run. `UnrepeatedThm` draws the
  consequence for the configured chain: if it lists no candidate twice, there is no circle
  in any chain, and the budget holds for all candidates without exception. Its assumption is
  an obligation of whoever writes the routing manifest; no other statement of the
  module uses it. `CircleThm` is what happens otherwise: with `Alone` (at most one dispatch
  is on its way to the next await), a dispatch that may try nothing of a chain with a
  candidate listed twice goes on looking, and everybody else waits. It was checked once on
  the instance of `dispatch_budget` with two dispatches.

## 6. Only model-checked

Every safety property that a passing run checks is stated by a theorem of section 5.
(`AtMostTwice`, `ResultMeansExecuted`, `LandedIsThere`, `FailureSticks`, `ExecutionIsAudited`,
`LedgerInOrder`, `FinalStateIsWhole`, `CostOfResult` and `CirclingLasts` are proved and are
not repeated in a run; the first five follow from the refinements that are.) The liveness
properties (`AppendReturns`, `Completes`, both `DriveReturns`) stay with TLC: the prover
does not reason about ENABLED, and so not about fairness. `RunThm`, `LogThm`, `OnceThm`, `FanOutRunThm` and `GatedRunThm` are refinements
of the safety part, and the abstract specifications state no fairness. Nothing here is proved by induction over data, and no module uses RECURSIVE
operators: a search in a chain is a choice of its first place, which exists because
the finite sets of numbers are well-founded under inclusion.

## 7. Findings

A run that TLC refutes, with a counterexample of a few steps.

1. `hitl_daemon`: a gate whose webhook was delivered sets `pause_requested_flag`
   (`hitl_gate_composer.py:1019`) and nothing clears it. A daemon runs every workflow in one
   context: its next run pauses at its first step as if an operator had asked for it.

Seen while modelling and kept as a note rather than a run (where the line is in a modelled
component the model does what the code does, and the properties are stated around it):

- The time stamp of an append is taken before the lock (`state_ledger_write.py:223`): of two
  concurrent appends of one process the one stamped first and written second is
  rejected as going back in time, while a test (`test_state_ledger_write.py:168`) says that
  every write lands. The drains of a child and its parent (`workflow_driver.py:1883`) meet
  the same way.
- After a write cut just before its newline (`state_ledger_write.py:245`) the next append
  runs on in the same line and reports success, but neither entry is readable: with the cut
  `"line"` in its `Cuts`, the instance of `ledger_threads` refutes `LandedIsThere`.
  `engine_output_store._append_path` heals this case, the ledger does not.
- With two dispatchers of one key, a captured output can be lost (`effect_fence.py:385`).
- A resume from a snapshot does not refill the inter-step channel
  (`workflow_driver.py:3758`): its first step does not see the output that an
  uninterrupted run would give it.
- An `OSError` while the outcome of a branch is recorded leaves a branch that ran out of the
  pause snapshot (`workflow_driver.py:7325`); the resume dispatches it again.
- The pause snapshot of a fan-out is captured before the buffers are drained
  (`workflow_driver.py:7929`, and 10747 for the handoff); a crash in between leaves a snapshot
  whose branches never reach the ledger, although the comment at 9300 calls them durable.
- A snapshot that holds the orchestrator can be resumed twice: workers are dispatched again,
  an opaque one for the second time (9194 says that "here NOTHING ran").
- `on_provider_failure` looks a candidate up by its first place
  (`cross_family_fallback_chain.py:124`), and neither `FallbackChain` nor the manifest or its
  stage (`fallback_chain.py:121`) refuses a chain that lists one twice. Over A, B, A a
  dispatch goes from B to the first A again. If both lack what the step needs, it is never
  exhausted, although `retry_breaker_fallback.py:496` says "All candidates short -> the
  chain exhausts"; the same holds with both breakers open. The walk awaits nothing, so
  that the event loop runs no other dispatch: `CircleThm` proves this of every such
  chain (`CirclingLasts`). If they can be tried, they are tried more often than the retry
  budget allows, until their breakers open. What the chain lists behind the circle is never
  reached. The operator's obligation, until the code checks it: configure no chain that
  lists a candidate twice. `UnrepeatedThm` is what that gives.
- Nothing calls `attempt_half_open` (`retry_breaker.py:188`): a breaker that has opened stays
  open for the life of the process.
- `effective_palette.py:64` speaks of a structural rejection; an answer that was given with
  the resume is not compared with the palette, so that an APPROVE dispatches at DENY.
- The entry rebuilt for a recovered branch says `completed` even if the branch had timed out
  (`workflow_driver.py:1588`).
- An index that is called fresh may disagree with the records: a write during a rebuild's
  scan (`memory_retrieval_index.py:163`), or a crash between a record and its mark
  (`memory_store.py:181`), although `docs/memory-layer-readme.md:134` lets retrieval
  rely on the marks. Retrieval reads the records again, so that nothing hidden is shown
  (`PacketWasActive`); something active may be missing.
- A promotion that is approved again overwrites a redacted record with an active one
  (`memory_promotion.py:470`).
- A promotion writes its record before its ledger entry: a crash in between leaves an active
  record that the ledger does not know. The other operations do it the other way round.
- A step that is driven again by another provider or model finds the key of its start, or
  of an equal answer, taken, and is refused (`memory_operation_ledger.py:491`).

## 8. Not modelled

- In the modelled components: spans and lifecycle events; audit entries of pauses; the
  material-diff policy (its anchor is a constant in this code); corruption of snapshots;
  the file locks of concurrent pause-record appends. In FanOut and Orchestrator: the
  guards against a changed step body, override entries, the reconciler-loop gate, children
  that resume themselves, an orchestrator that is itself a recoverable sub-agent,
  overlapping drives, threads cut before their fence. Of the
  hierarchical delegation, the recursion: one level of it is Orchestrator with at most
  three workers, but a worker that is a run of its own is one step here. In HitlGate: several placements at one step, the gates
  of fan-out branches and of the tool loop inside an inference. In ProviderDispatch: the
  tool loop itself, the half-open state that no code reaches, and the family of a candidate,
  which is taken to follow from its provider (a manifest that gives one model two families
  makes two candidates of it for `ordered.index`, and one for `_augment_primary`). In Memory:
  the memory tools that a model calls, compaction, native adapters and engine durability, denial and
  supersession, ranking and budgets, torn lines, the resolution of policies.
- Components with status `not_modelled` in `PROJECT.json`: planned ones are in section 9;
  adapters, price and routing tables, schemas, configuration and secrets have no
  protocol to check.

## 9. Plan

Done: EffectFence, StateLedger, LinearDriver, FanOut, Sequential, HitlGate, Memory,
Orchestrator and ProviderDispatch, with their proofs, and the abstract specifications
EffectOnce, EventLog, WorkflowRun, FanOutRun and GatedRun with their refinements.

Next, by importance:

1. `Hierarchical`: a worker of Orchestrator that is itself a run, with its own store,
   crash and pause, below the deadline of its parent.
2. `Telemetry`: ring buffer, tail-keep buffer and the idempotent join.
3. `Bootstrap` with its roll-back; checkpoints.
4. Abstract specifications of Sequential, ProviderDispatch and Memory.

New questions share runs with old ones where one instance answers both, so that the
set of runs stays small enough to be repeated after every change.
