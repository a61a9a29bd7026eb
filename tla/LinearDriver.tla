---------------------------- MODULE LinearDriver ----------------------------
(***************************************************************************)
(* One run of a SINGLE_THREADED_LINEAR workflow, driven again and again.   *)
(*                                                                         *)
(*   harness_cp/workflow_driver.py            execute_workflow             *)
(*   harness_cp/pause_resume_protocol.py      workflow-layer snapshots     *)
(*   lifecycle/engine_output_store.py         the fsync-ed output journal  *)
(*   lifecycle/engine_recovery_loop.py and    engine-layer pause records   *)
(*   the wal_segment and reconciler substrates                             *)
(*                                                                         *)
(* The same run id is driven more than once: a resume of a snapshot, a     *)
(* parent that re-drives its child, a thread that outlived its caller's    *)
(* timeout while the next one starts.  What a drive may rely on is what    *)
(* the earlier ones left behind: the ledger (never fsync-ed: a power loss  *)
(* takes a suffix of it), the output journal, snapshots and pause records. *)
(* One host; the drivers are its threads.                                  *)
(***************************************************************************)
EXTENDS Integers, Sequences

CONSTANTS
  Drivers,       (* threads that may drive the run                          *)
  NSteps,        (* len(steps)                                              *)
  EngineClasses, (* the engine classes to choose from                       *)
  Protocol,      (* ctx.pause_resume_protocol is bound                      *)
  Recovery,      (* ctx.engine_recovery_loop is bound                       *)
  Store,         (* ctx.engine_output_store is bound                        *)
  Channel,       (* ctx.inter_step_output_channel is bound                  *)
  PowerLoss,     (* a crash may take unsynced ledger entries with it        *)
  MaxFaults,     (* bound: crashes, failures and requests of the operator   *)
  MaxRuns        (* bound: executions of a step are counted up to this      *)

ASSUME DriverAssumption ==
  /\ NSteps \in Nat \ {0}
  /\ EngineClasses \subseteq {"pure-pattern-no-engine", "save-point-checkpoint",
         "event-sourced-replay", "reconciler-loop", "wal-segment"}
  /\ Protocol \in BOOLEAN /\ Recovery \in BOOLEAN /\ Store \in BOOLEAN
  /\ Channel \in BOOLEAN /\ PowerLoss \in BOOLEAN
  /\ MaxFaults \in Nat
  /\ MaxRuns \in Nat \ {0}

Steps == 0 .. NSteps - 1
None == -1

VARIABLES
  engine,     (* manifest_entry.engine_class                                *)
  ledger,     (* the steps whose key is in the state ledger, in file order  *)
  store,      (* per step, the execution its last output record is from     *)
  snapshots,  (* step_index of every PauseSnapshot somebody holds           *)
  pauses,     (* valid engine pause records; the last is the revision       *)
  torn,       (* the engine pause file ends in half a record                *)
  claimed,    (* revisions whose claim file is linked                       *)
  drained, pauseFlag,  (* ctx.drained_flag, ctx.pause_requested_flag        *)
  runs,       (* per step, how often it was executed                        *)
  faults,     (* faults so far                                              *)
  pc, at, snap, lease, (* of each driver: place, step, snapshot, revision   *)
  out,        (* the execution whose output it is about to commit           *)
  acc, channel,        (* accumulated and the inter-step channel            *)
  result      (* what its last drive returned                               *)

disk == <<ledger, store, snapshots, pauses, torn, claimed>>
flags == <<drained, pauseFlag>>
local == <<pc, at, snap, lease, out, acc, channel, result>>
vars == <<engine, disk, flags, runs, faults, local>>

Nothing == [i \in Steps |-> 0]
NoResult == [status |-> "none", terminal |-> None, fail |-> "none"]

Init ==
  /\ engine \in EngineClasses
  /\ ledger = <<>> /\ store = Nothing
  /\ snapshots = {} /\ pauses = 0 /\ torn = FALSE /\ claimed = {}
  /\ drained = FALSE /\ pauseFlag = FALSE
  /\ runs = Nothing /\ faults = 0
  /\ pc = [d \in Drivers |-> "idle"]
  /\ at = [d \in Drivers |-> 0]
  /\ snap = [d \in Drivers |-> None]
  /\ lease = [d \in Drivers |-> 0]
  /\ out = [d \in Drivers |-> 0]
  /\ acc = [d \in Drivers |-> Nothing]
  /\ channel = [d \in Drivers |-> Nothing]
  /\ result = [d \in Drivers |-> NoResult]

-----------------------------------------------------------------------------
(* Engine classes and the resume position.                                 *)

(* _FINAL_STATE_RECONSTRUCT_ENGINE_CLASSES: outputs are journalled, and a  *)
(* drive starts behind the prefix that is in the ledger.                   *)
Durable == engine # "pure-pattern-no-engine"

(* The classes that replay the prefix into the inter-step channel.         *)
Replays == engine \in {"event-sourced-replay", "wal-segment"}

EnginePauses == Recovery /\ engine \in {"wal-segment", "reconciler-loop"}

Committed == {ledger[j] : j \in DOMAIN ledger}

(* _determine_resume_at: the first step that is not in the ledger (the one *)
(* element of this set).                                                   *)
FirstMissing ==
  {k \in 0 .. NSteps : k \notin Committed /\ \A i \in 0 .. k - 1 : i \in Committed}

(* Faulty variant: the paused step is taken for a completed one.           *)
ResumeAtPastPause(s) ==
  IF s # None THEN {s + 1} ELSE IF Durable THEN FirstMissing ELSE {0}

(* Faulty variant: the ledger is not consulted.                            *)
ResumeAtStart(s) == IF s # None THEN {s} ELSE {0}

ResumeAt(s) ==
  IF s # None THEN {s} ELSE IF Durable THEN FirstMissing ELSE {0}

(* has_pause_record: presence, not validity.                               *)
HasPauseRecord == pauses > 0 \/ torn

Empty == \A i \in Steps : store[i] = 0

(* _read_durable_replay_prefix: the outputs of the first n steps.          *)
Prefix(n) == [i \in Steps |-> IF Store /\ i < n THEN store[i] ELSE 0]

(* The journal has records, but not of every step before n.                *)
Skewed(n) == Store /\ ~Empty /\ \E i \in 0 .. n - 1 : store[i] = 0

-----------------------------------------------------------------------------
(* How a drive returns.                                                    *)

Return(d, status, terminal, fail) ==
  /\ pc' = [pc EXCEPT ![d] = "idle"]
  /\ lease' = [lease EXCEPT ![d] = 0]
  /\ result' = [result EXCEPT
       ![d] = [status |-> status, terminal |-> terminal, fail |-> fail]]

GoTo(d, place) == pc' = [pc EXCEPT ![d] = place]

Fault == faults < MaxFaults /\ faults' = faults + 1

-----------------------------------------------------------------------------
(* Up to the step loop.                                                    *)

(* execute_workflow: the drain check, and attempt_resume of a snapshot,    *)
(* which admits every uncorrupted one (the anchor is a constant).          *)
Invoke(d, s) ==
  /\ pc[d] = "idle"
  /\ s \in snapshots \cup {None}
  /\ acc' = [acc EXCEPT ![d] = Nothing]
  /\ channel' = [channel EXCEPT ![d] = Nothing]
  /\ snap' = [snap EXCEPT ![d] = s]
  /\ IF drained
     THEN Return(d, "DRAINED", None, "none")
     ELSE /\ GoTo(d, "position")
          /\ result' = [result EXCEPT ![d] = NoResult]
          /\ UNCHANGED lease
  /\ UNCHANGED <<engine, disk, flags, runs, faults, at, out>>

(* resume_at, by snapshot or by engine class.                              *)
Position(d) ==
  /\ pc[d] = "position"
  /\ \E k \in ResumeAt(snap[d]) : at' = [at EXCEPT ![d] = k]
  /\ GoTo(d, "recover")
  /\ UNCHANGED <<engine, disk, flags, runs, faults,
                 snap, lease, out, acc, channel, result>>

(* The condition under which the engine layer is asked to resume.          *)
ResumesEngine(d) ==
  /\ EnginePauses /\ snap[d] = None /\ HasPauseRecord
  /\ engine = "reconciler-loop" => at[d] < NSteps

(* Faulty variant: the claim is not exclusive.                             *)
ClaimAgain(d) ==
  /\ claimed' = claimed \cup {pauses}
  /\ lease' = [lease EXCEPT ![d] = pauses]
  /\ GoTo(d, "rebuild")
  /\ UNCHANGED result

(* _claim_resume_revision: link() of the claim file succeeds only once.    *)
Claim(d) ==
  IF pauses \in claimed
  THEN /\ Return(d, "FAILED", None, "ABORT_REVALIDATION_FAILED")
       /\ UNCHANGED claimed
  ELSE /\ claimed' = claimed \cup {pauses}
       /\ lease' = [lease EXCEPT ![d] = pauses]
       /\ GoTo(d, "rebuild")
       /\ UNCHANGED result

(* engine_recovery_loop.attempt_resume, failing closed.                    *)
Recover(d) ==
  /\ pc[d] = "recover"
  /\ \/ /\ ~ResumesEngine(d)
        /\ GoTo(d, "rebuild")
        /\ UNCHANGED <<claimed, lease, result>>
     \/ /\ ResumesEngine(d) /\ pauses = 0
        /\ Return(d, "FAILED", None, "ABORT_SNAPSHOT_CORRUPTED")
        /\ UNCHANGED claimed
     \/ /\ ResumesEngine(d) /\ pauses > 0 /\ engine = "wal-segment"
        /\ GoTo(d, "rebuild")
        /\ UNCHANGED <<claimed, lease, result>>
     \/ /\ ResumesEngine(d) /\ pauses > 0 /\ engine = "reconciler-loop"
        /\ Claim(d)
  /\ UNCHANGED <<engine, ledger, store, snapshots, pauses, torn, flags, runs,
                 faults, at, snap, out, acc, channel>>

(* Faulty variant: the channel is left empty.                              *)
RehydratedNever(d) == channel[d]

(* _rehydrate_inter_step_channel_on_replay: not for a snapshot resume.     *)
Rehydrated(d) ==
  IF Replays /\ Channel /\ snap[d] = None THEN Prefix(at[d]) ELSE channel[d]

(* The channel and the accumulated state of the skipped prefix.            *)
Rebuild(d) ==
  /\ pc[d] = "rebuild"
  /\ IF Durable /\ Skewed(at[d])
     THEN /\ Return(d, "FAILED", None, "missing-output")
          /\ UNCHANGED <<acc, channel>>
     ELSE /\ channel' = [channel EXCEPT ![d] = Rehydrated(d)]
          /\ acc' = [acc EXCEPT ![d] = IF Durable THEN Prefix(at[d]) ELSE Nothing]
          /\ GoTo(d, "entry")
          /\ UNCHANGED <<lease, result>>
  /\ UNCHANGED <<engine, disk, flags, runs, faults, at, snap, out>>

-----------------------------------------------------------------------------
(* The step loop.                                                          *)

Finish(d) ==
  /\ pc[d] = "entry" /\ at[d] = NSteps
  /\ Return(d, "SUCCESS", None, "none")
  /\ UNCHANGED <<engine, disk, flags, runs, faults, at, snap, out, acc, channel>>

AtStep(d) == pc[d] = "entry" /\ at[d] < NSteps

(* Faulty variant: the step that was not entered is reported.              *)
DrainAtEntryHere(d) ==
  /\ AtStep(d) /\ drained
  /\ Return(d, "DRAINED", at[d], "none")
  /\ UNCHANGED <<engine, disk, flags, runs, faults, at, snap, out, acc, channel>>

(* The drain check before a step; the one after it sees the same state.    *)
DrainAtEntry(d) ==
  /\ AtStep(d) /\ drained
  /\ Return(d, "DRAINED", at[d] - 1, "none")
  /\ UNCHANGED <<engine, disk, flags, runs, faults, at, snap, out, acc, channel>>

(* capture_pause of the engine layer: truncate a torn tail, append, fsync. *)
EnginePause(d) ==
  /\ AtStep(d) /\ ~drained /\ pauseFlag /\ EnginePauses
  /\ pauses' = pauses + 1
  /\ torn' = FALSE
  /\ Return(d, "PAUSED", at[d] - 1, "none")
  /\ Fault
  /\ UNCHANGED <<engine, ledger, store, snapshots, claimed, flags, runs,
                 at, snap, out, acc, channel>>

(* capture_pause_snapshot of the workflow layer.                           *)
ProtocolPause(d) ==
  /\ AtStep(d) /\ ~drained /\ pauseFlag /\ ~EnginePauses /\ Protocol
  /\ snapshots' = snapshots \cup {at[d]}
  /\ Return(d, "PAUSED", at[d] - 1, "none")
  /\ UNCHANGED <<engine, ledger, store, pauses, torn, claimed, flags, runs,
                 faults, at, snap, out, acc, channel>>

Dispatching(d) ==
  AtStep(d) /\ ~drained /\ ~(pauseFlag /\ (EnginePauses \/ Protocol))

Execute(d) ==
  runs' = [runs EXCEPT ![at[d]] = IF @ < MaxRuns THEN @ + 1 ELSE @]

Dispatch(d) ==
  /\ Dispatching(d)
  /\ Execute(d)
  /\ out' = [out EXCEPT ![d] = runs'[at[d]]]
  /\ GoTo(d, "record")
  /\ UNCHANGED <<engine, disk, flags, faults, at, snap, lease, acc, channel, result>>

(* The dispatcher raises, times out or has no binding; or the validator,   *)
(* its escalation gate or the operator behind it turns the output down.    *)
StepFails(d) ==
  /\ Dispatching(d)
  /\ Execute(d) \/ UNCHANGED runs
  /\ Return(d, "FAILED", at[d], "step-failure")
  /\ Fault
  /\ UNCHANGED <<engine, disk, flags, at, snap, out, acc, channel>>

(* HITLPauseRequestedSignal, which also sets the flag of the context, and  *)
(* EffectFenceAmbiguousUncommittedError.                                   *)
GatePause(d) ==
  /\ Dispatching(d) /\ Protocol
  /\ snapshots' = snapshots \cup {at[d]}
  /\ pauseFlag' \in {pauseFlag, TRUE}
  /\ Return(d, "PAUSED", at[d] - 1, "none")
  /\ Fault
  /\ UNCHANGED <<engine, ledger, store, pauses, torn, claimed, drained, runs,
                 at, snap, out, acc, channel>>

(* Faulty variant: the journal lags one step behind the ledger.            *)
RecordBehind(d) ==
  /\ pc[d] = "record"
  /\ store' = IF Durable /\ Store /\ at[d] > 0
              THEN [store EXCEPT ![at[d] - 1] = acc[d][at[d] - 1]] ELSE store
  /\ GoTo(d, "append")

(* Faulty variant: only the classes that replay the channel are recorded.  *)
RecordReplaying(d) ==
  /\ pc[d] = "record"
  /\ store' = IF Replays /\ Store THEN [store EXCEPT ![at[d]] = out[d]] ELSE store
  /\ GoTo(d, "append")

(* Faulty variant: the first record of a step is kept.                     *)
RecordOnce(d) ==
  /\ pc[d] = "record"
  /\ store' = IF Durable /\ Store /\ store[at[d]] = 0
              THEN [store EXCEPT ![at[d]] = out[d]] ELSE store
  /\ GoTo(d, "append")

(* _record_durable_step_output: RESERVE before COMMIT.                     *)
Record(d) ==
  /\ pc[d] = "record"
  /\ store' = IF Durable /\ Store THEN [store EXCEPT ![at[d]] = out[d]] ELSE store
  /\ GoTo(d, "append")

RecordStep(d) ==
  /\ Record(d)
  /\ UNCHANGED <<engine, ledger, snapshots, pauses, torn, claimed, flags, runs, faults,
                 at, snap, lease, out, acc, channel, result>>

(* The journal write is not guarded: an OSError leaves execute_workflow.   *)
RecordRaises(d) ==
  /\ pc[d] = "record" /\ Durable /\ Store
  /\ Return(d, "raised", None, "none")
  /\ Fault
  /\ UNCHANGED <<engine, disk, flags, runs, at, snap, out, acc, channel>>

(* append_ledger_entry: IDEMPOTENT_NOOP for a key that is there.           *)
Appended(i) == IF i \in Committed THEN ledger ELSE Append(ledger, i)

NextStep(i) == i + 1

(* _append_step_ledger_entry, then the accumulated state, the channel and  *)
(* the drain check.                                                        *)
Commit(d) ==
  /\ pc[d] = "append"
  /\ ledger' = Appended(at[d])
  /\ acc' = [acc EXCEPT ![d][at[d]] = out[d]]
  /\ channel' = [channel EXCEPT ![d][at[d]] = IF Channel THEN out[d] ELSE 0]
  /\ at' = [at EXCEPT ![d] = NextStep(@)]
  /\ IF drained
     THEN Return(d, "DRAINED", at[d], "none")
     ELSE GoTo(d, "entry") /\ UNCHANGED <<lease, result>>
  /\ UNCHANGED <<engine, store, snapshots, pauses, torn, claimed, flags, runs,
                 faults, snap, out>>

(* Faulty variant: the loop goes on after a failed append.                 *)
CommitFailsOn(d) ==
  /\ pc[d] = "append"
  /\ acc' = [acc EXCEPT ![d][at[d]] = out[d]]
  /\ at' = [at EXCEPT ![d] = NextStep(@)]
  /\ GoTo(d, "entry")
  /\ Fault
  /\ UNCHANGED <<engine, disk, flags, runs, snap, lease, out, channel, result>>

(* A refused or failed append: the step ran, its output is journalled.     *)
CommitFails(d) ==
  /\ pc[d] = "append"
  /\ Return(d, "FAILED", at[d], "ledger-append-failed")
  /\ Fault
  /\ UNCHANGED <<engine, disk, flags, runs, at, snap, out, acc, channel>>

-----------------------------------------------------------------------------
(* The operator and the host.                                              *)

SetDrained ==
  /\ ~drained /\ Fault
  /\ drained' = TRUE
  /\ UNCHANGED <<engine, disk, pauseFlag, runs, local>>

RequestPause ==
  /\ ~pauseFlag /\ Fault
  /\ pauseFlag' = TRUE
  /\ UNCHANGED <<engine, disk, drained, runs, local>>

(* A new context (api.resume makes one), or the caller clears the flag.    *)
ClearPause ==
  /\ pauseFlag
  /\ pauseFlag' = FALSE
  /\ UNCHANGED <<engine, disk, drained, runs, faults, local>>

(* Every drive of the host ends; k entries of the ledger survive.          *)
Halt(k) ==
  /\ ledger' = SubSeq(ledger, 1, k)
  /\ drained' = FALSE /\ pauseFlag' = FALSE
  /\ pc' = [d \in Drivers |-> "idle"]
  /\ lease' = [d \in Drivers |-> 0]
  /\ result' = [d \in Drivers |-> NoResult]
  /\ UNCHANGED <<engine, store, snapshots, pauses, claimed, runs,
                 at, snap, out, acc, channel>>

(* A power loss keeps any prefix; half an engine pause record may stay.    *)
Crash ==
  /\ Fault
  /\ \E k \in 0 .. Len(ledger) : (PowerLoss \/ k = Len(ledger)) /\ Halt(k)
  /\ \/ UNCHANGED torn
     \/ /\ \E d \in Drivers : AtStep(d) /\ ~drained /\ pauseFlag /\ EnginePauses
        /\ torn' = TRUE

(* The drained flag is one-way: the operator restarts an idle host.        *)
Restart ==
  /\ drained /\ \A d \in Drivers : pc[d] = "idle"
  /\ Halt(Len(ledger))
  /\ UNCHANGED <<torn, faults>>

Drive(d) ==
  \/ Position(d) \/ Recover(d) \/ Rebuild(d)
  \/ Finish(d) \/ DrainAtEntry(d) \/ EnginePause(d) \/ ProtocolPause(d)
  \/ Dispatch(d) \/ StepFails(d) \/ GatePause(d)
  \/ RecordStep(d) \/ RecordRaises(d) \/ Commit(d) \/ CommitFails(d)

Invocation(d) == \E s \in snapshots \cup {None} : Invoke(d, s)

Next ==
  \/ \E d \in Drivers : Invocation(d) \/ Drive(d)
  \/ SetDrained \/ RequestPause \/ ClearPause \/ Crash \/ Restart

Spec == Init /\ [][Next]_vars

(* Threads are scheduled; somebody drives an unfinished run again, on a    *)
(* context whose flags are clear, and restarts a drained host.             *)
FairSpec ==
  /\ Spec
  /\ \A d \in Drivers :
       /\ WF_vars(Drive(d))
       /\ WF_vars(~drained /\ ~pauseFlag /\ Invocation(d))
  /\ WF_vars(ClearPause) /\ WF_vars(Restart)

-----------------------------------------------------------------------------
(* Properties.                                                             *)

Statuses == {"none", "SUCCESS", "DRAINED", "PAUSED", "FAILED", "raised"}
PCs == {"idle", "position", "recover", "rebuild", "entry", "record", "append"}
Counts == [Steps -> 0 .. MaxRuns]
Fails == {"none", "ABORT_REVALIDATION_FAILED", "ABORT_SNAPSHOT_CORRUPTED",
          "missing-output", "step-failure", "ledger-append-failed"}
Results == [status : Statuses, terminal : Steps \cup {None}, fail : Fails]

(* Types; pauses and faults stay within MaxFaults.                         *)
TypeOK ==
  /\ engine \in EngineClasses
  /\ ledger \in Seq(Steps) /\ store \in Counts
  /\ snapshots \subseteq Steps
  /\ pauses \in Nat /\ torn \in BOOLEAN /\ claimed \subseteq 1 .. pauses
  /\ drained \in BOOLEAN /\ pauseFlag \in BOOLEAN
  /\ runs \in Counts /\ faults \in 0 .. MaxFaults
  /\ pc \in [Drivers -> PCs] /\ at \in [Drivers -> 0 .. NSteps]
  /\ snap \in [Drivers -> Steps \cup {None}] /\ lease \in [Drivers -> Nat]
  /\ out \in [Drivers -> 0 .. MaxRuns]
  /\ acc \in [Drivers -> Counts] /\ channel \in [Drivers -> Counts]
  /\ result \in [Drivers -> Results]

(* RESERVE before COMMIT: under a durable engine class every step in the   *)
(* ledger has its output in the journal, whatever crashed in between, and  *)
(* whoever else drives the run.                                            *)
StoreCoversLedger == Durable /\ Store => \A i \in Committed : store[i] > 0

(* No drive ever fails closed on a skew of ledger and journal: the ledger  *)
(* is read first and the journal after it, and a snapshot is only taken    *)
(* behind steps that are journalled.                                       *)
NeverSkewed == \A d \in Drivers : result[d].fail # "missing-output"

(* A successful drive, resumed or not, never skipped a step that no drive  *)
(* executed.                                                               *)
SuccessMeansAllRan ==
  \A d \in Drivers :
    result[d].status = "SUCCESS" => \A i \in Steps : runs[i] > 0

(* The steps up to the terminal index a drained or paused drive reports    *)
(* are in the ledger (as long as no power loss takes them away).           *)
TerminalMeansCommitted ==
  ~PowerLoss =>
    \A d \in Drivers :
      result[d].status \in {"DRAINED", "PAUSED"} =>
        \A i \in 0 .. result[d].terminal : i \in Committed

(* Without power loss the ledger is the steps 0, 1, ..., in order and each *)
(* once, even when two threads drive the run.                              *)
LedgerInOrder == ~PowerLoss => \A j \in DOMAIN ledger : ledger[j] = j - 1

(* The final state of a successful drive has the output of every step,     *)
(* replayed or executed: a resume is not visible in it.                    *)
FinalStateIsWhole ==
  Durable /\ Store =>
    \A d \in Drivers :
      result[d].status = "SUCCESS" => \A i \in Steps : acc[d][i] > 0

(* Driven by one thread at a time, the final state is what the journal     *)
(* last recorded, re-executions included.                                  *)
FinalStateIsLatest ==
  Durable /\ Store =>
    \A d \in Drivers : result[d].status = "SUCCESS" => acc[d] = store

(* A replaying class dispatches no step that would miss the output of the  *)
(* step before it in the channel, unless it resumes a snapshot there.      *)
UpstreamVisible ==
  Replays /\ Channel /\ Store =>
    \A d \in Drivers :
      /\ pc[d] \in {"record", "append"} /\ at[d] > 0
      /\ snap[d] = None \/ at[d] > snap[d]
      => channel[d][at[d] - 1] > 0

Run == INSTANCE WorkflowRun WITH
  committed <- Len(ledger),
  performed <- {i \in Steps : runs[i] > 0},
  success <- \E d \in Drivers : result[d].status = "SUCCESS"

(* As long as no power loss takes the ledger back, all the drives of a run *)
(* together behave like one uninterrupted run: a step is performed only    *)
(* behind committed ones, so that a crash leaves at most one step in       *)
(* doubt, and a success has every step in the ledger.                      *)
ImplementsRun == Run!Spec

(* No two drives work under the same revision of a reconciler run.         *)
LeaseIsExclusive ==
  \A d, e \in Drivers : d # e /\ lease[d] > 0 => lease[d] # lease[e]

(* One thread at a time: as long as no power loss tore a hole in it, a     *)
(* drive that positioned itself by the ledger executes no step that is in  *)
(* the ledger.                                                             *)
CommittedNotRerun ==
  [][(\A j \in DOMAIN ledger : ledger[j] = j - 1) =>
       \A d \in Drivers, i \in Steps :
         Durable /\ snap[d] = None /\ pc[d] = "entry" /\ runs'[i] # runs[i]
           => i \notin Committed]_vars

(* Nobody may drive this run on: its pause record is unreadable, or the    *)
(* revision it was paused at was claimed by a drive that did not finish.   *)
NeedsOperator ==
  /\ EnginePauses
  /\ \/ pauses = 0 /\ torn
     \/ engine = "reconciler-loop" /\ pauses \in claimed

(* With finitely many faults a run that is driven again and again comes to *)
(* a drive that succeeds, or ends in the operator's hands.                 *)
Completes ==
  <>(NeedsOperator \/ \E d \in Drivers : result[d].status = "SUCCESS")
=============================================================================
