----------------------------- MODULE Sequential -----------------------------
(***************************************************************************)
(* One run of a strategy with a single owner, and its resumes:             *)
(*                                                                         *)
(*   EVALUATOR_OPTIMIZER    generate, evaluate, generate, ... until an     *)
(*                          evaluation accepts or Cap generates have run   *)
(*   DECENTRALIZED_HANDOFF  the declared stages, each handing to the next  *)
(*                                                                         *)
(* (harness_cp/workflow_driver.py).  Dispatches are numbered: entry e is   *)
(* the e-th dispatch of the run, whatever drive made it.  Ledger entries   *)
(* are buffered and drained when the drive ends.  Nothing of a drive is    *)
(* durable before that but, in the handoff, the pause snapshot: a crash    *)
(* loses the drive, and only a snapshot carries the run on.                *)
(* The entries of per-step overrides, which add nothing to the order of    *)
(* the others, are left out.                                               *)
(***************************************************************************)
EXTENDS Integers, FiniteSetsExt

CONSTANTS
  Strategies,  (* strategies to choose from: "evaluator", "handoff"         *)
  NStages,     (* len(steps) of a handoff                                   *)
  Cap,         (* _DEFAULT_EVALUATOR_OPTIMIZER_MAX_ITERATIONS               *)
  Policies,    (* cascade policies to choose from                           *)
  Protocol,    (* ctx.pause_resume_protocol is bound, with a durable store  *)
  MaxDrives,   (* bound: drives of the run                                  *)
  MaxFaults    (* bound: crashes, failing dispatches and failing writes     *)

ASSUME SequentialAssumption ==
  /\ Strategies \subseteq {"evaluator", "handoff"}
  /\ NStages \in Nat \ {0} /\ Cap \in Nat \ {0}
  /\ MaxDrives \in Nat /\ MaxFaults \in Nat

VARIABLES
  strategy, policy,    (* the manifest                                      *)
  ledger,              (* the state ledger's entries of the run             *)
  snapshots,           (* captured: the number of completed entries of each *)
  pc,                  (* of the drive                                      *)
  origin,              (* entries it recovered                              *)
  next,                (* entry_index / stage_index                         *)
  iterations,          (* generates counted so far                          *)
  accepted,            (* the last evaluation accepts                       *)
  channel,             (* the inter-step output of each declared step       *)
  handoffs,            (* stages that handed over                           *)
  buffer,              (* entries not yet drained                           *)
  verdict, result,     (* what the drive will return, what the last one did *)
  runs,                (* effects                                           *)
  drives, faults

local == <<pc, origin, next, iterations, accepted, channel, handoffs, buffer, verdict>>
vars == <<strategy, policy, ledger, snapshots, local, result, runs, drives, faults>>

Evaluator == strategy = "evaluator"

(* No run has more entries (the model leaves room for one that would).     *)
Entries == 0 .. (IF 2 * Cap > NStages THEN 2 * Cap ELSE NStages) + 1

(* Declared steps, and the one that entry e dispatches.                    *)
NSteps == IF Evaluator THEN 2 ELSE NStages
Declared(e) == IF Evaluator THEN e % 2 ELSE e

(* Generates among the first n entries.                                    *)
Generates(n) == (n + 1) \div 2

Nothing == [d \in Entries |-> -1]

Init ==
  /\ strategy \in Strategies /\ policy \in Policies
  /\ ledger = {} /\ snapshots = {}
  /\ pc = "idle" /\ origin = 0 /\ next = 0 /\ iterations = 0 /\ accepted = FALSE
  /\ channel = Nothing /\ handoffs = {} /\ buffer = {} /\ verdict = "none"
  /\ result = "none" /\ runs = [e \in Entries |-> 0]
  /\ drives = 0 /\ faults = 0

-----------------------------------------------------------------------------
(* The start of a drive.                                                   *)

Reset ==
  /\ pc' = "idle" /\ origin' = 0 /\ next' = 0 /\ iterations' = 0 /\ accepted' = FALSE
  /\ channel' = Nothing /\ handoffs' = {} /\ buffer' = {} /\ verdict' = "none"

Keep == UNCHANGED <<strategy, policy>>
Fault == faults < MaxFaults /\ faults' = faults + 1

(* The inter-step outputs after n entries, and the stages that handed over *)
(* among them.                                                             *)
Outputs(n) ==
  [d \in Entries |-> Max({-1} \cup {e \in 0 .. n - 1 : Declared(e) = d})]

HandedOver(n) == IF Evaluator THEN {} ELSE 0 .. (IF n < NStages THEN n ELSE NStages - 1) - 1

Start(n, count, outputs, handed) ==
  /\ pc = "idle" /\ drives < MaxDrives
  /\ drives' = drives + 1 /\ result' = "none"
  /\ pc' = "step" /\ origin' = n /\ next' = n
  /\ iterations' = count /\ channel' = outputs /\ handoffs' = handed
  /\ accepted' = FALSE
  /\ Keep /\ UNCHANGED <<ledger, snapshots, buffer, verdict, runs, faults>>

Counted(n) == IF Evaluator THEN Generates(n) ELSE 0

(* Faulty variants: the recovered entries are not counted, or do not hand  *)
(* over.                                                                   *)
BeginUncounted(n) == Start(n, 0, Outputs(n), HandedOver(n))
BeginUnhanded(n) == Start(n, Counted(n), Outputs(n), {})

(* A drive over n recovered entries.  They are not dispatched again: their *)
(* outputs are handed on, counted and recorded as if they just had been.   *)
Begin(n) == Start(n, Counted(n), Outputs(n), HandedOver(n))

Drive == drives = 0 /\ Begin(0)

(* A body without steps succeeds at once; a loop has two steps.            *)
DriveMalformed ==
  /\ pc = "idle" /\ drives = 0 /\ MaxDrives > 0
  /\ drives' = 1
  /\ result' \in IF Evaluator THEN {"SUCCESS", "FAILED"} ELSE {"SUCCESS"}
  /\ Keep /\ UNCHANGED <<ledger, snapshots, local, runs, faults>>

(* What the operator resumes with: the body that paused, or one in which   *)
(* the steps of "renamed" have another identity or one has been added.     *)
Bodies == [len : {NSteps, NSteps + 1}, renamed : SUBSET (0 .. NSteps - 1)]

(* The body cannot be the one whose first n entries were completed.        *)
Mismatch(n, body) ==
  \/ body.len # NSteps
  \/ \E e \in 0 .. n - 1 : Declared(e) \in body.renamed
  \/ IF Evaluator THEN Generates(n) > Cap \/ (n % 2 = 0 /\ Generates(n) >= Cap)
     ELSE n >= NStages

Resume(n, body) ==
  /\ n \in snapshots /\ ~Mismatch(n, body)
  /\ Begin(n)

(* resume-body-mismatch: nothing is dispatched.                            *)
Refuse(n, body) ==
  /\ n \in snapshots /\ Mismatch(n, body)
  /\ pc = "idle" /\ drives < MaxDrives
  /\ drives' = drives + 1 /\ result' = "FAILED"
  /\ Keep /\ UNCHANGED <<ledger, snapshots, local, runs, faults>>

-----------------------------------------------------------------------------
(* The dispatches.                                                         *)

(* A step is due: the pending evaluation, another iteration, a stage.      *)
Due ==
  IF Evaluator THEN next % 2 = 1 \/ (~accepted /\ iterations < Cap)
  ELSE next < NStages

(* Ledger entries of entry e; a stage has a terminal entry as well.        *)
EntriesOf(e) == IF Evaluator THEN {<<e, "step">>} ELSE {<<e, "step">>, <<e, "end">>}

(* The dispatch returns.  An output that is an evaluation may accept.      *)
StepReturns ==
  /\ pc = "step" /\ Due
  /\ runs' = [runs EXCEPT ![next] = @ + 1]
  /\ channel' = [channel EXCEPT ![Declared(next)] = next]
  /\ buffer' = buffer \cup EntriesOf(next)
  /\ iterations' = IF Evaluator /\ next % 2 = 0 THEN iterations + 1 ELSE iterations
  /\ \E a \in IF Evaluator /\ next % 2 = 1 THEN BOOLEAN ELSE {FALSE} : accepted' = a
  /\ handoffs' = IF ~Evaluator /\ next < NStages - 1 THEN handoffs \cup {next} ELSE handoffs
  /\ next' = next + 1
  /\ Keep
  /\ UNCHANGED <<ledger, snapshots, pc, origin, verdict, result, drives, faults>>

Conclude(v) ==
  /\ verdict' = v /\ pc' = "drain"
  /\ Keep
  /\ UNCHANGED <<ledger, snapshots, origin, next, iterations, accepted, channel, handoffs,
                 buffer, result, drives>>

(* The dispatch raises; its effect may have happened.                      *)
Raised ==
  /\ pc = "step" /\ Due /\ Fault
  /\ \E happened \in {0, 1} : runs' = [runs EXCEPT ![next] = @ + happened]

(* Under PAUSE with a protocol the loop is drained before the snapshot is  *)
(* captured, the handoff captures first.                                   *)
StepPauses ==
  /\ Raised /\ policy = "pause" /\ Protocol
  /\ IF Evaluator
     THEN Conclude("PAUSED")
     ELSE /\ pc' = "capture" /\ verdict' = "PAUSED"
          /\ Keep
          /\ UNCHANGED <<ledger, snapshots, origin, next, iterations, accepted, channel,
                         handoffs, buffer, result, drives>>

StepFails ==
  /\ Raised /\ ~(policy = "pause" /\ Protocol)
  /\ Conclude(IF ~Evaluator /\ policy = "proceed" THEN "PARTIAL" ELSE "FAILED")

(* No dispatcher for the kind of the step, or a child run that paused:     *)
(* neither strategy can pause there.                                       *)
StepUnsupported == pc = "step" /\ Due /\ Fault /\ Conclude("FAILED") /\ UNCHANGED runs

AllDone ==
  /\ pc = "step" /\ ~Due
  /\ Conclude("SUCCESS") /\ UNCHANGED <<runs, faults>>

-----------------------------------------------------------------------------
(* The end of a drive.                                                     *)

(* The smallest buffered entry, the step before its end.                   *)
FirstBuffered(x) ==
  /\ x \in buffer
  /\ \A y \in buffer : x[1] < y[1] \/ (x[1] = y[1] /\ (x[2] = "step" \/ y[2] = "end"))

(* drain_branch_buffers; an entry the ledger has keeps its place there.    *)
Drain ==
  /\ pc = "drain"
  /\ \E x \in buffer :
       /\ FirstBuffered(x)
       /\ ledger' = ledger \cup {x} /\ buffer' = buffer \ {x}
  /\ Keep
  /\ UNCHANGED <<snapshots, pc, origin, next, iterations, accepted, channel, handoffs,
                 verdict, result, runs, drives, faults>>

(* Faulty variant: the loop captures before it drains, like the handoff.   *)
CaptureEarly ==
  /\ \/ pc = "capture"
     \/ pc = "drain" /\ Evaluator /\ verdict = "PAUSED" /\ next \notin snapshots
  /\ snapshots' = snapshots \cup {next}
  /\ pc' = "drain"
  /\ Keep
  /\ UNCHANGED <<ledger, origin, next, iterations, accepted, channel, handoffs, buffer,
                 verdict, result, runs, drives, faults>>

(* capture_pause_snapshot: durable before it returns.                      *)
Capture ==
  /\ \/ pc = "capture"
     \/ pc = "drain" /\ buffer = {} /\ Evaluator /\ verdict = "PAUSED"
        /\ next \notin snapshots
  /\ snapshots' = snapshots \cup {next}
  /\ pc' = "drain"
  /\ Keep
  /\ UNCHANGED <<ledger, origin, next, iterations, accepted, channel, handoffs, buffer,
                 verdict, result, runs, drives, faults>>

Return ==
  /\ pc = "drain" /\ buffer = {}
  /\ verdict = "PAUSED" => next \in snapshots
  /\ result' = verdict /\ Reset
  /\ Keep /\ UNCHANGED <<ledger, snapshots, runs, drives, faults>>

(* An append or the snapshot store raises: the exception leaves the driver *)
(* and what is still buffered is lost.                                     *)
WriteRaises ==
  /\ \/ pc = "capture"
     \/ pc = "drain" /\ (buffer # {} \/ (verdict = "PAUSED" /\ next \notin snapshots))
  /\ Fault /\ Reset /\ result' = "RAISED"
  /\ Keep /\ UNCHANGED <<ledger, snapshots, runs, drives>>

Crash ==
  /\ pc # "idle" /\ Fault /\ Reset /\ result' = "CRASHED"
  /\ Keep /\ UNCHANGED <<ledger, snapshots, runs, drives>>

-----------------------------------------------------------------------------
Next ==
  \/ Drive \/ DriveMalformed
  \/ StepReturns \/ StepPauses \/ StepFails \/ StepUnsupported \/ AllDone
  \/ Drain \/ Capture \/ Return \/ WriteRaises \/ Crash
  \/ \E n \in snapshots : \E body \in Bodies : Resume(n, body) \/ Refuse(n, body)

Spec == Init /\ [][Next]_vars

-----------------------------------------------------------------------------
(* Properties.                                                             *)

(* Every variable has its type.                                            *)
TypeOK ==
  /\ strategy \in {"evaluator", "handoff"} /\ policy \in Policies
  /\ ledger \subseteq Entries \X {"step", "end"} /\ buffer \subseteq Entries \X {"step", "end"}
  /\ snapshots \subseteq Entries
  /\ pc \in {"idle", "step", "capture", "drain"}
  /\ origin \in Entries /\ next \in Entries /\ iterations \in 0 .. Cap
  /\ accepted \in BOOLEAN /\ channel \in [Entries -> Entries \cup {-1}]
  /\ handoffs \subseteq Entries
  /\ verdict \in {"none", "SUCCESS", "PARTIAL", "FAILED", "PAUSED"}
  /\ result \in {"none", "SUCCESS", "PARTIAL", "FAILED", "PAUSED", "RAISED", "CRASHED"}
  /\ runs \in [Entries -> Nat]
  /\ drives \in 0 .. MaxDrives /\ faults \in 0 .. MaxFaults

(* What a resume of the loop takes as completed, and will never write, is  *)
(* in the ledger already: whatever crash or failing write came between.    *)
SnapshotIsLedgered ==
  Evaluator =>
    \A n \in snapshots : \A e \in 0 .. n - 1 : EntriesOf(e) \subseteq ledger

(* However often it pauses and resumes, a run of the loop dispatches no    *)
(* more than Cap generates and as many evaluations.                        *)
CapHolds ==
  Evaluator => \A e \in Entries : runs[e] > 0 => e < 2 * Cap

(* A drive that is about to report success reports the whole run: an       *)
(* iteration for each generate, a handoff for each stage but the last, and *)
(* the outputs of the last entries of all drives.                          *)
SuccessIsWhole ==
  verdict = "SUCCESS" =>
    /\ channel = Outputs(next)
    /\ IF Evaluator
       THEN iterations = Generates(next) /\ (accepted \/ next = 2 * Cap)
       ELSE next = NStages /\ handoffs = 0 .. NStages - 2
=============================================================================
