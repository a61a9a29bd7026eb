---------------------------- MODULE Orchestrator ----------------------------
(***************************************************************************)
(* One ORCHESTRATOR_WORKERS run: an orchestrator step, its workers behind  *)
(* one barrier, and the synthesis of their outputs.                        *)
(*                                                                         *)
(*   harness_cp/workflow_driver.py     _execute_orchestrator_workers,      *)
(*                                     _determine_fanout_resume,           *)
(*                                     _maybe_post_join_synthesis          *)
(*   lifecycle/engine_output_store.py  the orchestrator's and the          *)
(*                                     synthesis' records and markers      *)
(*                                                                         *)
(* The workers are module FanOut: its markers, records, threads, deadline  *)
(* and verdicts are theirs.  This module puts the orchestrator in front of *)
(* the barrier and the synthesis behind the drain, and replaces what the   *)
(* two change: how a drive starts, and how it ends.                        *)
(***************************************************************************)
EXTENDS FanOut

CONSTANTS
  OrchKinds,      (* kinds of the orchestrator step, as FanOut's Kinds      *)
  Syntheses,      (* SUBSET BOOLEAN: does a POST_JOIN_SYNTHESIS step end it *)
  MaxDispatches   (* bound: dispatches of the orchestrator                  *)

ASSUME OrchestratorAssumption ==
  /\ OrchKinds \subseteq {"safe", "fenced", "opaque"}
  /\ Syntheses \subseteq BOOLEAN
  /\ MaxDispatches \in Nat

(* An output is known by the dispatch that computed it: 0 for none.        *)
VARIABLES
  orchKind, synthesis,            (* the manifest                           *)
  orchMarker, orchRecord,         (* the store: of the orchestrator,        *)
  orchOutput,                     (* (the output in its record)             *)
  synthRecord, synthOutput,       (* and of the synthesis                   *)
  orchEntry, synthEntry,          (* the state ledger                       *)
  orchFence, capture,             (* the orchestrator's claim, its result   *)
  orchRuns, orchZombie,           (* its effects; a call nobody awaits      *)
  held, carried,                  (* its fence's pauses; outputs that the   *)
                                  (* workers' snapshots carry               *)
  phase, plan,                    (* the drive, and the output it uses      *)
  orchDirective, orchBuf,         (* the operator's answer; buffered entry  *)
  answer,                         (* the synthesis of the drive             *)
  dispatches, synthRuns,
  plans, answers                  (* outputs that workers were dispatched   *)
                                  (* under; syntheses reported              *)

orchManifest == <<orchKind, synthesis>>
orchStore == <<orchMarker, orchRecord, orchOutput>>
synthStore == <<synthRecord, synthOutput>>
orchLedger == <<orchEntry, synthEntry>>
orchWorld == <<orchFence, capture, orchRuns, orchZombie>>
orchPauses == <<held, carried>>
orchDrive == <<phase, plan, orchDirective, orchBuf, answer>>
history == <<dispatches, synthRuns, plans, answers>>
orchVars == <<orchManifest, orchStore, synthStore, orchLedger, orchWorld, orchPauses,
              orchDrive, history>>

(* The run is modelled for an engine whose output store is bound.          *)
OrchInit ==
  /\ Store
  /\ Init
  /\ orchKind \in OrchKinds /\ synthesis \in Syntheses
  /\ orchMarker = "absent" /\ orchRecord = "absent" /\ orchOutput = 0
  /\ synthRecord = "absent" /\ synthOutput = 0
  /\ orchEntry = FALSE /\ synthEntry = FALSE
  /\ orchFence = "none" /\ capture = 0 /\ orchRuns = 0 /\ orchZombie = 0
  /\ held = FALSE /\ carried = {}
  /\ phase = "idle" /\ plan = 0 /\ orchDirective = "none" /\ orchBuf = FALSE
  /\ answer = 0 /\ dispatches = 0 /\ synthRuns = 0 /\ plans = {} /\ answers = {}

-----------------------------------------------------------------------------
(* What a drive may conclude from the store.                               *)

(* Something that is written after the orchestrator's record.              *)
Downstream ==
  \/ cardinality # "absent" \/ synthRecord # "absent"
  \/ \E b \in Branches : marker[b] # "absent" \/ record[b] # "absent"

(* Faulty variant: an orchestrator that ran is dispatched again.           *)
MayDispatchAnyKind ==
  orchRecord = "absent" /\ (orchMarker # "absent" => ~Downstream)

(* Faulty variant: what is safe to run twice is dispatched again although  *)
(* its output is recorded.                                                 *)
MayDispatchSafe ==
  \/ orchMarker = "set" /\ orchKind = "safe"
  \/ /\ orchRecord = "absent"
     /\ \/ orchMarker = "absent" /\ \A b \in Branches : record[b] = "absent"
        \/ orchMarker = "set" /\ ~Downstream /\ orchKind = "fenced" /\ instrumented

(* The orchestrator is dispatched if it never was, or if a lost dispatch   *)
(* of it does no harm: its marker names a kind that is safe to run twice,  *)
(* or one that its fence stops, and the run is stamped as instrumented.    *)
MayDispatch ==
  /\ orchRecord = "absent"
  /\ \/ orchMarker = "absent" /\ \A b \in Branches : record[b] = "absent"
     \/ /\ orchMarker = "set" /\ ~Downstream
        /\ \/ orchKind = "safe" /\ (instrumented \/ ~Strict)
           \/ orchKind = "fenced" /\ instrumented

(* A captured synthesis was computed from the outputs of all workers.      *)
Contradicted ==
  synthRecord # "absent" /\ \E b \in Branches : b \notin Recovered \/ record[b] # "output"

(* The recorded orchestrator's workers may be driven on.                   *)
MayRedrive ==
  /\ orchRecord = "set" /\ cardinality = "set"
  /\ ~Refused /\ ~Contradicted

-----------------------------------------------------------------------------
(* Steps of the drive.                                                     *)

(* FanOut is at rest while the orchestrator is under way.                  *)
FanOutRests == UNCHANGED <<manifest, store, ledger, world, snapshots, local, drives>>

Idle == phase = "idle" /\ pc = "idle" /\ drives < MaxDrives

OrchReset ==
  /\ phase' = "idle" /\ plan' = 0 /\ orchDirective' = "none" /\ orchBuf' = FALSE
  /\ answer' = 0

(* A drive that ends without its workers; failing drains an empty buffer.  *)
OrchEnds(status) ==
  /\ result' = status /\ OrchReset /\ FanOutRests

(* A drive that the store stops.                                           *)
OrchRefuse ==
  /\ Idle /\ ~MayDispatch /\ ~MayRedrive
  /\ drives' = drives + 1 /\ result' = "FAILED"
  /\ UNCHANGED <<manifest, store, ledger, world, snapshots, local, budget, orchVars>>

(* A first drive, or one that may dispatch the orchestrator again.         *)
OrchStart ==
  /\ Idle /\ MayDispatch
  /\ phase' = "stamp" /\ result' = "none" /\ FanOutRests
  /\ UNCHANGED <<budget, orchManifest, orchStore, synthStore, orchLedger, orchWorld,
                 orchPauses, plan, orchDirective, orchBuf, answer, history>>

(* A crash re-drive: the orchestrator's output and the workers' records    *)
(* come from the store, their ledger entries are buffered again.           *)
Redrive ==
  /\ Idle /\ MayRedrive
  /\ Prepare("crash",
             [b \in Branches |-> IF b \in Recovered \/ Reconstruct THEN "off" ELSE "planned"],
             [b \in Branches |-> IF b \in Recovered THEN record[b] ELSE "absent"])
  /\ bufSteps' = Recovered
  /\ bufEnds' = [b \in Branches |-> IF b \in Recovered THEN "completed" ELSE "none"]
  /\ pc' = "mark" /\ directive' = All("none") /\ result' = "none"
  /\ phase' = "workers" /\ plan' = orchOutput /\ orchBuf' = TRUE
  /\ UNCHANGED <<orchManifest, orchStore, synthStore, orchLedger, orchWorld, orchPauses,
                 orchDirective, answer, history>>

(* A drive that resumes a snapshot of the workers: the orchestrator's      *)
(* output is in it, and its ledger entry is taken to be there.             *)
OrchResume(s) ==
  /\ Idle /\ Resume(s)
  /\ \E output \in carried : plan' = output
  /\ phase' = "workers"
  /\ UNCHANGED <<orchManifest, orchStore, synthStore, orchLedger, orchWorld, orchPauses,
                 orchDirective, orchBuf, answer, history>>

(* A drive that resumes a pause of the orchestrator's fence.  The operator *)
(* is honest.  SKIP_AS_FIRED has no output to give to the workers.         *)
ResumeHeld ==
  /\ Idle /\ held
  /\ \/ orchRuns > 0 /\ OrchEnds("FAILED")
     \/ /\ \E a \in {"none", "abort"} \cup
                    {x \in {"re_fire"} : orchRuns = 0 /\ orchZombie = 0} :
             orchDirective' = a
        /\ phase' = "stamp" /\ result' = "none" /\ FanOutRests
        /\ UNCHANGED <<plan, orchBuf, answer>>
  /\ UNCHANGED <<budget, orchManifest, orchStore, synthStore, orchLedger, orchWorld,
                 orchPauses, history>>

-----------------------------------------------------------------------------
(* The orchestrator.                                                       *)

(* The drive moves from one step of the orchestrator to the next.          *)
To(from, to) ==
  /\ phase = from /\ phase' = to
  /\ UNCHANGED <<manifest, cardinality, marker, record, ledger, world, snapshots, local,
                 drives, result, orchManifest, synthStore, orchLedger, orchPauses,
                 orchDirective, answer>>

(* Under PROCEED the marker itself says that there is no stamp.            *)
Stamp ==
  /\ To("stamp", "mark") /\ instrumented' = (instrumented \/ Strict)
  /\ UNCHANGED <<budget, orchStore, orchWorld, plan, orchBuf, history>>

MarkOrchestrator ==
  /\ To("mark", "call") /\ orchMarker' = "set"
  /\ UNCHANGED <<instrumented, budget, orchRecord, orchOutput, orchWorld, plan, orchBuf,
                 history>>

(* The fence in front of the orchestrator, as in FanOut's Begin.  What it  *)
(* cannot tell pauses the run under a strict policy, and fails it else.    *)
CallOrchestrator ==
  /\ phase = "call" /\ dispatches < MaxDispatches
  /\ dispatches' = dispatches + 1
  /\ \/ /\ orchKind # "fenced"
        /\ To("call", "called") /\ UNCHANGED <<orchFence, plan>>
     \/ /\ orchKind = "fenced" /\ orchFence = "none"
        /\ To("call", "called") /\ orchFence' = "claimed" /\ UNCHANGED plan
     \/ /\ orchKind = "fenced" /\ orchFence = "claimed" /\ orchDirective = "re_fire"
        /\ To("call", "called") /\ orchFence' = "refired" /\ UNCHANGED plan
     \/ /\ orchKind = "fenced" /\ orchFence = "captured" /\ orchDirective # "abort"
        /\ To("call", "returned") /\ plan' = capture /\ UNCHANGED orchFence
  /\ UNCHANGED <<instrumented, budget, orchStore, capture, orchRuns, orchZombie, orchBuf,
                 synthRuns, plans, answers>>

(* The fence refuses, or the gate of the step asks for a pause: nothing of *)
(* the driver awaits that signal here.                                     *)
Unanswered ==
  /\ orchKind = "fenced"
  /\ \/ orchFence = "claimed" /\ orchDirective = "none"
     \/ orchFence = "refired" /\ orchDirective # "abort"

Refuses ==
  /\ phase = "call" /\ dispatches < MaxDispatches
  /\ \/ Unanswered /\ Strict /\ Protocol /\ OrchEnds("PAUSED") /\ held' = TRUE
     \/ /\ \/ Unanswered /\ ~(Strict /\ Protocol)
           \/ orchKind = "fenced" /\ orchFence # "none" /\ orchDirective = "abort"
        /\ OrchEnds("FAILED") /\ UNCHANGED held
     \/ OrchEnds("RAISED") /\ UNCHANGED held
  /\ dispatches' = dispatches + 1
  /\ UNCHANGED <<budget, orchManifest, orchStore, synthStore, orchLedger, orchWorld,
                 carried, synthRuns, plans, answers>>

OrchActs ==
  /\ To("called", "acted") /\ orchRuns' = orchRuns + 1
  /\ UNCHANGED <<instrumented, budget, orchStore, orchFence, capture, orchZombie, plan,
                 orchBuf, history>>

(* A fenced effect's output is captured before the dispatch returns.       *)
OrchReturns ==
  /\ To("acted", "returned") /\ plan' = dispatches
  /\ IF orchKind = "fenced" THEN orchFence' = "captured" /\ capture' = dispatches
     ELSE UNCHANGED <<orchFence, capture>>
  /\ UNCHANGED <<instrumented, budget, orchStore, orchRuns, orchZombie, orchBuf, history>>

(* The dispatch raises, or its deadline passes and the call goes on alone. *)
OrchFails ==
  /\ phase \in {"called", "acted"} /\ Fault
  /\ \/ UNCHANGED orchZombie
     \/ phase = "called" /\ orchZombie' = dispatches
  /\ OrchEnds("FAILED")
  /\ UNCHANGED <<orchManifest, orchStore, synthStore, orchLedger, orchFence, capture,
                 orchRuns, orchPauses, history>>

OrchZombieActs ==
  /\ orchZombie # 0 /\ orchZombie' = 0 /\ orchRuns' = orchRuns + 1
  /\ \/ orchKind = "fenced" /\ orchFence' = "captured" /\ capture' = orchZombie
     \/ UNCHANGED <<orchFence, capture>>
  /\ FanOutRests /\ UNCHANGED <<result, budget>>
  /\ UNCHANGED <<orchManifest, orchStore, synthStore, orchLedger, orchPauses, orchDrive,
                 history>>

(* The record is on disk before the entry is buffered and the workers are  *)
(* planned; all of them, whatever the store holds of them.                 *)
RecordOrchestrator ==
  /\ phase = "returned" /\ phase' = "workers"
  /\ orchRecord' = "set" /\ orchOutput' = plan /\ orchBuf' = TRUE
  /\ Prepare("fresh", All("planned"), All("absent"))
  /\ bufSteps' = {} /\ bufEnds' = All("none") /\ directive' = All("none")
  /\ pc' = "cardinality" /\ UNCHANGED result
  /\ UNCHANGED <<orchManifest, orchMarker, synthStore, orchLedger, orchWorld, orchPauses,
                 plan, orchDirective, answer, history>>

(* OSError of the stamp or the marker is a failing orchestrator; of the    *)
(* record, an exception that ends the drive.                               *)
OrchStoreFails ==
  /\ WriteFails
  /\ \/ /\ phase \in {"stamp", "mark"} /\ OrchEnds("FAILED")
        /\ \E m \in {orchMarker} \cup {x \in {"torn"} : phase = "mark"} : orchMarker' = m
        /\ UNCHANGED orchRecord
     \/ /\ phase = "returned" /\ OrchEnds("RAISED")
        /\ \E r \in {orchRecord, IF orchRecord = "absent" THEN "torn" ELSE orchRecord} :
             orchRecord' = r
        /\ UNCHANGED orchMarker
  /\ UNCHANGED <<orchManifest, orchOutput, synthStore, orchLedger, orchWorld, orchPauses,
                 history>>

-----------------------------------------------------------------------------
(* The workers: FanOut's steps, and what goes with some of them.           *)

(* A plan that is empty when it is made.                                   *)
EmptyPlan == At({"off"}) = Branches

OrchLaunch ==
  /\ Launch
  /\ plans' = IF At({"planned", "marked"}) = {} THEN plans ELSE plans \cup {plan}
  /\ UNCHANGED <<orchManifest, orchStore, synthStore, orchLedger, orchWorld, orchPauses,
                 orchDrive, dispatches, synthRuns, answers>>

(* A pause is captured before the drain, with the orchestrator's output;   *)
(* one that a crash lost is rebuilt after the drain.                       *)
OrchDecide ==
  /\ \/ ~EmptyPlan /\ Decide
     \/ /\ EmptyPlan /\ pc = "run"
        /\ verdict' = Status /\ pc' = "drain"
        /\ UNCHANGED <<manifest, store, ledger, world, snapshots, result, drives, budget,
                       origin, place, directive, fate, buffers, failed, struck>>
  /\ carried' = IF Status = "PAUSED" THEN carried \cup {plan} ELSE carried
  /\ UNCHANGED <<orchManifest, orchStore, synthStore, orchLedger, orchWorld, held,
                 orchDrive, history>>

(* The orchestrator's entry is drained before the workers'.                *)
DrainOrchestrator ==
  /\ pc = "drain" /\ orchBuf
  /\ orchEntry' = TRUE /\ orchBuf' = FALSE
  /\ UNCHANGED <<manifest, store, ledger, world, snapshots, local, drives, result, budget>>
  /\ UNCHANGED <<orchManifest, orchStore, synthStore, synthEntry, orchWorld, orchPauses,
                 phase, plan, orchDirective, answer, history>>

Rebuild ==
  /\ pc = "drain" /\ Buffered = {} /\ ~orchBuf
  /\ EmptyPlan /\ verdict = "PAUSED" /\ Snapshot \notin snapshots
  /\ snapshots' = snapshots \cup {Snapshot}
  /\ UNCHANGED <<manifest, store, ledger, world, local, drives, result, budget, orchVars>>

WorkersStep ==
  /\ \/ WriteCardinality \/ WriteInstrumented \/ Deadline
     \/ \E b \in Branches :
          \/ WriteScoped(b) \/ Mark(b) \/ Settle(b) \/ SettleFence(b) \/ Fill(b)
          \/ MarkFails(b) \/ SettleFails(b)
          \/ ~orchBuf /\ Drain(b)
  /\ UNCHANGED orchVars

ThreadsStep == Threads /\ UNCHANGED orchVars

-----------------------------------------------------------------------------
(* The synthesis, and the end of the drive.                                *)

Drained ==
  /\ phase = "workers" /\ pc = "drain" /\ Buffered = {} /\ ~orchBuf
  /\ verdict = "PAUSED" /\ EmptyPlan => Snapshot \in snapshots

(* The drive is over; its local state and FanOut's are gone.               *)
Ends(status) ==
  /\ result' = status /\ Reset /\ OrchReset
  /\ UNCHANGED <<manifest, store, ledger, world, snapshots, drives>>

Synthesises == synthesis /\ verdict = "SUCCESS"

Unreadable == synthRecord = "torn"

OrchReturn ==
  /\ \/ Drained /\ ~Synthesises
     \/ phase = "synthesised"
  /\ Ends(verdict)
  /\ answers' = IF phase = "synthesised" THEN answers \cup {answer} ELSE answers
  /\ UNCHANGED <<budget, orchManifest, orchStore, synthStore, orchLedger, orchWorld,
                 orchPauses, dispatches, synthRuns, plans>>

SynthesisStep(to) ==
  /\ phase' = to
  /\ UNCHANGED <<manifest, store, ledger, world, snapshots, local, drives, result, budget>>
  /\ UNCHANGED <<orchManifest, orchStore, orchEntry, orchWorld, orchPauses, plan,
                 orchDirective, orchBuf, dispatches, plans, answers>>

(* A captured synthesis is replayed; nothing is dispatched over it.        *)
Replay ==
  /\ Drained /\ Synthesises /\ synthRecord = "set"
  /\ SynthesisStep("captured")
  /\ answer' = synthOutput
  /\ UNCHANGED <<synthRuns, synthStore, synthEntry>>

(* Faulty variant: a synthesis is computed in every successful drive.      *)
SynthesiseAgain ==
  /\ Drained /\ Synthesises
  /\ SynthesisStep("composed")
  /\ synthRuns' = synthRuns + 1 /\ answer' = synthRuns + 1
  /\ UNCHANGED <<synthStore, synthEntry>>

Synthesise ==
  /\ Drained /\ Synthesises /\ synthRecord = "absent"
  /\ SynthesisStep("composed")
  /\ synthRuns' = synthRuns + 1 /\ answer' = synthRuns + 1
  /\ UNCHANGED <<synthStore, synthEntry>>

RecordSynthesis ==
  /\ phase = "composed"
  /\ SynthesisStep("captured")
  /\ synthRecord' = "set" /\ synthOutput' = answer
  /\ UNCHANGED <<synthRuns, answer, synthEntry>>

LogSynthesis ==
  /\ phase = "captured"
  /\ SynthesisStep("synthesised")
  /\ synthEntry' = TRUE
  /\ UNCHANGED <<synthRuns, answer, synthStore>>

(* Faulty variant: without a synthesis the workers' outputs are reported.  *)
SynthesisFailsSoftly ==
  /\ phase \in {"composed", "captured"} /\ Fault
  /\ Ends("SUCCESS")
  /\ UNCHANGED <<orchManifest, orchStore, synthStore, orchLedger, orchWorld, orchPauses,
                 history>>

(* The dispatch, the record or the ledger append fails, or what is         *)
(* captured cannot be read: the drive fails, the workers' entries stay.    *)
SynthesisFails ==
  /\ \/ phase \in {"composed", "captured"} /\ Fault /\ UNCHANGED synthRecord
     \/ phase = "composed" /\ WriteFails /\ synthRecord' = "torn"
     \/ /\ Drained /\ Synthesises /\ Unreadable
        /\ UNCHANGED <<budget, synthRecord>>
  /\ Ends("FAILED")
  /\ UNCHANGED <<orchManifest, orchStore, synthOutput, orchLedger, orchWorld, orchPauses,
                 history>>

(* A write of the store or the ledger that ends the drive's thread.        *)
OrchRaises ==
  /\ StoreRaises \/ (phase = "workers" /\ DrainRaises)
  /\ OrchReset
  /\ UNCHANGED <<orchManifest, orchStore, synthStore, orchLedger, orchWorld, orchPauses,
                 history>>

(* The process dies, with every thread.  A write under way may be torn; a  *)
(* torn marker hides the ones before it, a torn record does not.           *)
OrchCrash ==
  /\ \/ Crash
     \/ /\ pc = "idle" /\ (phase # "idle" \/ orchZombie # 0)
        /\ \A b \in Branches : zombies[b] = "none"
        /\ Fault /\ FanOutRests
        /\ result' = IF phase = "idle" THEN result ELSE "none"
  /\ OrchReset /\ orchZombie' = 0
  /\ \/ UNCHANGED <<orchMarker, orchRecord, synthRecord>>
     \/ /\ phase = "mark" /\ orchMarker' = "torn"
        /\ UNCHANGED <<orchRecord, synthRecord>>
     \/ /\ phase = "returned" /\ orchRecord = "absent" /\ orchRecord' = "torn"
        /\ UNCHANGED <<orchMarker, synthRecord>>
     \/ /\ phase = "composed" /\ synthRecord' = "torn"
        /\ UNCHANGED <<orchMarker, orchRecord>>
  /\ UNCHANGED <<orchManifest, orchOutput, synthOutput, orchLedger, orchFence, capture,
                 orchRuns, orchPauses, history>>

-----------------------------------------------------------------------------
OrchNext ==
  \/ OrchRefuse \/ OrchStart \/ Redrive \/ ResumeHeld
  \/ \E s \in snapshots : OrchResume(s)
  \/ Stamp \/ MarkOrchestrator \/ CallOrchestrator \/ Refuses
  \/ OrchActs \/ OrchReturns \/ OrchFails \/ OrchZombieActs
  \/ RecordOrchestrator \/ OrchStoreFails
  \/ WorkersStep \/ ThreadsStep \/ OrchLaunch \/ OrchDecide
  \/ DrainOrchestrator \/ Rebuild
  \/ Synthesise \/ Replay \/ RecordSynthesis \/ LogSynthesis \/ SynthesisFails
  \/ OrchReturn \/ OrchRaises \/ OrchCrash

OrchSpec == OrchInit /\ [][OrchNext]_<<vars, orchVars>>

-----------------------------------------------------------------------------
(* Properties.                                                             *)

(* The orchestrator's effect runs at most once, whatever crashes, fails    *)
(* late or is resumed: its marker, and for a tool its fence, keep a second *)
(* drive from dispatching it again.                                        *)
OrchestratorAtMostOnce == orchKind # "safe" => orchRuns <= 1

(* All workers of a run are dispatched under one output of the             *)
(* orchestrator: no drive mixes workers of two decompositions.             *)
OnePlan ==
  /\ Cardinality(plans) <= 1
  /\ phase = "workers" => plans \subseteq {plan}

(* All drives that report a synthesis report the same one, even if the     *)
(* first of them failed after it was computed, or died.                    *)
OneAnswer == Cardinality(answers) <= 1

(* A run that was reported a success has its orchestrator and its workers  *)
(* behind it, and the synthesis its manifest asks for in the store and the *)
(* ledger.                                                                 *)
OrchestratedSuccess ==
  result = "SUCCESS" =>
    /\ orchRecord = "set" /\ \A b \in Branches : runs[b] > 0
    /\ synthesis => synthRecord = "set" /\ synthEntry

=============================================================================
