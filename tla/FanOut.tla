------------------------------- MODULE FanOut -------------------------------
(***************************************************************************)
(* One PARALLELIZATION run: branches dispatched at once, driven again      *)
(* after a crash or from a snapshot.                                       *)
(*                                                                         *)
(*   harness_cp/workflow_driver.py          _execute_parallelization, the  *)
(*                                          crash gates, the barrier       *)
(*   lifecycle/engine_output_store.py       per-branch journals, markers   *)
(*                                                                         *)
(* The event loop of a drive is one thread; each branch has a thread of    *)
(* its own.  Ledger entries are buffered and drained when all branches     *)
(* have settled, so that between a dispatch and the drain the only durable *)
(* traces are the markers and records of the output store, and the claims  *)
(* of the effect fence (module EffectFence; here one state per branch).    *)
(* Drives of one run do not overlap, but a thread that the deadline cut    *)
(* off (a zombie) outlives its drive.                                      *)
(***************************************************************************)
EXTENDS Integers, FiniteSets

CONSTANTS
  NBranches,     (* len(steps)                                              *)
  Kinds,         (* step kinds to choose from: "safe" to run twice (INFER-  *)
                 (* ENCE, DECLARATIVE), "fenced" at its own sink (TOOL,     *)
                 (* MANAGED_AGENTS), "opaque" (a child without replay)      *)
  Policies,      (* cascade policies to choose from                         *)
  Dispositions,  (* fanout_timeout_disposition to choose from               *)
  Store,         (* ctx.engine_output_store is bound, engine class durable  *)
  Protocol,      (* ctx.pause_resume_protocol is bound                      *)
  StoreFails,    (* a write of the store may raise OSError                  *)
  MaxDrives,     (* bound: drives of the run                                *)
  MaxFaults      (* bound: crashes, failing branches and failing writes     *)

ASSUME FanOutAssumption ==
  /\ NBranches \in Nat \ {0}
  /\ Kinds \subseteq {"safe", "fenced", "opaque"}
  /\ Policies \subseteq {"proceed", "pause", "cascade-cancel"}
  /\ Dispositions \subseteq {"fail-closed", "re-dispatch", "recover-as-terminal"}
  /\ Store \in BOOLEAN /\ Protocol \in BOOLEAN /\ StoreFails \in BOOLEAN
  /\ MaxDrives \in Nat /\ MaxFaults \in Nat

Branches == 0 .. NBranches - 1

VARIABLES
  kind, policy, onTimeout,           (* the manifest                        *)
  cardinality, instrumented,         (* the store: markers of the run,      *)
  marker, record,                    (* and of each branch                  *)
  steps, ends,                       (* the state ledger's branch entries   *)
  fence,                             (* the claim of each fenced branch     *)
  snapshots,                         (* peer_fan_out_resume of the pauses   *)
  runs, zombies,                     (* effects; threads nobody waits for   *)
  pc, origin,                        (* the drive, and what it starts from  *)
  place, directive,                  (* of each of its branches             *)
  fate,                              (* terminal_dispositions, collected    *)
  bufSteps, bufEnds,                 (* the branches' buffered entries      *)
  failed, struck, verdict,           (* how the barrier ended               *)
  result,                            (* what the last drive returned        *)
  drives, faults,
  lost                               (* a write of the store has failed     *)

manifest == <<kind, policy, onTimeout>>
store == <<cardinality, instrumented, marker, record>>
ledger == <<steps, ends>>
world == <<fence, runs, zombies>>
buffers == <<bufSteps, bufEnds>>
local == <<pc, origin, place, directive, fate, buffers, failed, struck, verdict>>
budget == <<faults, lost>>
vars == <<manifest, store, ledger, world, snapshots, local, result, drives, budget>>

All(x) == [b \in Branches |-> x]

Init ==
  /\ kind \in [Branches -> Kinds] /\ policy \in Policies
  /\ onTimeout \in Dispositions
  /\ cardinality = "absent" /\ instrumented = FALSE
  /\ marker = All("absent") /\ record = All("absent")
  /\ steps = {} /\ ends = All("none")
  /\ fence = All("none") /\ snapshots = {}
  /\ runs = All(0) /\ zombies = All("none")
  /\ pc = "idle" /\ origin = "none" /\ place = All("off")
  /\ directive = All("none") /\ fate = All("absent")
  /\ bufSteps = {} /\ bufEnds = All("none")
  /\ failed = FALSE /\ struck = FALSE /\ verdict = "none"
  /\ result = "none" /\ drives = 0 /\ faults = 0 /\ lost = FALSE

-----------------------------------------------------------------------------
(* What a drive may conclude from the store.                               *)

(* PAUSE and CASCADE_CANCEL.                                               *)
Strict == policy # "proceed"

(* A branch is marked before it is dispatched.                             *)
Marks == Store /\ Strict

Readable == {b \in Branches : record[b] \notin {"absent", "torn"}}
TimedOut == {b \in Readable : record[b] = "timed_out"}

(* A journal is there but holds no valid line, or the cardinality is torn. *)
Corrupt == (\E b \in Branches : record[b] = "torn") \/ cardinality = "torn"

(* A branch the deadline cut may or may not have run; it may be run again  *)
(* only if its marker names a kind that is safe to run twice.              *)
TimeoutAmbiguous ==
  /\ TimedOut # {}
  /\ \/ onTimeout = "fail-closed"
     \/ /\ onTimeout = "re-dispatch"
        /\ \E b \in TimedOut : marker[b] # "set" \/ kind[b] # "safe"

Recovered == IF onTimeout = "re-dispatch" THEN Readable \ TimedOut ELSE Readable

(* Every branch that may have run without leaving a record is of a kind    *)
(* that may be run again: safe, or stopped by its fence.                   *)
Proven ==
  /\ instrumented
  /\ \A b \in Branches \ Recovered :
       marker[b] # "absent" => marker[b] = "set" /\ kind[b] # "opaque"

(* Faulty variant: a recorded failure does not stop the drive.             *)
RefusedLenient ==
  \/ Corrupt
  \/ TimeoutAmbiguous
  \/ /\ Strict /\ Recovered # Branches
     /\ Recovered # {} \/ cardinality = "set"
     /\ ~Proven

(* The crash gates: the drive fails before it dispatches anything.         *)
Refused ==
  \/ Corrupt
  \/ TimeoutAmbiguous
  \/ /\ policy = "cascade-cancel"
     /\ \E b \in Recovered : record[b] # "output"
  \/ /\ Strict /\ Recovered # Branches
     /\ Recovered # {} \/ cardinality = "set"
     /\ ~Proven

(* A branch had failed under PAUSE: the drive only rebuilds the snapshot.  *)
(* The snapshot also lists the fenced branches that may have run, with an  *)
(* empty fence key: no answer can be given for it, so that a resume treats *)
(* such a branch like one the snapshot leaves out, and the model does so.  *)
Reconstruct ==
  /\ policy = "pause" /\ Recovered # Branches
  /\ \E b \in Recovered : record[b] = "error"

-----------------------------------------------------------------------------
(* Steps of the drive.                                                     *)

KeepLocal == UNCHANGED local
Untouched == UNCHANGED <<manifest, snapshots, result, drives>>
Fault == faults < MaxFaults /\ faults' = faults + 1 /\ UNCHANGED lost

(* OSError of a write.  Bound: one in a behaviour.                         *)
WriteFails ==
  /\ StoreFails /\ ~lost /\ faults < MaxFaults
  /\ lost' = TRUE /\ faults' = faults + 1

(* The drive is over; its local state is gone.                             *)
Reset ==
  /\ pc' = "idle" /\ origin' = "none" /\ place' = All("off")
  /\ directive' = All("none") /\ fate' = All("absent")
  /\ bufSteps' = {} /\ bufEnds' = All("none")
  /\ failed' = FALSE /\ struck' = FALSE /\ verdict' = "none"

(* The smallest branch in S.                                               *)
Least(b, S) == b \in S /\ \A c \in S : b <= c

At(S) == {b \in Branches : place[b] \in S}

Prepare(from, at, fates) ==
  /\ pc = "idle" /\ drives < MaxDrives
  /\ drives' = drives + 1
  /\ origin' = from /\ place' = at /\ fate' = fates
  /\ UNCHANGED <<manifest, store, ledger, world, snapshots, budget,
                 failed, struck, verdict>>

(* A drive that a crash gate stops.                                        *)
Refuse ==
  /\ pc = "idle" /\ drives < MaxDrives
  /\ Store /\ Refused
  /\ drives' = drives + 1 /\ result' = "FAILED"
  /\ UNCHANGED <<manifest, store, ledger, world, snapshots, local, budget>>

(* A first drive, or one after a crash: the recovered branches' ledger     *)
(* entries are buffered again, the others are dispatched.                  *)
Drive ==
  LET known == IF Store THEN Recovered ELSE {}
  IN /\ Store => ~Refused
     /\ Prepare(IF known = {} THEN "fresh" ELSE "crash",
                [b \in Branches |->
                   IF b \in known \/ (Store /\ Reconstruct) THEN "off" ELSE "planned"],
                [b \in Branches |-> IF b \in known THEN record[b] ELSE "absent"])
     /\ bufSteps' = known
     /\ bufEnds' = [b \in Branches |-> IF b \in known THEN "completed" ELSE "none"]
     /\ pc' = IF Store /\ known = {} THEN "cardinality" ELSE "mark"
     /\ directive' = All("none") /\ result' = "none"

(* The operator's answer to a branch whose fence could not tell whether    *)
(* its effect ran.  The operator is honest (module EffectFence), and while *)
(* a thread may still run the effect gives neither answer.                 *)
Answers(b) ==
  {"none", "abort", "abort_branch"}
  \cup {a \in {"re_fire"} : runs[b] = 0 /\ zombies[b] = "none"}
  \cup {a \in {"skip_as_fired"} : runs[b] > 0}

(* A drive that resumes a snapshot does not look into the store: what the  *)
(* snapshot does not name is dispatched, but for ABORT_BRANCH.  One ABORT  *)
(* silences the other answers.                                             *)
Resume(s) ==
  \E answer \in {a \in [Branches -> {"none"} \cup UNION {Answers(b) : b \in Branches}] :
                   \A b \in Branches :
                     a[b] \in IF s[b] = "held" THEN Answers(b) ELSE {"none"}} :
    /\ Prepare("snapshot",
               [b \in Branches |-> IF answer[b] = "abort_branch" THEN "scope"
                                   ELSE IF s[b] \in {"absent", "held"} THEN "planned"
                                   ELSE "off"],
               [b \in Branches |-> IF s[b] = "held" THEN "absent" ELSE s[b]])
    /\ directive' = [b \in Branches |->
         IF answer[b] = "abort_branch"
            \/ (answer[b] # "abort" /\ \E c \in Branches : answer[c] = "abort")
         THEN "none" ELSE answer[b]]
    /\ pc' = "mark" /\ result' = "none"
    /\ UNCHANGED buffers

-----------------------------------------------------------------------------
(* Before the dispatch.                                                    *)

WriteCardinality ==
  /\ pc = "cardinality"
  /\ cardinality' = "set"
  /\ pc' = IF Strict THEN "instrument" ELSE "mark"
  /\ Untouched
  /\ UNCHANGED <<instrumented, marker, record, ledger, world, budget, origin, place,
                 directive, fate, buffers, failed, struck, verdict>>

WriteInstrumented ==
  /\ pc = "instrument"
  /\ instrumented' = TRUE
  /\ pc' = "mark"
  /\ Untouched
  /\ UNCHANGED <<cardinality, marker, record, ledger, world, budget, origin, place,
                 directive, fate, buffers, failed, struck, verdict>>

(* A branch the operator gave up is terminal before anything is sent.      *)
WriteScoped(b) ==
  /\ pc = "mark" /\ Least(b, At({"scope"}))
  /\ record' = IF Store THEN [record EXCEPT ![b] = "scoped"] ELSE record
  /\ place' = [place EXCEPT ![b] = "scoped"]
  /\ fate' = [fate EXCEPT ![b] = "error"]
  /\ bufEnds' = [bufEnds EXCEPT ![b] = "completed"]
  /\ Untouched
  /\ UNCHANGED <<cardinality, instrumented, marker, ledger, world, budget, pc, origin,
                 directive, bufSteps, failed, struck, verdict>>

(* The tasks of the barrier run up to their first await in index order:    *)
(* every marker is on disk before the first thread starts.                 *)
Mark(b) ==
  /\ pc = "mark" /\ Marks /\ At({"scope"}) = {} /\ Least(b, At({"planned"}))
  /\ marker' = [marker EXCEPT ![b] = "set"]
  /\ place' = [place EXCEPT ![b] = "marked"]
  /\ Untouched
  /\ UNCHANGED <<cardinality, instrumented, record, ledger, world, budget, pc, origin,
                 directive, fate, buffers, failed, struck, verdict>>

(* OSError of the marker: the task fails, its siblings still go out.       *)
MarkFails(b) ==
  /\ pc = "mark" /\ Marks /\ At({"scope"}) = {} /\ Least(b, At({"planned"}))
  /\ WriteFails
  /\ \E m \in {marker[b], "torn"} : marker' = [marker EXCEPT ![b] = m]
  /\ place' = [place EXCEPT ![b] = "unmarked"]
  /\ failed' = TRUE
  /\ Untouched
  /\ UNCHANGED <<cardinality, instrumented, record, ledger, world, pc, origin,
                 directive, fate, buffers, struck, verdict>>

(* Faulty variant: a thread starts while its siblings are being marked.    *)
LaunchEarly ==
  /\ pc = "mark" /\ At({"scope"}) = {}
  /\ place' = [b \in Branches |->
       IF place[b] \in {"planned", "marked"} THEN "flying" ELSE place[b]]
  /\ pc' = "run"
  /\ Untouched
  /\ UNCHANGED <<store, ledger, world, budget, origin, directive, fate, buffers,
                 failed, struck, verdict>>

Launch ==
  /\ pc = "mark" /\ At({"scope"}) = {} /\ (Marks => At({"planned"}) = {})
  /\ place' = [b \in Branches |->
       IF place[b] \in {"planned", "marked"} THEN "flying" ELSE place[b]]
  /\ pc' = "run"
  /\ Untouched
  /\ UNCHANGED <<store, ledger, world, budget, origin, directive, fate, buffers,
                 failed, struck, verdict>>

-----------------------------------------------------------------------------
(* The threads.                                                            *)

Thread(b, to) ==
  /\ place' = [place EXCEPT ![b] = to]
  /\ Untouched
  /\ UNCHANGED <<store, ledger, pc, origin, directive, fate, buffers, failed, struck,
                 verdict>>

(* The fence in front of a fenced branch: the first dispatch reserves the  *)
(* claim; a later one follows the operator's answer, returns the captured  *)
(* output, or cannot tell.  RE_FIRE works once per claim.                  *)
Begin(b) ==
  /\ place[b] = "flying"
  /\ \/ /\ kind[b] # "fenced"
        /\ Thread(b, "called") /\ UNCHANGED fence
     \/ /\ kind[b] = "fenced" /\ fence[b] = "none"
        /\ Thread(b, "called") /\ fence' = [fence EXCEPT ![b] = "claimed"]
     \/ /\ kind[b] = "fenced" /\ fence[b] = "claimed" /\ directive[b] = "re_fire"
        /\ Thread(b, "called") /\ fence' = [fence EXCEPT ![b] = "refired"]
     \/ /\ kind[b] = "fenced" /\ fence[b] # "none" /\ directive[b] = "skip_as_fired"
        /\ Thread(b, "output") /\ UNCHANGED fence
     \/ /\ kind[b] = "fenced" /\ fence[b] # "none" /\ directive[b] = "abort"
        /\ Thread(b, "abort") /\ UNCHANGED fence
     \/ /\ kind[b] = "fenced" /\ fence[b] = "captured"
        /\ directive[b] \in {"none", "re_fire"}
        /\ Thread(b, "output") /\ UNCHANGED fence
     \/ /\ kind[b] = "fenced"
        /\ \/ fence[b] = "claimed" /\ directive[b] = "none"
           \/ fence[b] = "refired" /\ directive[b] \in {"none", "re_fire"}
        /\ Thread(b, "ambiguous") /\ UNCHANGED fence
  /\ UNCHANGED <<runs, zombies, budget>>

Effect(b) ==
  /\ place[b] = "called"
  /\ runs' = [runs EXCEPT ![b] = @ + 1]
  /\ Thread(b, "acted")
  /\ UNCHANGED <<fence, zombies, budget>>

(* A fenced effect's output is captured before the dispatch returns.       *)
ThreadReturns(b) ==
  /\ place[b] = "acted"
  /\ fence' = IF kind[b] = "fenced" THEN [fence EXCEPT ![b] = "captured"] ELSE fence
  /\ Thread(b, "output")
  /\ UNCHANGED <<runs, zombies, budget>>

ThreadFails(b) ==
  /\ place[b] \in {"called", "acted"}
  /\ Thread(b, "error") /\ Fault
  /\ UNCHANGED world

(* Threads whose drive no longer waits for them.                           *)
ZombieActs(b) ==
  /\ zombies[b] = "called"
  /\ zombies' = [zombies EXCEPT ![b] = "acted"]
  /\ runs' = [runs EXCEPT ![b] = @ + 1]
  /\ Untouched /\ KeepLocal
  /\ UNCHANGED <<store, ledger, fence, budget>>

ZombieEnds(b) ==
  /\ zombies[b] # "none"
  /\ zombies' = [zombies EXCEPT ![b] = "none"]
  /\ \/ zombies[b] = "acted" /\ kind[b] = "fenced"
        /\ fence' = [fence EXCEPT ![b] = "captured"]
     \/ UNCHANGED fence
  /\ Untouched /\ KeepLocal
  /\ UNCHANGED <<store, ledger, runs, budget>>

-----------------------------------------------------------------------------
(* The barrier: each finished branch settles in one step of the loop.      *)

(* What the record of a branch says of how its thread ended.  A fence that *)
(* cannot tell, or that the operator closed, is an error under PROCEED.    *)
Disposition(b) ==
  CASE place[b] = "output" -> "output"
    [] place[b] = "cut" -> "timed_out"
    [] OTHER -> "error"

(* The terminal_status of the ledger entry knows no outputs and no errors. *)
End(d) == IF d = "timed_out" THEN "timed_out" ELSE "completed"

(* Faulty variant: the record is left to the drain.                        *)
SettleUnrecorded(b) ==
  /\ pc = "run"
  /\ \/ place[b] \in {"output", "error", "cut"}
     \/ ~Strict /\ place[b] \in {"ambiguous", "abort"}
  /\ UNCHANGED record
  /\ fate' = [fate EXCEPT ![b] = Disposition(b)]
  /\ place' = [place EXCEPT ![b] = "done"]
  /\ bufSteps' = bufSteps \cup {b}
  /\ bufEnds' = [bufEnds EXCEPT ![b] = End(Disposition(b))]
  /\ failed' = (failed \/ (Disposition(b) = "error" /\ ~struck))
  /\ Untouched
  /\ UNCHANGED <<cardinality, instrumented, marker, ledger, world, budget, pc, origin,
                 directive, struck, verdict>>

(* Output, error or cut: the record is on disk before the branch counts.   *)
(* The first failure cancels the siblings, but a sibling is awaited and    *)
(* settles like the others; once the deadline struck nothing else fails.   *)
Settle(b) ==
  /\ pc = "run"
  /\ \/ place[b] \in {"output", "error", "cut"}
     \/ ~Strict /\ place[b] \in {"ambiguous", "abort"}
  /\ record' = IF Store THEN [record EXCEPT ![b] = Disposition(b)] ELSE record
  /\ fate' = [fate EXCEPT ![b] = Disposition(b)]
  /\ place' = [place EXCEPT ![b] = "done"]
  /\ bufSteps' = bufSteps \cup {b}
  /\ bufEnds' = [bufEnds EXCEPT ![b] = End(Disposition(b))]
  /\ failed' = (failed \/ (Disposition(b) = "error" /\ ~struck))
  /\ Untouched
  /\ UNCHANGED <<cardinality, instrumented, marker, ledger, world, budget, pc, origin,
                 directive, struck, verdict>>

(* Under a strict policy the fence's verdicts are no terminal disposition. *)
SettleFence(b) ==
  /\ pc = "run" /\ Strict /\ place[b] \in {"ambiguous", "abort"}
  /\ place' = [place EXCEPT ![b] = IF @ = "abort" THEN "aborted" ELSE "held"]
  /\ failed' = (failed \/ ~struck)
  /\ Untouched
  /\ UNCHANGED <<store, ledger, world, budget, pc, origin, directive, fate, buffers,
                 struck, verdict>>

(* OSError of the record.  What is buffered by then depends on the path:   *)
(* a cancelled or cut branch has buffered both entries, one that returned  *)
(* its step entry, and one that raised under a strict policy none.         *)
SettleFails(b) ==
  /\ pc = "run" /\ Store /\ WriteFails
  /\ \/ place[b] \in {"output", "error", "cut"}
     \/ ~Strict /\ place[b] \in {"ambiguous", "abort"}
  /\ \E r \in {record[b], IF record[b] = "absent" THEN "torn" ELSE record[b]} :
       record' = [record EXCEPT ![b] = r]
  /\ \E cancelled \in BOOLEAN :
       /\ cancelled => Strict /\ (failed \/ struck)
       /\ place[b] = "cut" /\ Strict => cancelled
       /\ bufSteps' = IF Strict /\ place[b] = "error" /\ ~cancelled
                      THEN bufSteps ELSE bufSteps \cup {b}
       /\ bufEnds' = IF cancelled
                     THEN [bufEnds EXCEPT ![b] = End(Disposition(b))] ELSE bufEnds
       /\ fate' = IF ~cancelled THEN fate
                  ELSE [fate EXCEPT ![b] =
                          IF place[b] = "cut" THEN "timed_out" ELSE "error"]
  /\ place' = [place EXCEPT ![b] = "done"]
  /\ failed' = TRUE
  /\ Untouched
  /\ UNCHANGED <<cardinality, instrumented, marker, ledger, world, pc, origin, directive,
                 struck, verdict>>

(* Faulty variant: the barrier waits for threads that never return.        *)
DeadlineNever == FALSE /\ UNCHANGED vars

(* The barrier deadline: dispatches that have not returned are abandoned,  *)
(* under PROCEED every unsettled one; their threads go on.  Threads start  *)
(* at once: by the deadline each has passed its fence.                     *)
Deadline ==
  /\ pc = "run" /\ ~struck
  /\ At({"flying"}) = {} /\ At({"called", "acted"}) # {}
  /\ struck' = TRUE
  /\ place' = [b \in Branches |->
       IF \/ place[b] \in {"called", "acted"}
          \/ ~Strict /\ place[b] \in {"output", "error", "ambiguous", "abort"}
       THEN "cut" ELSE place[b]]
  /\ zombies' = [b \in Branches |->
       IF place[b] \in {"called", "acted"} THEN place[b] ELSE zombies[b]]
  /\ Untouched
  /\ UNCHANGED <<store, ledger, fence, runs, budget, pc, origin, directive, fate, buffers,
                 failed, verdict>>

-----------------------------------------------------------------------------
(* After the barrier.                                                      *)

Settled == At({"off", "done", "held", "aborted", "unmarked", "scoped"}) = Branches
Aborted == At({"aborted"}) # {}

(* Branches of the plan that buffered nothing; CASCADE_CANCEL gives each   *)
(* of them a terminal entry.                                               *)
Unfilled ==
  IF policy = "cascade-cancel" /\ ~Aborted
  THEN {b \in Branches : place[b] # "off" /\ b \notin bufSteps /\ bufEnds[b] = "none"}
  ELSE {}

(* A branch its fence held is terminal there: its effect may have run.     *)
Fill(b) ==
  /\ pc = "run" /\ Settled /\ Least(b, Unfilled)
  /\ record' = IF Store /\ place[b] = "held"
               THEN [record EXCEPT ![b] = "error"] ELSE record
  /\ bufEnds' = [bufEnds EXCEPT ![b] =
       IF place[b] = "held" THEN "completed" ELSE "cancelled"]
  /\ Untouched
  /\ UNCHANGED <<cardinality, instrumented, marker, ledger, world, budget, pc, origin,
                 place, directive, fate, bufSteps, failed, struck, verdict>>

GivenUp == {b \in Branches : fate[b] = "scoped" \/ place[b] = "scoped"}
NoOutput == {b \in Branches : fate[b] \notin {"absent", "output"}}

(* _crash_pause_reestablish: nothing was dispatched, a failure is known.   *)
Reestablish ==
  /\ origin = "crash" /\ At({"off"}) = Branches
  /\ \E b \in Branches : fate[b] = "error"

(* Faulty variant: recovered branches without output do not count.         *)
StatusForgetful ==
  CASE policy = "proceed" -> IF failed \/ struck THEN "PARTIAL" ELSE "SUCCESS"
    [] policy # "proceed" /\ Aborted -> "FAILED"
    [] policy = "cascade-cancel" /\ ~Aborted ->
         IF failed \/ struck THEN "FAILED" ELSE "SUCCESS"
    [] policy = "pause" /\ ~Aborted ->
         IF ~failed /\ struck THEN "FAILED"
         ELSE IF failed \/ Reestablish THEN IF Protocol THEN "PAUSED" ELSE "FAILED"
         ELSE "SUCCESS"

(* The verdict of each policy; a success that recovered a branch without   *)
(* an output is only a partial one.                                        *)
Status ==
  CASE policy = "proceed" ->
         IF failed \/ struck \/ NoOutput # {} THEN "PARTIAL" ELSE "SUCCESS"
    [] policy # "proceed" /\ Aborted -> "FAILED"
    [] policy = "cascade-cancel" /\ ~Aborted ->
         IF failed \/ struck \/ GivenUp # {} THEN "FAILED"
         ELSE IF NoOutput # {} THEN "PARTIAL" ELSE "SUCCESS"
    [] policy = "pause" /\ ~Aborted ->
         IF ~failed /\ struck THEN "FAILED"
         ELSE IF failed \/ Reestablish THEN IF Protocol THEN "PAUSED" ELSE "FAILED"
         ELSE IF GivenUp # {} /\ \A b \in Branches : fate[b] # "output" THEN "FAILED"
         ELSE IF NoOutput # {} THEN "PARTIAL" ELSE "SUCCESS"

(* peer_fan_out_resume: the terminal branches, those their fence holds,    *)
(* and nothing of the others.                                              *)
Snapshot ==
  [b \in Branches |-> IF place[b] = "held" THEN "held" ELSE fate[b]]

(* A pause is captured before the buffers are drained.                     *)
Decide ==
  /\ pc = "run" /\ Settled /\ Unfilled = {}
  /\ verdict' = Status /\ pc' = "drain"
  /\ snapshots' = IF Status = "PAUSED" THEN snapshots \cup {Snapshot} ELSE snapshots
  /\ UNCHANGED <<manifest, store, ledger, world, result, drives, budget, origin, place,
                 directive, fate, buffers, failed, struck>>

Buffered == {b \in Branches : b \in bufSteps \/ bufEnds[b] # "none"}

(* drain_branch_buffers: in branch order, the step entry first; the ledger *)
(* keeps the first terminal entry of a branch (one key for every status).  *)
Drain(b) ==
  /\ pc = "drain" /\ Least(b, Buffered)
  /\ IF b \in bufSteps
     THEN /\ steps' = steps \cup {b} /\ bufSteps' = bufSteps \ {b}
          /\ UNCHANGED <<ends, bufEnds>>
     ELSE /\ ends' = [ends EXCEPT ![b] = IF @ = "none" THEN bufEnds[b] ELSE @]
          /\ bufEnds' = [bufEnds EXCEPT ![b] = "none"]
          /\ UNCHANGED <<steps, bufSteps>>
  /\ Untouched
  /\ UNCHANGED <<store, world, budget, pc, origin, place, directive, fate, failed, struck,
                 verdict>>

Return ==
  /\ pc = "drain" /\ Buffered = {}
  /\ result' = verdict /\ Reset
  /\ UNCHANGED <<manifest, store, ledger, world, snapshots, drives, budget>>

(* execute_workflow ends with an exception.                                *)
Raise ==
  /\ Reset /\ result' = "RAISED"
  /\ UNCHANGED <<manifest, store, ledger, world, snapshots, drives>>

(* A failing write of the store outside of the branch tasks.               *)
StoreRaises ==
  /\ \/ pc \in {"cardinality", "instrument"}
     \/ Store /\ pc = "mark" /\ At({"scope"}) # {}
     \/ Store /\ pc = "run" /\ Settled /\ \E b \in At({"held"}) : Least(b, Unfilled)
  /\ WriteFails /\ Raise

(* A ledger append that fails: the rest of the buffers is lost.            *)
DrainRaises == pc = "drain" /\ Buffered # {} /\ Fault /\ Raise

(* The records a crash may find half written.                              *)
BeingRecorded ==
  {b \in Branches :
     /\ record[b] = "absent" /\ Store
     /\ \/ pc = "mark" /\ place[b] = "scope"
        \/ pc = "run" /\ place[b] \in {"output", "error", "cut", "ambiguous", "abort"}
        \/ pc = "run" /\ Settled /\ b \in Unfilled /\ place[b] = "held"}

(* The process dies, with every thread.  A write under way may be torn:    *)
(* file contents and directory entries are synced before a write returns.  *)
Crash ==
  /\ pc # "idle" \/ \E b \in Branches : zombies[b] # "none"
  /\ Fault /\ Reset
  /\ result' = IF pc = "idle" THEN result ELSE "none"
  /\ zombies' = All("none")
  /\ \E torn \in {{}} \cup {{b} : b \in BeingRecorded} :
       record' = [b \in Branches |-> IF b \in torn THEN "torn" ELSE record[b]]
  /\ \/ UNCHANGED <<cardinality, marker>>
     \/ /\ pc = "cardinality" /\ cardinality = "absent"
        /\ cardinality' = "torn" /\ UNCHANGED marker
     \/ /\ pc = "mark" /\ Marks /\ UNCHANGED cardinality
        /\ At({"scope"}) = {}
        /\ \E b \in Branches :
             /\ Least(b, At({"planned"}))
             /\ marker' = [marker EXCEPT ![b] = "torn"]
  /\ \/ UNCHANGED instrumented
     \/ pc = "instrument" /\ instrumented' = TRUE
  /\ UNCHANGED <<manifest, ledger, fence, runs, snapshots, drives>>

-----------------------------------------------------------------------------
Loop ==
  \/ WriteCardinality \/ WriteInstrumented \/ Launch \/ Decide \/ Return
  \/ \E b \in Branches :
       WriteScoped(b) \/ Mark(b) \/ Settle(b) \/ SettleFence(b) \/ Fill(b) \/ Drain(b)

Threads ==
  \E b \in Branches :
    \/ Begin(b) \/ Effect(b) \/ ThreadReturns(b) \/ ThreadFails(b)
    \/ ZombieActs(b) \/ ZombieEnds(b)

Faulty ==
  \/ Crash \/ StoreRaises \/ DrainRaises
  \/ \E b \in Branches : MarkFails(b) \/ SettleFails(b)

Next ==
  \/ Refuse \/ Drive \/ \E s \in snapshots : Resume(s)
  \/ Loop \/ Threads \/ Deadline \/ Faulty

Spec == Init /\ [][Next]_vars

(* The loop runs, threads start, and the deadline is armed: while one of   *)
(* them has something to do, one of them does it.  What a thread does      *)
(* after its fence may hang.                                               *)
Fairness == WF_vars(Loop \/ (\E b \in Branches : Begin(b)) \/ Deadline)

FairSpec == Spec /\ Fairness

-----------------------------------------------------------------------------
(* Properties.                                                             *)

Fates == {"absent", "output", "error", "timed_out", "scoped"}
Endings == {"none", "completed", "timed_out", "cancelled"}
Places ==
  {"off", "planned", "scope", "scoped", "marked", "unmarked", "flying", "called", "acted",
   "output", "error", "ambiguous", "abort", "cut", "done", "held", "aborted"}

ManifestOK ==
  kind \in [Branches -> Kinds] /\ policy \in Policies /\ onTimeout \in Dispositions

StoreOK ==
  /\ cardinality \in {"absent", "torn", "set"} /\ instrumented \in BOOLEAN
  /\ marker \in [Branches -> {"absent", "torn", "set"}]
  /\ record \in [Branches -> Fates \cup {"torn"}]

LedgerOK ==
  /\ steps \subseteq Branches /\ ends \in [Branches -> Endings]
  /\ snapshots \subseteq [Branches -> Fates \cup {"held"}]

WorldOK ==
  /\ fence \in [Branches -> {"none", "claimed", "refired", "captured"}]
  /\ runs \in [Branches -> Nat]
  /\ zombies \in [Branches -> {"none", "called", "acted"}]

PlanOK ==
  /\ pc \in {"idle", "cardinality", "instrument", "mark", "run", "drain"}
  /\ origin \in {"none", "fresh", "crash", "snapshot"}
  /\ place \in [Branches -> Places]
  /\ directive \in [Branches -> {"none", "re_fire", "skip_as_fired", "abort"}]
  /\ fate \in [Branches -> Fates]

OutcomeOK ==
  /\ bufSteps \subseteq Branches /\ bufEnds \in [Branches -> Endings]
  /\ failed \in BOOLEAN /\ struck \in BOOLEAN
  /\ verdict \in {"none", "SUCCESS", "PARTIAL", "FAILED", "PAUSED"}
  /\ result \in {"none", "SUCCESS", "PARTIAL", "FAILED", "PAUSED", "RAISED"}

BudgetOK ==
  drives \in 0 .. MaxDrives /\ faults \in 0 .. MaxFaults /\ lost \in BOOLEAN

(* Every variable has its type.                                            *)
TypeOK ==
  /\ ManifestOK /\ StoreOK /\ LedgerOK /\ WorldOK /\ PlanOK /\ OutcomeOK /\ BudgetOK

(* Crashes, re-drives, snapshots resumed twice and threads that outlive    *)
(* their drive together never run a branch's effect twice: a fence stops   *)
(* the second run, or the marker written before the dispatch does.         *)
EffectAtMostOnce ==
  \A b \in Branches :
    kind[b] = "fenced" \/ (kind[b] = "opaque" /\ Marks /\ ~lost) => runs[b] <= 1

(* A branch the ledger or a snapshot calls ended has a record in the       *)
(* store: a crash re-drive, which reads only the store, never dispatches   *)
(* it again.                                                               *)
StoreCoversLedger ==
  Store /\ ~lost =>
    \A b \in Branches :
             \/ ends[b] \in {"completed", "timed_out"}
             \/ \E s \in snapshots : s[b] \notin {"absent", "held"}
             => b \in Readable

(* Under CASCADE_CANCEL a recorded failure is final: no re-drive reports   *)
(* anything but a failure afterwards.                                      *)
FailureSticks ==
  policy = "cascade-cancel" /\ Store /\ (\E b \in Branches : record[b] = "error")
    => result \notin {"SUCCESS", "PARTIAL", "PAUSED"}

(* A drive that is about to report success holds an output of every        *)
(* branch, its own or a recovered one, and a run that was reported a       *)
(* success has had every branch's effect.                                  *)
SuccessIsWhole ==
  /\ verdict = "SUCCESS" => \A b \in Branches : fate[b] = "output"
  /\ result = "SUCCESS" => \A b \in Branches : runs[b] > 0

(* To whoever started the run it is one of FanOutRun, however its drives,  *)
(* crashes, pauses and abandoned threads interleave.                       *)
GuardedOnce ==
  {b \in Branches : kind[b] = "fenced" \/ (kind[b] = "opaque" /\ Marks /\ ~lost)}

FinalFailure ==
  policy = "cascade-cancel" /\ Store /\ \E b \in Branches : record[b] = "error"

Promise == INSTANCE FanOutRun WITH
  once <- GuardedOnce,
  ran <- runs,
  sound <- (Store /\ ~lost),
  kept <- Readable,
  entries <- ends,
  failure <- FinalFailure,
  resumable <- (snapshots # {}),
  outcome <- result

ImplementsFanOutRun == Promise!Spec

(* Every drive returns, even if no dispatch ever does.                     *)
DriveReturns == pc # "idle" ~> pc = "idle"
=============================================================================
