------------------------------ MODULE HitlGate ------------------------------
(***************************************************************************)
(* The human gate around the steps of a linear run, and the pauses that it *)
(* asks for (harness_runtime/lifecycle: hitl_gate_composer.py,             *)
(* resume_context_holder.py, webhook_delivery_composer.py; harness_cp:     *)
(* gate_level_rule.py, persona_engine_hitl_matrix.py and the pauses of     *)
(* workflow_driver.py).                                                    *)
(*                                                                         *)
(* A drive is one call of the driver: the first run, or a resume of the    *)
(* last snapshot with what the operator has answered since.  Its driver    *)
(* waits, no longer than the facade's timeout, for the coroutine that      *)
(* dispatches the current step through the gate; when it stops waiting the *)
(* coroutine goes on.  The gate is outside the retries of a tool, and      *)
(* inside those of an inference: there every attempt passes it again.      *)
(***************************************************************************)
EXTENDS Integers, FiniteSetsExt, Functions

CONSTANTS
  MaxDrives,     (* bound: calls of the driver                              *)
  None,          (* no answer                                               *)
  Setups,        (* manifests and configurations, as below                  *)
  MaxAttempts,   (* attempts at a step, over the candidates of an inference *)
  Reused         (* the drives are the runs of one daemon, in one context,  *)
                 (* and not a run and its resumes, each in its own          *)

Drives == 1 .. MaxDrives
Answers == {"approve", "edit", "undecodable", "reject", "respond"}
GateLevels == {"auto", "ask", "deny"}

ASSUME BoundsAssumption ==
  /\ MaxDrives \in Nat \ {0} /\ MaxAttempts \in Nat \ {0}
  /\ Reused \in BOOLEAN /\ None \notin Answers

(* persona and engine select a cell of the matrix; bound: a pause protocol *)
(* and a webhook are configured; auto: the operator's policy, the floors   *)
(* it lowers; removed: the gates of sub-agents are removed.  placed: the   *)
(* workflow or the step's override puts a gate here.                       *)
ASSUME SetupsAssumption ==
  \A c \in Setups :
    /\ c.persona \in {"solo", "team", "compliance"}
    /\ c.engine \in {"replay", "save-point", "pure", "reconciler", "wal"}
    /\ c.bound \in BOOLEAN /\ c.removed \in BOOLEAN
    /\ c.auto \subseteq {"persona", "local"}
    /\ c.size \in Nat \ {0}
    /\ c.step \in [1 .. c.size ->
         [kind : {"inference", "tool", "sub-agent"}, placed : BOOLEAN,
          level : GateLevels, blast : {"read", "local", "external"},
          trust : {"refuse", "pinned", "sandbox", "allow"}]]

VARIABLES
  setup,     (* what this run is configured to do                           *)
  drv,       (* [Drives -> the driver]                                      *)
  pc,        (* [Drives -> the coroutine of its current step]               *)
  at,        (* [Drives -> the current step]                                *)
  holder,    (* [Drives -> the resume context of its context]               *)
  flag,      (* [Drives -> pause_requested_flag of its context]             *)
  attempt,   (* [Drives -> the attempt at the step]                         *)
  edit,      (* [Drives -> the step the edited payload was given for, or 0] *)
  last,      (* [Drives -> the answer that let this attempt through]        *)
  snap,      (* the step the last snapshot pauses at, or 0                  *)
  told,      (* [Drives -> the step the webhook has asked about, or 0]      *)
  refused,   (* [Drives -> the operator has rejected a step]                *)
  granted,   (* [steps -> audit entries that let the step through]          *)
  execs      (* [steps -> times it was handed to the dispatcher inside]     *)

vars == <<setup, drv, pc, at, holder, flag, attempt, edit, last, snap, told,
          refused, granted, execs>>
local == <<attempt, edit, last>>

Live == {"gate", "asked", "webhook", "inner", "sleep"}
Over == {"paused", "failed", "done"}

Init ==
  /\ setup \in Setups
  /\ drv = [d \in Drives |-> "new"]
  /\ pc = [d \in Drives |-> "none"]
  /\ at = [d \in Drives |-> 0]
  /\ holder = [d \in Drives |-> [answer |-> None, for |-> 0]]
  /\ flag = [d \in Drives |-> FALSE]
  /\ attempt = [d \in Drives |-> 0]
  /\ edit = [d \in Drives |-> 0]
  /\ last = [d \in Drives |-> None]
  /\ snap = 0
  /\ told = [d \in Drives |-> 0]
  /\ refused = [d \in Drives |-> FALSE]
  /\ granted = [s \in 1 .. setup.size |-> 0]
  /\ execs = [s \in 1 .. setup.size |-> 0]

-----------------------------------------------------------------------------
(* The rules of the gate.                                                  *)

(* The matrix of personas and engine classes.                              *)
Synchrony ==
  CASE setup.engine = "pure" -> IF setup.persona = "solo" THEN "sync" ELSE "excluded"
    [] setup.engine = "reconciler" -> "durable"
    [] setup.engine = "save-point" /\ setup.persona = "team" -> "by-tier"
    [] OTHER -> IF setup.persona = "solo" THEN "sync" ELSE "durable"

Rank == [auto |-> 0, ask |-> 1, deny |-> 2]

(* The level of a step is the highest of its floors; `lowered` are the     *)
(* floors that are overridden.                                             *)
Level(s, lowered) ==
  LET x == setup.step[s]
      floors ==
        {x.level,
         IF x.blast = "read" \/ (x.blast = "local" /\ "local" \in lowered) THEN "auto" ELSE "ask",
         IF "persona" \in lowered THEN "auto" ELSE "ask",
         CASE x.trust = "refuse" -> "deny" [] x.trust = "allow" -> "auto" [] OTHER -> "ask"}
  IN CHOOSE l \in floors : \A m \in floors : Rank[m] <= Rank[l]

(* The policy of a solo developer: the floors that it lowers at s.         *)
Lowered(s) ==
  IF setup.persona # "solo" THEN {}
  ELSE setup.auto \cap IF setup.step[s].blast = "local" THEN {"persona", "local"} ELSE {"persona"}

(* A solo developer may remove the gates of sub-agents from which no floor *)
(* but the persona's and the local one would keep the step.                *)
Removed(s) ==
  /\ setup.removed /\ setup.persona = "solo" /\ setup.step[s].kind = "sub-agent"
  /\ Level(s, {"persona", "local"}) = "auto"

Required(s) == Level(s, Lowered(s)) # "auto"

(* Whether an audit entry is owed before s may run.                        *)
Audited(s) ==
  /\ setup.step[s].placed /\ Synchrony # "excluded"
  /\ Required(s) \/ Lowered(s) # {}

Escalates == setup.bound /\ Synchrony = "durable"

(* How many times one pass of the gate lets the dispatcher inside run s.   *)
PerPass(s) == IF setup.step[s].kind = "tool" THEN MaxAttempts ELSE 1

-----------------------------------------------------------------------------
(* The driver and its coroutine.                                           *)

Ctx(d) == IF Reused THEN 1 ELSE d

(* The coroutine ends; its driver, if it still waits, goes to the next     *)
(* step, fails, or pauses on the signal of a gate.                         *)
End(d, how) ==
  /\ pc' = [pc EXCEPT ![d] = "none"]
  /\ attempt' = [attempt EXCEPT ![d] = 0]
  /\ edit' = [edit EXCEPT ![d] = 0]
  /\ last' = [last EXCEPT ![d] = None]
  /\ LET more == how = "ok" /\ at[d] < setup.size /\ drv[d] = "waits" IN
     /\ at' = IF more THEN [at EXCEPT ![d] = @ + 1] ELSE at
     /\ drv' = [drv EXCEPT ![d] =
          CASE @ # "waits" -> @
            [] more -> "ready"
            [] @ = "waits" /\ how = "ok" /\ ~more -> "done"
            [] @ = "waits" /\ how = "pause" -> "capturing"
            [] OTHER -> "failed"]

(* The dispatcher inside is called with the payload e.                     *)
Through(d, a, e) ==
  /\ pc' = [pc EXCEPT ![d] = "inner"]
  /\ edit' = [edit EXCEPT ![d] = e]
  /\ last' = [last EXCEPT ![d] = a]
  /\ execs' = [execs EXCEPT ![at[d]] = @ + 1]
  /\ UNCHANGED <<drv, at, attempt>>

Stop(d) == End(d, "error") /\ UNCHANGED execs

(* An error that an inference takes for transient: another attempt.        *)
Raise(d) ==
  \/ /\ setup.step[at[d]].kind = "inference" /\ attempt[d] < MaxAttempts
     /\ pc' = [pc EXCEPT ![d] = "sleep"]
     /\ UNCHANGED <<drv, at, attempt, edit, last, execs>>
  \/ /\ setup.step[at[d]].kind = "inference" => attempt[d] = MaxAttempts
     /\ Stop(d)

(* Faulty variant: a rejection is one more transient error.                *)
RejectTransient(d) == refused' = [refused EXCEPT ![d] = TRUE] /\ Raise(d)

(* A rejection passes the retries by and fails the run.                    *)
Reject(d) == refused' = [refused EXCEPT ![d] = TRUE] /\ Stop(d)

(* What the operator has decided about step f takes effect on the current  *)
(* one.  It is audited if that has a gate; only a rejection does not need  *)
(* the entry to be written.                                                *)
Decide(d, a, f) ==
  LET s == at[d] IN
  \/ /\ a = "undecodable" \/ (a # "reject" /\ setup.step[s].placed)
     /\ Stop(d) /\ UNCHANGED <<granted, refused>>
  \/ /\ a \in {"approve", "respond", "edit"}
     /\ granted' = [granted EXCEPT ![s] = IF setup.step[s].placed THEN @ + 1 ELSE @]
     /\ Through(d, a, IF a = "edit" THEN f ELSE edit[d])
     /\ UNCHANGED refused
  \/ a = "reject" /\ Reject(d) /\ UNCHANGED granted

(* No answer has come with the run: the gate of the current step, if any.  *)
Open(d) ==
  LET s == at[d]
      open == setup.step[s].placed /\ Synchrony # "excluded"
      waived == ~Required(s) \/ Removed(s)
  IN /\ \/ /\ setup.step[s].placed => open /\ ~Audited(s)
           /\ Through(d, None, edit[d]) /\ UNCHANGED granted
        \/ /\ setup.step[s].placed /\ (open => waived /\ Audited(s))
           /\ Stop(d) /\ UNCHANGED granted
        \/ /\ open /\ waived /\ Audited(s)
           /\ granted' = [granted EXCEPT ![s] = @ + 1]
           /\ Through(d, None, edit[d])
        \/ /\ open /\ ~waived
           /\ pc' = [pc EXCEPT ![d] = IF Escalates THEN "webhook" ELSE "asked"]
           /\ UNCHANGED <<drv, at, attempt, edit, last, execs, granted>>
     /\ UNCHANGED refused

-----------------------------------------------------------------------------
(* The coroutine, from one await to the next.                              *)

(* The gate takes the answer of the resume, whatever it was given for.     *)
Gate(d) ==
  /\ pc[d] = "gate"
  /\ LET r == holder[Ctx(d)]
     IN IF r.answer # None THEN Decide(d, r.answer, r.for) ELSE Open(d)
  /\ holder' = [holder EXCEPT ![Ctx(d)] = [answer |-> None, for |-> 0]]
  /\ UNCHANGED <<setup, flag, snap, told>>

(* The operator answers the client.                                        *)
Answer(d) ==
  /\ pc[d] = "asked"
  /\ \E a \in Answers : Decide(d, a, at[d])
  /\ UNCHANGED <<setup, holder, flag, snap, told>>

(* The operator cancels: the gate escalates for a team, and fails the step *)
(* for everyone else.  Or the client cannot ask.                           *)
Unanswered(d) ==
  /\ pc[d] = "asked"
  /\ \/ /\ setup.persona = "team" /\ setup.bound
        /\ pc' = [pc EXCEPT ![d] = "webhook"]
        /\ UNCHANGED <<drv, at, attempt, edit, last, execs>>
     \/ ~(setup.persona = "team" /\ setup.bound) /\ Stop(d)
     \/ Raise(d)
  /\ UNCHANGED <<setup, holder, flag, snap, told, refused, granted>>

(* The webhook has taken the brief: the run is to pause.                   *)
Delivered(d) ==
  /\ pc[d] = "webhook"
  /\ told' = [told EXCEPT ![d] = at[d]]
  /\ flag' = [flag EXCEPT ![Ctx(d)] = TRUE]
  /\ End(d, "pause")
  /\ UNCHANGED <<setup, holder, snap, refused, granted, execs>>

(* Every attempt to deliver it has failed.                                 *)
Undelivered(d) ==
  /\ pc[d] = "webhook"
  /\ Raise(d)
  /\ UNCHANGED <<setup, holder, flag, snap, told, refused, granted>>

(* The step has been run, or has failed.  A tool is tried again inside the *)
(* gate.                                                                   *)
Inner(d) ==
  /\ pc[d] = "inner"
  /\ \/ End(d, "ok") /\ UNCHANGED execs
     \/ Stop(d)
     \/ setup.step[at[d]].kind # "tool" /\ Raise(d)
     \/ /\ setup.step[at[d]].kind = "tool" /\ attempt[d] < MaxAttempts
        /\ pc' = [pc EXCEPT ![d] = "sleep"]
        /\ UNCHANGED <<drv, at, attempt, edit, last, execs>>
  /\ UNCHANGED <<setup, holder, flag, snap, told, refused, granted>>

(* Faulty variant: the gate is outside the retries of an inference, too.   *)
WakeInside(d) ==
  /\ pc[d] = "sleep"
  /\ attempt' = [attempt EXCEPT ![d] = @ + 1]
  /\ pc' = [pc EXCEPT ![d] = "inner"]
  /\ execs' = [execs EXCEPT ![at[d]] = @ + 1]
  /\ UNCHANGED <<setup, drv, at, holder, flag, edit, last, snap, told, refused, granted>>

(* Faulty variant: the operator's edit has changed the step in place.      *)
WakeEdited(d) ==
  /\ pc[d] = "sleep"
  /\ attempt' = [attempt EXCEPT ![d] = @ + 1]
  /\ \/ /\ setup.step[at[d]].kind = "tool"
        /\ pc' = [pc EXCEPT ![d] = "inner"]
        /\ execs' = [execs EXCEPT ![at[d]] = @ + 1]
     \/ /\ setup.step[at[d]].kind # "tool"
        /\ pc' = [pc EXCEPT ![d] = "gate"]
        /\ UNCHANGED execs
  /\ UNCHANGED <<setup, drv, at, holder, flag, edit, last, snap, told, refused, granted>>

(* The delay is over: a tool goes on inside the gate, an inference comes   *)
(* back to it with the step as it was.                                     *)
Wake(d) ==
  /\ pc[d] = "sleep"
  /\ attempt' = [attempt EXCEPT ![d] = @ + 1]
  /\ \/ /\ setup.step[at[d]].kind = "tool"
        /\ pc' = [pc EXCEPT ![d] = "inner"]
        /\ execs' = [execs EXCEPT ![at[d]] = @ + 1]
        /\ UNCHANGED <<edit, last>>
     \/ /\ setup.step[at[d]].kind # "tool"
        /\ pc' = [pc EXCEPT ![d] = "gate"]
        /\ edit' = [edit EXCEPT ![d] = 0]
        /\ last' = [last EXCEPT ![d] = None]
        /\ UNCHANGED execs
  /\ UNCHANGED <<setup, drv, at, holder, flag, snap, told, refused, granted>>

-----------------------------------------------------------------------------
(* The driver.                                                             *)

(* A first run, or a resume from the last snapshot, with or without an     *)
(* answer.  Nothing uses a snapshot up.                                    *)
Start(d) ==
  /\ drv[d] = "new"
  /\ \A e \in 1 .. d - 1 : drv[e] # "new" /\ (Reused \/ drv[e] \in Over)
  /\ \/ (d = 1 \/ Reused) /\ at' = [at EXCEPT ![d] = 1] /\ UNCHANGED holder
     \/ /\ d > 1 /\ ~Reused /\ snap # 0
        /\ at' = [at EXCEPT ![d] = snap]
        /\ \E a \in Answers \cup {None} :
             holder' = [holder EXCEPT ![d] =
               [answer |-> a, for |-> IF a = None THEN 0 ELSE snap]]
  /\ drv' = [drv EXCEPT ![d] = "ready"]
  /\ UNCHANGED <<setup, pc, flag, local, snap, told, refused, granted, execs>>

(* At each step the driver looks at the flag before it dispatches.         *)
Dispatch(d) ==
  /\ drv[d] = "ready"
  /\ \/ flag[Ctx(d)] /\ drv' = [drv EXCEPT ![d] = "capturing"] /\ UNCHANGED <<pc, attempt>>
     \/ /\ ~flag[Ctx(d)]
        /\ drv' = [drv EXCEPT ![d] = "waits"]
        /\ pc' = [pc EXCEPT ![d] = "gate"]
        /\ attempt' = [attempt EXCEPT ![d] = 1]
  /\ UNCHANGED <<setup, at, holder, flag, edit, last, snap, told, refused, granted, execs>>

(* Faulty variant: no one times an operator who is thinking.               *)
TimeoutUnlessAsked(d) ==
  /\ drv[d] = "waits" /\ pc[d] \in Live \ {"asked"}
  /\ drv' = [drv EXCEPT ![d] = "failed"]
  /\ UNCHANGED <<setup, pc, at, holder, flag, local, snap, told, refused, granted, execs>>

(* The facade stops waiting, for the operator too; the run fails and the   *)
(* coroutine goes on.                                                      *)
Timeout(d) ==
  /\ drv[d] = "waits" /\ pc[d] \in Live
  /\ drv' = [drv EXCEPT ![d] = "failed"]
  /\ UNCHANGED <<setup, pc, at, holder, flag, local, snap, told, refused, granted, execs>>

(* The snapshot is captured, or is not.                                    *)
Capture(d) ==
  /\ drv[d] = "capturing"
  /\ \/ snap' = at[d] /\ drv' = [drv EXCEPT ![d] = "paused"]
     \/ drv' = [drv EXCEPT ![d] = "failed"] /\ UNCHANGED snap
  /\ UNCHANGED <<setup, pc, at, holder, flag, local, told, refused, granted, execs>>

Step(d) ==
  \/ Gate(d) \/ Answer(d) \/ Unanswered(d) \/ Delivered(d) \/ Undelivered(d)
  \/ Inner(d) \/ Wake(d)

Next ==
  \E d \in Drives : Start(d) \/ Dispatch(d) \/ Timeout(d) \/ Capture(d) \/ Step(d)

Spec == Init /\ [][Next]_vars

(* The driver's thread runs, and the facade's timer fires.  Nothing that   *)
(* the coroutine awaits is assumed to come: not an operator above all.     *)
FairSpec ==
  Spec /\ \A d \in Drives : WF_vars(Dispatch(d) \/ Timeout(d) \/ Capture(d))

-----------------------------------------------------------------------------
(* Properties.                                                             *)

(* Every variable has its type.                                            *)
TypeOK ==
  /\ setup \in Setups
  /\ drv \in [Drives -> {"new", "ready", "waits", "capturing"} \cup Over]
  /\ pc \in [Drives -> {"none"} \cup Live]
  /\ at \in [Drives -> 0 .. setup.size]
  /\ holder \in [Drives -> [answer : Answers \cup {None}, for : 0 .. setup.size]]
  /\ flag \in [Drives -> BOOLEAN]
  /\ attempt \in [Drives -> 0 .. MaxAttempts]
  /\ edit \in [Drives -> 0 .. setup.size]
  /\ last \in [Drives -> Answers \cup {None}]
  /\ snap \in 0 .. setup.size
  /\ told \in [Drives -> 0 .. setup.size]
  /\ refused \in [Drives -> BOOLEAN]
  /\ granted \in [1 .. setup.size -> Nat]
  /\ execs \in [1 .. setup.size -> Nat]

(* A step that owes an audit entry never runs without one: over all        *)
(* resumes, retries and coroutines that outlive their run it is handed to  *)
(* the dispatcher inside no more often than decisions in its favour were   *)
(* recorded (and a tool retried under each).                               *)
ExecutionIsAudited ==
  \A s \in DOMAIN execs : Audited(s) => execs[s] <= granted[s] * PerPass(s)

(* A step runs with an edited payload exactly if the decision this very    *)
(* attempt runs under was an edit, and one of this step.                   *)
PayloadIsAgreed ==
  \A d \in Drives :
    pc[d] = "inner" => edit[d] = IF last[d] = "edit" THEN at[d] ELSE 0

(* After a rejection the drive runs nothing more and has failed: no retry, *)
(* no fallback and no later gate gets past it.                             *)
RejectedRunsNothing ==
  \A d \in Drives : refused[d] => pc[d] = "none" /\ drv[d] = "failed"

(* A run pauses only at a step that its own webhook has asked about.       *)
PausedIsAnnounced == \A d \in Drives : drv[d] = "paused" => told[d] = at[d]

(* The run and its resumes together are a run of GatedRun, whatever the    *)
(* operator answers, late or never, and whichever coroutine outlives its   *)
(* driver.                                                                 *)
Running == [d \in Drives |-> IF pc[d] = "inner" THEN at[d] ELSE 0]
Edited == [d \in Drives |-> IF pc[d] = "inner" THEN edit[d] ELSE 0]
Outcome == [d \in Drives |-> IF drv[d] \in Over THEN drv[d] ELSE "open"]

Promise == INSTANCE GatedRun WITH
  owed <- {s \in 1 .. setup.size : Audited(s)},
  credit <- [s \in 1 .. setup.size |-> PerPass(s)],
  decided <- granted,
  performed <- execs,
  running <- Running,
  edited <- Edited,
  rejected <- {d \in Drives : refused[d]},
  outcome <- Outcome

ImplementsGatedRun == Promise!Spec

(* Every drive returns, whether or not an operator ever answers.           *)
DriveReturns ==
  \A d \in Drives : drv[d] \in {"ready", "waits", "capturing"} ~> drv[d] \in Over
=============================================================================
