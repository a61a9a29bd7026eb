--------------------------- MODULE HitlGate_proofs ---------------------------
(***************************************************************************)
(* Proofs about HitlGate, for every setup and any number of drives and     *)
(* attempts: type correctness, that an edit is applied only where it was   *)
(* agreed, that nothing gets past a rejection, that in a context of its    *)
(* own a run pauses only where its webhook has asked, that what owes an    *)
(* audit entry runs on one, and that all of it is a run of GatedRun.       *)
(***************************************************************************)
EXTENDS HitlGate, FiniteSetTheorems, TLAPS

-----------------------------------------------------------------------------
(* Inductive invariants.                                                   *)

(* Where driver and coroutine can be together.                             *)
Where(d) ==
  /\ pc[d] # "none" => at[d] # 0 /\ drv[d] \in {"waits", "failed"}
  /\ drv[d] = "waits" => pc[d] # "none"
  /\ drv[d] = "ready" => at[d] # 0
  /\ pc[d] = "sleep" => attempt[d] < MaxAttempts

RunType ==
  /\ drv \in [Drives -> {"new", "ready", "waits", "capturing"} \cup Over]
  /\ pc \in [Drives -> {"none"} \cup Live]
  /\ at \in [Drives -> 0 .. setup.size]
  /\ attempt \in [Drives -> 0 .. MaxAttempts]
  /\ edit \in [Drives -> 0 .. setup.size]
  /\ last \in [Drives -> Answers \cup {None}]
  /\ execs \in [1 .. setup.size -> Nat]

RunInv == RunType /\ \A d \in Drives : Where(d)

TypeInv == TypeOK /\ \A d \in Drives : Where(d)

(* Which payload the coroutine carries, and what its resume brings it.     *)
Carries(d) ==
  /\ pc[d] \in {"none", "gate", "asked", "webhook"} => edit[d] = 0
  /\ pc[d] = "inner" \/ (pc[d] = "sleep" /\ setup.step[at[d]].kind = "tool")
       => edit[d] = IF last[d] = "edit" THEN at[d] ELSE 0
  /\ holder[d].answer # None =>
       /\ ~Reused /\ pc[d] \in {"none", "gate"} /\ drv[d] # "new"
       /\ holder[d].for = at[d]

PayloadInv == \A d \in Drives : Carries(d)

(* In a context of its own, a run that is asked to pause stays where its   *)
(* webhook has asked.                                                      *)
PauseInv ==
  \A d \in Drives :
    /\ flag[d] => drv[d] \in {"capturing", "paused", "failed"}
    /\ drv[d] \in {"capturing", "paused"} => told[d] = at[d]

(* Attempts at s that are still to come and that its passes have paid for. *)
Owed(s) ==
  {z \in Drives \X (1 .. MaxAttempts) :
     /\ at[z[1]] = s /\ setup.step[s].kind = "tool"
     /\ pc[z[1]] \in {"inner", "sleep"} /\ z[2] > attempt[z[1]]}

Covered(s) ==
  Audited(s) => execs[s] + Cardinality(Owed(s)) <= granted[s] * PerPass(s)

AuditInv ==
  /\ \A s \in 1 .. setup.size : Covered(s)
  /\ \A d \in Drives : pc[d] # "none" => attempt[d] >= 1

-----------------------------------------------------------------------------
(* Type correctness, with the control of the drives.                       *)

LEMMA SizeIs ==
  ASSUME setup \in Setups
  PROVE  setup.size \in Nat \ {0}
BY SetupsAssumption

LEMMA ContextIs ==
  ASSUME NEW d \in Drives
  PROVE  Ctx(d) \in Drives
BY BoundsAssumption DEF Ctx, Drives

LEMMA EndRun ==
  ASSUME TypeInv, NEW d \in Drives, pc[d] # "none", NEW how, End(d, how), UNCHANGED <<setup, execs>>
  PROVE  RunInv'
<1>1. RunType /\ setup.size \in Nat /\ \A e \in Drives : Where(e)
  BY SizeIs DEF TypeInv, TypeOK, RunType
<1>2. RunType'
  BY <1>1, BoundsAssumption DEF RunType, End, Over
<1>3. ASSUME NEW e \in Drives PROVE Where(e)'
  BY <1>1, <1>3 DEF RunType, End, Over, Where
<1>4. QED  BY <1>2, <1>3 DEF RunInv

LEMMA ThroughRun ==
  ASSUME TypeInv, NEW d \in Drives, pc[d] # "none", NEW a \in Answers \cup {None},
         NEW e \in 0 .. setup.size, Through(d, a, e), UNCHANGED setup
  PROVE  RunInv'
<1>1. RunType /\ setup.size \in Nat /\ \A x \in Drives : Where(x)
  BY SizeIs DEF TypeInv, TypeOK, RunType
<1>2. RunType'
  BY <1>1 DEF RunType, Through, Live, Where
<1>3. ASSUME NEW x \in Drives PROVE Where(x)'
  BY <1>1, <1>3 DEF RunType, Through, Where
<1>4. QED  BY <1>2, <1>3 DEF RunInv

(* The coroutine moves without running the step.                           *)
LEMMA MoveRun ==
  ASSUME TypeInv, NEW d \in Drives, pc[d] # "none", NEW to \in Live,
         pc' = [pc EXCEPT ![d] = to], to = "sleep" => attempt[d] < MaxAttempts,
         UNCHANGED <<setup, drv, at, attempt, edit, last, execs>>
  PROVE  RunInv'
<1>1. RunType /\ setup.size \in Nat /\ \A x \in Drives : Where(x)
  BY SizeIs DEF TypeInv, TypeOK, RunType
<1>2. RunType'
  BY <1>1 DEF RunType, Live
<1>3. ASSUME NEW x \in Drives PROVE Where(x)'
  BY <1>1, <1>3 DEF RunType, Where, Live
<1>4. QED  BY <1>2, <1>3 DEF RunInv

LEMMA RaiseRun ==
  ASSUME TypeInv, NEW d \in Drives, pc[d] # "none", Raise(d), UNCHANGED setup
  PROVE  RunInv'
<1>1. CASE Stop(d)  BY <1>1, EndRun DEF Stop
<1>2. CASE ~Stop(d)
  <2>1. /\ pc' = [pc EXCEPT ![d] = "sleep"] /\ attempt[d] < MaxAttempts
        /\ UNCHANGED <<drv, at, attempt, edit, last, execs>>
    BY <1>2 DEF Raise
  <2>2. QED  BY <2>1, MoveRun DEF Live
<1>3. QED  BY <1>1, <1>2

LEMMA DecideRun ==
  ASSUME TypeInv, NEW d \in Drives, pc[d] # "none", NEW a \in Answers,
         NEW f \in 0 .. setup.size, Decide(d, a, f), UNCHANGED setup
  PROVE  /\ RunInv'
         /\ granted' \in [1 .. setup.size -> Nat] /\ refused' \in [Drives -> BOOLEAN]
<1>1. TypeOK /\ at[d] \in 1 .. setup.size
  BY SizeIs DEF TypeInv, TypeOK, Where
<1>2. CASE Stop(d) /\ UNCHANGED <<granted, refused>>
  BY <1>1, <1>2, EndRun DEF Stop, TypeOK
<1>3. CASE /\ granted' = [granted EXCEPT ![at[d]] = IF setup.step[at[d]].placed THEN @ + 1 ELSE @]
           /\ Through(d, a, IF a = "edit" THEN f ELSE edit[d])
           /\ UNCHANGED refused
  <2>1. (IF a = "edit" THEN f ELSE edit[d]) \in 0 .. setup.size  BY <1>1 DEF TypeOK
  <2>2. RunInv'  BY <1>3, <2>1, ThroughRun
  <2>3. granted' \in [1 .. setup.size -> Nat]  BY <1>1, <1>3 DEF TypeOK
  <2>4. QED  BY <1>1, <1>3, <2>2, <2>3 DEF TypeOK
<1>4. CASE Reject(d) /\ UNCHANGED granted
  <2>1. RunInv'  BY <1>4, EndRun DEF Reject, Stop
  <2>2. refused' \in [Drives -> BOOLEAN]  BY <1>1, <1>4 DEF TypeOK, Reject
  <2>3. QED  BY <1>1, <1>4, <2>1, <2>2 DEF TypeOK
<1>5. QED  BY <1>2, <1>3, <1>4 DEF Decide

LEMMA OpenRun ==
  ASSUME TypeInv, NEW d \in Drives, pc[d] # "none", Open(d), UNCHANGED setup
  PROVE  /\ RunInv'
         /\ granted' \in [1 .. setup.size -> Nat] /\ refused' \in [Drives -> BOOLEAN]
<1>1. TypeOK /\ at[d] \in 1 .. setup.size /\ edit[d] \in 0 .. setup.size
  BY SizeIs DEF TypeInv, TypeOK, Where
<1>2. /\ UNCHANGED refused
      /\ \/ Through(d, None, edit[d]) /\ granted' \in {granted, [granted EXCEPT ![at[d]] = @ + 1]}
         \/ Stop(d) /\ UNCHANGED granted
         \/ /\ \E to \in {"webhook", "asked"} : pc' = [pc EXCEPT ![d] = to]
            /\ UNCHANGED <<drv, at, attempt, edit, last, execs, granted>>
  BY DEF Open
<1>3. granted' \in [1 .. setup.size -> Nat]  BY <1>1, <1>2 DEF TypeOK
<1>4. RunInv'
  <2>1. CASE Through(d, None, edit[d])  BY <1>1, <2>1, ThroughRun
  <2>2. CASE Stop(d)  BY <2>2, EndRun DEF Stop
  <2>3. CASE /\ \E to \in {"webhook", "asked"} : pc' = [pc EXCEPT ![d] = to]
             /\ UNCHANGED <<drv, at, attempt, edit, last, execs, granted>>
    <3>1. PICK to \in {"webhook", "asked"} : pc' = [pc EXCEPT ![d] = to]  BY <2>3
    <3>2. to \in Live /\ to # "sleep"  BY DEF Live
    <3>3. QED  BY <2>3, <3>1, <3>2, MoveRun
  <2>4. QED  BY <1>2, <2>1, <2>2, <2>3
<1>5. QED  BY <1>1, <1>2, <1>3, <1>4 DEF TypeOK

LEMMA Collect ==
  ASSUME TypeInv, RunInv', UNCHANGED setup,
         holder' \in [Drives -> [answer : Answers \cup {None}, for : 0 .. setup.size]],
         flag' \in [Drives -> BOOLEAN], snap' \in 0 .. setup.size,
         told' \in [Drives -> 0 .. setup.size], refused' \in [Drives -> BOOLEAN],
         granted' \in [1 .. setup.size -> Nat]
  PROVE  TypeInv'
BY DEF TypeInv, TypeOK, RunInv, RunType

LEMMA StepType ==
  ASSUME TypeInv, NEW d \in Drives, Step(d)
  PROVE  TypeInv'
<1>1. TypeOK /\ (pc[d] # "none" => at[d] \in 1 .. setup.size)
  BY SizeIs DEF TypeInv, TypeOK, Where
<1>2. UNCHANGED setup
  BY DEF Step, Gate, Answer, Unanswered, Delivered, Undelivered, Inner, Wake
<1>3. CASE Gate(d)
  <2>1. Ctx(d) \in Drives /\ pc[d] # "none"  BY <1>3, ContextIs DEF Gate
  <2> DEFINE r == holder[Ctx(d)]
  <2>2. r \in [answer : Answers \cup {None}, for : 0 .. setup.size]
    BY <1>1, <2>1 DEF TypeOK
  <2>3. /\ RunInv' /\ granted' \in [1 .. setup.size -> Nat]
        /\ refused' \in [Drives -> BOOLEAN]
    <3>1. CASE r.answer # None
      <4>1. r.answer \in Answers /\ r.for \in 0 .. setup.size  BY <2>2, <3>1
      <4>2. Decide(d, r.answer, r.for)  BY <1>3, <3>1 DEF Gate
      <4> HIDE DEF r
      <4>3. QED  BY <1>2, <2>1, <4>1, <4>2, DecideRun
    <3>2. CASE r.answer = None
      <4>1. Open(d)  BY <1>3, <3>2 DEF Gate
      <4>2. QED  BY <1>2, <2>1, <4>1, OpenRun
    <3>3. QED  BY <3>1, <3>2
  <2>4. /\ holder' = [holder EXCEPT ![Ctx(d)] = [answer |-> None, for |-> 0]]
        /\ UNCHANGED <<flag, snap, told>>
    BY <1>3 DEF Gate
  <2>5. holder' \in [Drives -> [answer : Answers \cup {None}, for : 0 .. setup.size]]
    BY <1>1, <2>1, <2>4, SizeIs DEF TypeOK
  <2>6. QED  BY <1>1, <1>2, <2>3, <2>4, <2>5, Collect DEF TypeOK
<1>4. CASE Answer(d)
  <2>1. PICK a \in Answers : Decide(d, a, at[d])  BY <1>4 DEF Answer
  <2>2. pc[d] # "none" /\ UNCHANGED <<holder, flag, snap, told>>  BY <1>4 DEF Answer
  <2>3. at[d] \in 0 .. setup.size  BY <1>1 DEF TypeOK
  <2>4. QED  BY <1>1, <1>2, <2>1, <2>2, <2>3, DecideRun, Collect DEF TypeOK
<1>5. CASE Unanswered(d) \/ Undelivered(d)
  <2>1. /\ pc[d] # "none" /\ UNCHANGED <<holder, flag, snap, told, refused, granted>>
        /\ \/ Raise(d) \/ Stop(d)
           \/ /\ pc' = [pc EXCEPT ![d] = "webhook"]
              /\ UNCHANGED <<drv, at, attempt, edit, last, execs>>
    BY <1>5 DEF Unanswered, Undelivered
  <2>2. RunInv'
    <3>1. CASE Raise(d)  BY <1>2, <2>1, <3>1, RaiseRun
    <3>2. CASE Stop(d)  BY <1>2, <2>1, <3>2, EndRun DEF Stop
    <3>3. CASE /\ pc' = [pc EXCEPT ![d] = "webhook"]
               /\ UNCHANGED <<drv, at, attempt, edit, last, execs>>
      BY <1>2, <2>1, <3>3, MoveRun DEF Live
    <3>4. QED  BY <2>1, <3>1, <3>2, <3>3
  <2>3. QED  BY <1>1, <1>2, <2>1, <2>2, Collect DEF TypeOK
<1>6. CASE Delivered(d)
  <2>1. /\ pc[d] # "none" /\ End(d, "pause") /\ Ctx(d) \in Drives
        /\ told' = [told EXCEPT ![d] = at[d]] /\ flag' = [flag EXCEPT ![Ctx(d)] = TRUE]
        /\ UNCHANGED <<holder, snap, refused, granted, execs>>
    BY <1>6, ContextIs DEF Delivered
  <2>2. RunInv'  BY <1>2, <2>1, EndRun
  <2>3. told' \in [Drives -> 0 .. setup.size]  BY <1>1, <2>1 DEF TypeOK
  <2>4. flag' \in [Drives -> BOOLEAN]  BY <1>1, <2>1 DEF TypeOK
  <2>5. QED  BY <1>1, <1>2, <2>1, <2>2, <2>3, <2>4, Collect DEF TypeOK
<1>7. CASE Inner(d)
  <2>1. /\ pc[d] # "none" /\ UNCHANGED <<holder, flag, snap, told, refused, granted>>
        /\ \/ End(d, "ok") /\ UNCHANGED execs
           \/ Raise(d) \/ Stop(d)
           \/ /\ pc' = [pc EXCEPT ![d] = "sleep"] /\ attempt[d] < MaxAttempts
              /\ UNCHANGED <<drv, at, attempt, edit, last, execs>>
    BY <1>7 DEF Inner
  <2>2. RunInv'
    <3>1. CASE Raise(d)  BY <1>2, <2>1, <3>1, RaiseRun
    <3>2. CASE Stop(d)  BY <1>2, <2>1, <3>2, EndRun DEF Stop
    <3>3. CASE End(d, "ok") /\ UNCHANGED execs  BY <1>2, <2>1, <3>3, EndRun
    <3>4. CASE /\ pc' = [pc EXCEPT ![d] = "sleep"] /\ attempt[d] < MaxAttempts
               /\ UNCHANGED <<drv, at, attempt, edit, last, execs>>
      BY <1>2, <2>1, <3>4, MoveRun DEF Live
    <3>5. QED  BY <2>1, <3>1, <3>2, <3>3, <3>4
  <2>3. QED  BY <1>1, <1>2, <2>1, <2>2, Collect DEF TypeOK
<1>8. CASE Wake(d)
  <2>1. /\ pc[d] = "sleep" /\ attempt' = [attempt EXCEPT ![d] = @ + 1]
        /\ \E to \in {"inner", "gate"} : pc' = [pc EXCEPT ![d] = to]
        /\ execs' \in {execs, [execs EXCEPT ![at[d]] = @ + 1]}
        /\ edit' \in {edit, [edit EXCEPT ![d] = 0]}
        /\ last' \in {last, [last EXCEPT ![d] = None]}
        /\ UNCHANGED <<drv, at, holder, flag, snap, told, refused, granted>>
    BY <1>8 DEF Wake
  <2>2. attempt[d] < MaxAttempts /\ setup.size \in Nat /\ \A x \in Drives : Where(x)
    BY <1>1, <2>1, SizeIs DEF TypeInv, TypeOK, Where
  <2>3. RunType'
    <3>1. execs' \in [1 .. setup.size -> Nat]  BY <1>1, <2>1 DEF TypeOK
    <3>2. attempt' \in [Drives -> 0 .. MaxAttempts]
      BY <1>1, <2>1, <2>2, BoundsAssumption DEF TypeOK
    <3>3. edit' \in [Drives -> 0 .. setup.size]
      <4>1. 0 \in 0 .. setup.size  BY <2>2
      <4>2. QED  BY <1>1, <2>1, <4>1 DEF TypeOK
    <3>4. last' \in [Drives -> Answers \cup {None}]  BY <1>1, <2>1 DEF TypeOK
    <3>5. pc' \in [Drives -> {"none"} \cup Live]  BY <1>1, <2>1 DEF TypeOK, Live
    <3>6. QED  BY <1>1, <1>2, <2>1, <3>1, <3>2, <3>3, <3>4, <3>5 DEF TypeOK, RunType
  <2>4. ASSUME NEW x \in Drives PROVE Where(x)'
    BY <1>1, <2>1, <2>2, <2>4 DEF TypeOK, Where
  <2>5. QED  BY <1>1, <1>2, <2>1, <2>3, <2>4, Collect DEF TypeOK, RunInv
<1>9. QED  BY <1>3, <1>4, <1>5, <1>6, <1>7, <1>8 DEF Step

LEMMA DriverType ==
  ASSUME TypeInv, NEW d \in Drives, Start(d) \/ Dispatch(d) \/ Timeout(d) \/ Capture(d)
  PROVE  TypeInv'
<1>1. /\ TypeOK /\ RunType /\ setup.size \in Nat \ {0} /\ snap \in 0 .. setup.size
      /\ \A x \in Drives : Where(x)
  BY SizeIs DEF TypeInv, TypeOK, RunType
<1>2. UNCHANGED <<setup, told, refused, granted, execs, edit, last>>
  BY DEF Start, Dispatch, Timeout, Capture, local
<1>3. CASE Start(d)
  <2>1. /\ drv[d] = "new" /\ drv' = [drv EXCEPT ![d] = "ready"]
        /\ UNCHANGED <<pc, flag, attempt, snap>>
        /\ \E s \in 1 .. setup.size : at' = [at EXCEPT ![d] = s]
    BY <1>1, <1>3 DEF Start, local
  <2>2. holder' \in [Drives -> [answer : Answers \cup {None}, for : 0 .. setup.size]]
    <3>1. CASE UNCHANGED holder  BY <1>1, <3>1 DEF TypeOK
    <3>2. CASE \E a \in Answers \cup {None} :
                 holder' = [holder EXCEPT ![d] =
                   [answer |-> a, for |-> IF a = None THEN 0 ELSE snap]]
      <4>1. PICK a \in Answers \cup {None} :
              holder' = [holder EXCEPT ![d] =
                [answer |-> a, for |-> IF a = None THEN 0 ELSE snap]]
        BY <3>2
      <4>2. (IF a = None THEN 0 ELSE snap) \in 0 .. setup.size  BY <1>1
      <4>3. QED  BY <1>1, <4>1, <4>2 DEF TypeOK
    <3>3. QED  BY <1>3, <3>1, <3>2 DEF Start
  <2>3. RunType'  BY <1>1, <1>2, <2>1 DEF RunType
  <2>4. ASSUME NEW x \in Drives PROVE Where(x)'
    BY <1>1, <2>1, <2>4 DEF RunType, Where
  <2>5. QED  BY <1>1, <1>2, <2>1, <2>2, <2>3, <2>4, Collect DEF TypeOK, RunInv
<1>4. CASE Dispatch(d)
  <2>1. /\ drv[d] = "ready" /\ UNCHANGED <<at, holder, flag, snap>>
        /\ \/ drv' = [drv EXCEPT ![d] = "capturing"] /\ UNCHANGED <<pc, attempt>>
           \/ /\ drv' = [drv EXCEPT ![d] = "waits"]
              /\ pc' = [pc EXCEPT ![d] = "gate"]
              /\ attempt' = [attempt EXCEPT ![d] = 1]
    BY <1>4 DEF Dispatch
  <2>2. RunType'
    <3>1. 1 \in 0 .. MaxAttempts  BY BoundsAssumption
    <3>2. drv' \in [Drives -> {"new", "ready", "waits", "capturing"} \cup Over]
      BY <1>1, <2>1 DEF RunType
    <3>3. pc' \in [Drives -> {"none"} \cup Live] /\ attempt' \in [Drives -> 0 .. MaxAttempts]
      BY <1>1, <2>1, <3>1 DEF RunType, Live
    <3>4. QED  BY <1>1, <1>2, <2>1, <3>2, <3>3 DEF RunType
  <2>3. ASSUME NEW x \in Drives PROVE Where(x)'
    BY <1>1, <2>1, <2>3 DEF RunType, Where
  <2>4. QED  BY <1>1, <1>2, <2>1, <2>2, <2>3, Collect DEF TypeOK, RunInv
<1>5. CASE Timeout(d)
  <2>1. /\ drv[d] = "waits" /\ drv' = [drv EXCEPT ![d] = "failed"]
        /\ UNCHANGED <<pc, at, holder, flag, attempt, snap>>
    BY <1>5 DEF Timeout, local
  <2>2. RunType'  BY <1>1, <1>2, <2>1 DEF RunType, Over
  <2>3. ASSUME NEW x \in Drives PROVE Where(x)'
    BY <1>1, <2>1, <2>3 DEF RunType, Where
  <2>4. QED  BY <1>1, <1>2, <2>1, <2>2, <2>3, Collect DEF TypeOK, RunInv
<1>6. CASE Capture(d)
  <2>1. /\ drv[d] = "capturing" /\ UNCHANGED <<pc, at, holder, flag, attempt>>
        /\ snap' \in {snap, at[d]}
        /\ \E to \in {"paused", "failed"} : drv' = [drv EXCEPT ![d] = to]
    BY <1>6 DEF Capture, local
  <2>2. RunType'  BY <1>1, <1>2, <2>1 DEF RunType, Over
  <2>3. ASSUME NEW x \in Drives PROVE Where(x)'
    BY <1>1, <2>1, <2>3 DEF RunType, Where
  <2>4. snap' \in 0 .. setup.size  BY <1>1, <2>1 DEF TypeOK
  <2>5. QED  BY <1>1, <1>2, <2>1, <2>2, <2>3, <2>4, Collect DEF TypeOK, RunInv
<1>7. QED  BY <1>3, <1>4, <1>5, <1>6

LEMMA TypeStep ==
  ASSUME TypeInv, [Next]_vars
  PROVE  TypeInv'
<1>1. CASE UNCHANGED vars  BY <1>1 DEF vars, TypeInv, TypeOK, Where
<1>2. CASE Next  BY <1>2, StepType, DriverType DEF Next
<1>3. QED  BY <1>1, <1>2

LEMMA InitType ==
  ASSUME Init
  PROVE  TypeInv
<1>1. setup \in Setups /\ setup.size \in Nat \ {0}  BY SizeIs DEF Init
<1>2. TypeOK  BY <1>1, BoundsAssumption DEF Init, TypeOK
<1>3. \A d \in Drives : Where(d)  BY DEF Init, Where
<1>4. QED  BY <1>2, <1>3 DEF TypeInv

LEMMA Typed == Spec => []TypeInv
BY InitType, TypeStep, PTL DEF Spec

(* Every variable stays in its type: no attempt beyond the policy's (the   *)
(* retries around and inside the gate).                                    *)
THEOREM TypeCorrect == Spec => []TypeOK
<1>1. TypeInv => TypeOK  BY DEF TypeInv
<1>2. QED  BY <1>1, Typed, PTL

-----------------------------------------------------------------------------
(* The edited payload.                                                     *)

(* The coroutine, once it has looked into the holder, leaves the gate.     *)
LEMMA EndPayload ==
  ASSUME TypeInv, PayloadInv, NEW d \in Drives, pc[d] # "none", NEW how, End(d, how),
         UNCHANGED setup,
         \A x \in Drives : holder'[x].answer = None \/ (x # d /\ holder'[x] = holder[x])
  PROVE  PayloadInv'
BY DEF TypeInv, TypeOK, PayloadInv, Carries, End, Over

LEMMA ThroughPayload ==
  ASSUME TypeInv, PayloadInv, NEW d \in Drives, pc[d] # "none", NEW a \in Answers \cup {None},
         NEW e, Through(d, a, e), e = IF a = "edit" THEN at[d] ELSE 0, UNCHANGED setup,
         \A x \in Drives : holder'[x].answer = None \/ (x # d /\ holder'[x] = holder[x])
  PROVE  PayloadInv'
BY DEF TypeInv, TypeOK, PayloadInv, Carries, Through

LEMMA MovePayload ==
  ASSUME TypeInv, PayloadInv, NEW d \in Drives, pc[d] # "none", NEW to,
         pc' = [pc EXCEPT ![d] = to],
         \/ to = "sleep" /\ (pc[d] = "inner" \/ setup.step[at[d]].kind # "tool")
         \/ to \in {"asked", "webhook"} /\ pc[d] \in {"gate", "asked"},
         UNCHANGED <<setup, drv, at, edit, last>>,
         \A x \in Drives : holder'[x].answer = None \/ (x # d /\ holder'[x] = holder[x])
  PROVE  PayloadInv'
BY DEF TypeInv, TypeOK, PayloadInv, Carries

LEMMA RaisePayload ==
  ASSUME TypeInv, PayloadInv, NEW d \in Drives, pc[d] # "none", Raise(d), UNCHANGED setup,
         \A x \in Drives : holder'[x].answer = None \/ (x # d /\ holder'[x] = holder[x])
  PROVE  PayloadInv'
<1>1. CASE Stop(d)  BY <1>1, EndPayload DEF Stop
<1>2. CASE ~Stop(d)
  <2>1. /\ pc' = [pc EXCEPT ![d] = "sleep"] /\ setup.step[at[d]].kind = "inference"
        /\ UNCHANGED <<drv, at, edit, last>>
    BY <1>2 DEF Raise
  <2>2. QED  BY <2>1, MovePayload
<1>3. QED  BY <1>1, <1>2

LEMMA DecidePayload ==
  ASSUME TypeInv, PayloadInv, NEW d \in Drives, pc[d] \in {"gate", "asked"}, NEW a \in Answers,
         Decide(d, a, at[d]), UNCHANGED setup,
         \A x \in Drives : holder'[x].answer = None \/ (x # d /\ holder'[x] = holder[x])
  PROVE  PayloadInv'
<1>1. pc[d] # "none" /\ edit[d] = 0  BY DEF PayloadInv, Carries
<1>2. CASE Stop(d)  BY <1>1, <1>2, EndPayload DEF Stop
<1>3. CASE Through(d, a, IF a = "edit" THEN at[d] ELSE edit[d])
  BY <1>1, <1>3, ThroughPayload
<1>4. QED  BY <1>2, <1>3 DEF Decide, Reject

LEMMA StepPayload ==
  ASSUME TypeInv, PayloadInv, NEW d \in Drives, Step(d)
  PROVE  PayloadInv'
<1>1. TypeOK /\ Ctx(d) \in Drives /\ UNCHANGED setup
  BY ContextIs
  DEF TypeInv, Step, Gate, Answer, Unanswered, Delivered, Undelivered, Inner, Wake
<1> DEFINE Taken ==
      \A x \in Drives : holder'[x].answer = None \/ (x # d /\ holder'[x] = holder[x])
<1>2. CASE Gate(d)
  <2>1. /\ pc[d] = "gate"
        /\ holder' = [holder EXCEPT ![Ctx(d)] = [answer |-> None, for |-> 0]]
    BY <1>2 DEF Gate
  <2>2. Taken
    <3>1. CASE Reused  BY <1>1, <2>1, <3>1 DEF TypeOK, PayloadInv, Carries
    <3>2. CASE ~Reused  BY <1>1, <2>1, <3>2 DEF TypeOK, Ctx
    <3>3. QED  BY <3>1, <3>2
  <2>3. CASE holder[Ctx(d)].answer # None
    <3>1. holder[Ctx(d)].for = at[d]  BY <1>1, <2>3 DEF PayloadInv, Carries, Ctx
    <3>2. holder[Ctx(d)].answer \in Answers  BY <1>1, <2>3 DEF TypeOK
    <3>3. Decide(d, holder[Ctx(d)].answer, at[d])  BY <1>2, <2>3, <3>1 DEF Gate
    <3> HIDE DEF Taken
    <3>4. QED  BY <1>1, <2>1, <2>2, <3>2, <3>3, DecidePayload DEF Taken
  <2>4. CASE holder[Ctx(d)].answer = None
    <3>1. Open(d)  BY <1>2, <2>4 DEF Gate
    <3>2. edit[d] = 0  BY <2>1 DEF PayloadInv, Carries
    <3>3. CASE Through(d, None, edit[d])
      <4>1. None # "edit"  BY BoundsAssumption DEF Answers
      <4>2. QED  BY <1>1, <2>1, <2>2, <3>2, <3>3, <4>1, ThroughPayload
    <3>4. CASE Stop(d)  BY <1>1, <2>1, <2>2, <3>4, EndPayload DEF Stop
    <3>5. CASE /\ pc' = [pc EXCEPT ![d] = IF Escalates THEN "webhook" ELSE "asked"]
               /\ UNCHANGED <<drv, at, attempt, edit, last, execs, granted>>
      <4>1. (IF Escalates THEN "webhook" ELSE "asked") \in {"asked", "webhook"}  OBVIOUS
      <4>2. QED  BY <1>1, <2>1, <2>2, <3>5, <4>1, MovePayload
    <3>6. QED  BY <3>1, <3>3, <3>4, <3>5 DEF Open
  <2>5. QED  BY <2>3, <2>4
<1>3. pc[d] \notin {"none", "gate"} /\ UNCHANGED holder => Taken
  BY DEF PayloadInv, Carries
<1>4. CASE Answer(d)
  <2>1. PICK a \in Answers : Decide(d, a, at[d])  BY <1>4 DEF Answer
  <2>2. pc[d] = "asked" /\ UNCHANGED holder  BY <1>4 DEF Answer
  <2>3. QED  BY <1>1, <1>3, <2>1, <2>2, DecidePayload
<1>5. CASE Unanswered(d) \/ Undelivered(d)
  <2>1. /\ pc[d] \in {"asked", "webhook"} /\ UNCHANGED holder
        /\ \/ Raise(d) \/ Stop(d)
           \/ /\ pc' = [pc EXCEPT ![d] = "webhook"] /\ pc[d] = "asked"
              /\ UNCHANGED <<drv, at, attempt, edit, last, execs>>
    BY <1>5 DEF Unanswered, Undelivered
  <2>2. Taken  BY <1>3, <2>1
  <2>3. CASE Raise(d)  BY <1>1, <2>1, <2>2, <2>3, RaisePayload
  <2>4. CASE Stop(d)  BY <1>1, <2>1, <2>2, <2>4, EndPayload DEF Stop
  <2>5. CASE /\ pc' = [pc EXCEPT ![d] = "webhook"] /\ pc[d] = "asked"
             /\ UNCHANGED <<drv, at, attempt, edit, last, execs>>
    BY <1>1, <2>1, <2>2, <2>5, MovePayload
  <2>6. QED  BY <2>1, <2>3, <2>4, <2>5
<1>6. CASE Delivered(d)
  <2>1. pc[d] = "webhook" /\ End(d, "pause") /\ UNCHANGED holder  BY <1>6 DEF Delivered
  <2>2. QED  BY <1>1, <1>3, <2>1, EndPayload
<1>7. CASE Inner(d)
  <2>1. /\ pc[d] = "inner" /\ UNCHANGED holder
        /\ \/ End(d, "ok") \/ Raise(d) \/ Stop(d)
           \/ /\ pc' = [pc EXCEPT ![d] = "sleep"]
              /\ UNCHANGED <<drv, at, attempt, edit, last, execs>>
    BY <1>7 DEF Inner
  <2>2. Taken  BY <1>3, <2>1
  <2>3. CASE Raise(d)  BY <1>1, <2>1, <2>2, <2>3, RaisePayload
  <2>4. CASE Stop(d)  BY <1>1, <2>1, <2>2, <2>4, EndPayload DEF Stop
  <2>5. CASE End(d, "ok")  BY <1>1, <2>1, <2>2, <2>5, EndPayload
  <2>6. CASE /\ pc' = [pc EXCEPT ![d] = "sleep"]
             /\ UNCHANGED <<drv, at, attempt, edit, last, execs>>
    BY <1>1, <2>1, <2>2, <2>6, MovePayload
  <2>7. QED  BY <2>1, <2>3, <2>4, <2>5, <2>6
<1>8. CASE Wake(d)
  <2>1. pc[d] = "sleep" /\ UNCHANGED <<drv, at, holder>>  BY <1>8 DEF Wake
  <2>2. \/ /\ setup.step[at[d]].kind = "tool" /\ pc' = [pc EXCEPT ![d] = "inner"]
           /\ UNCHANGED <<edit, last>>
        \/ pc' = [pc EXCEPT ![d] = "gate"] /\ edit' = [edit EXCEPT ![d] = 0]
           /\ last' = [last EXCEPT ![d] = None]
    BY <1>8 DEF Wake
  <2>3. /\ pc \in [Drives -> {"none"} \cup Live] /\ edit \in [Drives -> 0 .. setup.size]
        /\ last \in [Drives -> Answers \cup {None}]
    BY <1>1 DEF TypeOK
  <2>4. ASSUME NEW x \in Drives PROVE Carries(x)'
    <3>1. Carries(x)  BY DEF PayloadInv
    <3>2. CASE x # d
      <4>1. pc'[x] = pc[x] /\ edit'[x] = edit[x] /\ last'[x] = last[x]
        BY <2>2, <2>3, <3>2
      <4>2. QED  BY <1>1, <2>1, <3>1, <4>1 DEF Carries
    <3>3. CASE x = d
      <4>1. CASE /\ setup.step[at[d]].kind = "tool" /\ pc' = [pc EXCEPT ![d] = "inner"]
                 /\ UNCHANGED <<edit, last>>
        BY <1>1, <2>1, <2>3, <3>1, <3>3, <4>1 DEF Carries
      <4>2. CASE /\ pc' = [pc EXCEPT ![d] = "gate"] /\ edit' = [edit EXCEPT ![d] = 0]
                 /\ last' = [last EXCEPT ![d] = None]
        BY <1>1, <2>1, <2>3, <3>1, <3>3, <4>2 DEF Carries
      <4>3. QED  BY <2>2, <4>1, <4>2
    <3>4. QED  BY <3>2, <3>3
  <2>5. QED  BY <2>4 DEF PayloadInv
<1>9. QED  BY <1>2, <1>4, <1>5, <1>6, <1>7, <1>8 DEF Step

LEMMA DriverPayload ==
  ASSUME TypeInv, PayloadInv, NEW d \in Drives,
         Start(d) \/ Dispatch(d) \/ Timeout(d) \/ Capture(d)
  PROVE  PayloadInv'
<1>1. TypeOK /\ UNCHANGED <<setup, edit, last>>
  BY DEF TypeInv, Start, Dispatch, Timeout, Capture, local
<1>2. CASE Start(d)
  <2>1. drv[d] = "new" /\ drv' = [drv EXCEPT ![d] = "ready"] /\ UNCHANGED pc
    BY <1>2 DEF Start
  <2>2. pc[d] = "none"  BY <1>1, <2>1 DEF TypeInv, Where
  <2>3. \/ UNCHANGED holder /\ at' = [at EXCEPT ![d] = 1]
        \/ /\ ~Reused /\ at' = [at EXCEPT ![d] = snap]
           /\ \E a \in Answers \cup {None} :
                holder' = [holder EXCEPT ![d] =
                  [answer |-> a, for |-> IF a = None THEN 0 ELSE snap]]
    BY <1>2 DEF Start
  <2>4. QED  BY <1>1, <2>1, <2>2, <2>3 DEF TypeOK, PayloadInv, Carries
<1>3. CASE Dispatch(d)
  <2>1. pc[d] = "none"  BY <1>1, <1>3 DEF TypeInv, Where, Dispatch
  <2>2. QED  BY <1>1, <1>3, <2>1 DEF TypeOK, PayloadInv, Carries, Dispatch
<1>4. CASE Timeout(d)
  BY <1>1, <1>4 DEF TypeOK, PayloadInv, Carries, Timeout, local
<1>5. CASE Capture(d)
  BY <1>1, <1>5 DEF TypeOK, PayloadInv, Carries, Capture, local
<1>6. QED  BY <1>2, <1>3, <1>4, <1>5

(* A step runs with an edited payload exactly if the decision this very    *)
(* attempt runs under was an edit, and one of this step: whatever holder   *)
(* or retry brings it to the gate (dispatch of the composer).              *)
THEOREM PayloadThm == Spec => []PayloadIsAgreed
<1>1. Init => PayloadInv  BY DEF Init, PayloadInv, Carries
<1>2. TypeInv /\ PayloadInv /\ [Next]_vars => PayloadInv'
  <2> SUFFICES ASSUME TypeInv, PayloadInv, [Next]_vars PROVE PayloadInv'
    OBVIOUS
  <2>1. CASE UNCHANGED vars  BY <2>1 DEF vars, local, PayloadInv, Carries
  <2>2. CASE Next  BY <2>2, StepPayload, DriverPayload DEF Next
  <2>3. QED  BY <2>1, <2>2
<1>3. PayloadInv => PayloadIsAgreed  BY DEF PayloadInv, Carries, PayloadIsAgreed
<1>4. QED  BY <1>1, <1>2, <1>3, Typed, PTL DEF Spec

-----------------------------------------------------------------------------
(* Rejections.                                                             *)

LEMMA RejectStep ==
  ASSUME TypeInv, RejectedRunsNothing, NEW d \in Drives,
         Start(d) \/ Dispatch(d) \/ Timeout(d) \/ Capture(d) \/ Step(d)
  PROVE  RejectedRunsNothing'
<1>1. TypeOK /\ Where(d)  BY DEF TypeInv
<1>2. ASSUME Reject(d), pc[d] # "none" PROVE RejectedRunsNothing'
  <2>1. /\ refused' = [refused EXCEPT ![d] = TRUE] /\ pc' = [pc EXCEPT ![d] = "none"]
        /\ drv' = [drv EXCEPT ![d] = IF @ # "waits" THEN @ ELSE "failed"]
    BY <1>2 DEF Reject, Stop, End
  <2>2. QED  BY <1>1, <1>2, <2>1 DEF RejectedRunsNothing, TypeOK, Where
<1>3. ASSUME UNCHANGED refused, ~refused[d],
             \A x \in Drives \ {d} : pc'[x] = pc[x] /\ drv'[x] = drv[x]
      PROVE  RejectedRunsNothing'
  BY <1>3 DEF RejectedRunsNothing
<1>4. CASE Start(d) \/ Dispatch(d) \/ Timeout(d) \/ Capture(d)
  <2>1. /\ UNCHANGED refused /\ ~refused[d]
        /\ \A x \in Drives \ {d} : pc'[x] = pc[x] /\ drv'[x] = drv[x]
    BY <1>1, <1>4 DEF RejectedRunsNothing, TypeOK, Start, Dispatch, Timeout, Capture
  <2>2. QED  BY <1>3, <2>1
<1>5. CASE Step(d)
  <2>1. pc[d] # "none" /\ ~refused[d]
    BY <1>5 DEF RejectedRunsNothing, Step, Gate, Answer, Unanswered, Delivered, Undelivered,
      Inner, Wake
  <2>2. Reject(d) \/ UNCHANGED refused
    BY <1>5 DEF Step, Gate, Answer, Unanswered, Delivered, Undelivered, Inner, Wake, Decide, Open
  <2>3. \A x \in Drives \ {d} : pc'[x] = pc[x] /\ drv'[x] = drv[x]
    <3>1. CASE Gate(d) \/ Answer(d)
      BY <1>1, <3>1 DEF Gate, Answer, Decide, Open, Reject, Stop, Through, End, TypeOK
    <3>2. CASE Unanswered(d) \/ Undelivered(d) \/ Inner(d)
      BY <1>1, <3>2 DEF Unanswered, Undelivered, Inner, Raise, Stop, End, TypeOK
    <3>3. CASE Delivered(d) \/ Wake(d)
      BY <1>1, <3>3 DEF Delivered, Wake, End, TypeOK
    <3>4. QED  BY <1>5, <3>1, <3>2, <3>3 DEF Step
  <2>4. QED  BY <1>2, <1>3, <2>1, <2>2, <2>3
<1>6. QED  BY <1>4, <1>5

(* After a rejection the drive runs nothing more and has failed: no retry, *)
(* no fallback and no later gate gets past it (the rejection passes        *)
(* _run_per_candidate_attempts by).                                        *)
THEOREM RejectThm == Spec => []RejectedRunsNothing
<1>1. Init => RejectedRunsNothing  BY DEF Init, RejectedRunsNothing
<1>2. TypeInv /\ RejectedRunsNothing /\ [Next]_vars => RejectedRunsNothing'
  <2> SUFFICES ASSUME TypeInv, RejectedRunsNothing, [Next]_vars PROVE RejectedRunsNothing'
    OBVIOUS
  <2>1. CASE UNCHANGED vars  BY <2>1 DEF vars, RejectedRunsNothing
  <2>2. CASE Next  BY <2>2, RejectStep DEF Next
  <2>3. QED  BY <2>1, <2>2
<1>3. QED  BY <1>1, <1>2, Typed, PTL DEF Spec

-----------------------------------------------------------------------------
(* Pauses.                                                                 *)

LEMMA PauseStep ==
  ASSUME ~Reused, TypeInv, PauseInv, NEW d \in Drives,
         Start(d) \/ Dispatch(d) \/ Timeout(d) \/ Capture(d) \/ Step(d)
  PROVE  PauseInv'
<1>1. TypeOK /\ Where(d) /\ Ctx(d) = d  BY DEF TypeInv, Ctx
<1>2. CASE Start(d) \/ Dispatch(d) \/ Timeout(d) \/ Capture(d)
  BY <1>1, <1>2 DEF PauseInv, TypeOK, Where, Start, Dispatch, Timeout, Capture
<1>3. CASE Delivered(d)
  <2>1. /\ drv[d] \in {"waits", "failed"} /\ UNCHANGED at
        /\ drv' = [drv EXCEPT ![d] = IF @ # "waits" THEN @ ELSE "capturing"]
        /\ told' = [told EXCEPT ![d] = at[d]] /\ flag' = [flag EXCEPT ![d] = TRUE]
    BY <1>1, <1>3 DEF Where, Delivered, End
  <2>2. QED  BY <1>1, <2>1 DEF PauseInv, TypeOK
<1>4. CASE Step(d) /\ ~Delivered(d)
  <2>1. drv[d] \in {"waits", "failed"}
    BY <1>1, <1>4
    DEF Where, Step, Gate, Answer, Unanswered, Delivered, Undelivered, Inner, Wake
  <2>2. UNCHANGED <<flag, told>>
    BY <1>4 DEF Step, Gate, Answer, Unanswered, Undelivered, Inner, Wake
  <2>3. /\ drv'[d] \in {drv[d], "failed", "ready", "done"}
        /\ \A x \in Drives \ {d} : at'[x] = at[x] /\ drv'[x] = drv[x]
    <3>1. CASE Gate(d) \/ Answer(d)
      BY <1>1, <3>1 DEF Gate, Answer, Decide, Open, Reject, Stop, Through, End, TypeOK
    <3>2. CASE Unanswered(d) \/ Undelivered(d) \/ Inner(d)
      BY <1>1, <3>2 DEF Unanswered, Undelivered, Inner, Raise, Stop, End, TypeOK
    <3>3. CASE Wake(d)  BY <1>1, <2>1, <3>3 DEF Wake, TypeOK
    <3>4. QED  BY <1>4, <3>1, <3>2, <3>3 DEF Step
  <2>4. drv[d] = "failed" => drv'[d] = "failed"
    <3>1. CASE Gate(d) \/ Answer(d)
      BY <1>1, <3>1 DEF Gate, Answer, Decide, Open, Reject, Stop, Through, End, TypeOK
    <3>2. CASE Unanswered(d) \/ Undelivered(d) \/ Inner(d)
      BY <1>1, <3>2 DEF Unanswered, Undelivered, Inner, Raise, Stop, End, TypeOK
    <3>3. CASE Wake(d)  BY <1>1, <2>1, <3>3 DEF Wake, TypeOK
    <3>4. QED  BY <1>4, <3>1, <3>2, <3>3 DEF Step
  <2>5. QED  BY <1>1, <2>1, <2>2, <2>3, <2>4 DEF PauseInv, TypeOK
<1>5. QED  BY <1>2, <1>3, <1>4

(* A run that has its own context pauses only at a step that its webhook   *)
(* has asked about (_escalate_to_secondary_channel sets the flag that the  *)
(* driver finds): only the shared context of a daemon breaks this.         *)
THEOREM PauseThm ==
  ASSUME ~Reused
  PROVE  Spec => []PausedIsAnnounced
<1>1. Init => PauseInv  BY DEF Init, PauseInv
<1>2. TypeInv /\ PauseInv /\ [Next]_vars => PauseInv'
  <2> SUFFICES ASSUME TypeInv, PauseInv, [Next]_vars PROVE PauseInv'
    OBVIOUS
  <2>1. CASE UNCHANGED vars  BY <2>1 DEF vars, PauseInv
  <2>2. CASE Next  BY <2>2, PauseStep DEF Next
  <2>3. QED  BY <2>1, <2>2
<1>3. PauseInv => PausedIsAnnounced  BY DEF PauseInv, PausedIsAnnounced
<1>4. QED  BY <1>1, <1>2, <1>3, Typed, PTL DEF Spec

-----------------------------------------------------------------------------
(* Audit entries.                                                          *)

LEMMA AuditedIs ==
  ASSUME UNCHANGED setup, NEW s
  PROVE  (Audited(s)' <=> Audited(s)) /\ PerPass(s)' = PerPass(s)
BY DEF Audited, Synchrony, Required, Level, Lowered, Rank, PerPass

LEMMA Slots ==
  ASSUME NEW T, T \subseteq Drives \X (1 .. MaxAttempts)
  PROVE  /\ IsFiniteSet(T) /\ Cardinality(T) \in Nat
         /\ \A U \in SUBSET T : Cardinality(U) <= Cardinality(T)
<1>1. IsFiniteSet(Drives) /\ IsFiniteSet(1 .. MaxAttempts)
  BY BoundsAssumption, FS_Interval DEF Drives
<1>2. IsFiniteSet(Drives \X (1 .. MaxAttempts))  BY <1>1, FS_Product
<1>3. IsFiniteSet(T)  BY <1>2, FS_Subset
<1>4. QED  BY <1>3, FS_Subset, FS_CardinalityType

LEMMA OwedIs ==
  ASSUME NEW s
  PROVE  /\ IsFiniteSet(Owed(s)) /\ Cardinality(Owed(s)) \in Nat
         /\ IsFiniteSet(Owed(s)') /\ Cardinality(Owed(s)') \in Nat
         /\ \A T \in SUBSET Owed(s) : Cardinality(T) <= Cardinality(Owed(s))
<1>1. Owed(s) \subseteq Drives \X (1 .. MaxAttempts)
      /\ Owed(s)' \subseteq Drives \X (1 .. MaxAttempts)
  BY DEF Owed
<1>2. QED  BY <1>1, Slots

(* What the entries at a step pay for.                                     *)
LEMMA Paid ==
  ASSUME TypeOK, NEW s \in 1 .. setup.size
  PROVE  granted[s] \in Nat /\ PerPass(s) \in Nat /\ granted[s] * PerPass(s) \in Int
<1>1. granted[s] \in Nat  BY DEF TypeOK
<1>2. PerPass(s) \in Nat  BY BoundsAssumption DEF PerPass
<1>3. \A m, n \in Nat : m * n \in Int  OBVIOUS
<1>4. QED  BY <1>1, <1>2, <1>3

(* Nothing runs, and no one becomes entitled to more.                      *)
LEMMA LessOwed ==
  ASSUME UNCHANGED setup, TypeOK, NEW s, Covered(s), execs'[s] = execs[s],
         granted'[s] = granted[s], Owed(s)' \subseteq Owed(s),
         s \in 1 .. setup.size
  PROVE  Covered(s)'
<1>1. CASE Audited(s)
  <2>1. execs[s] + Cardinality(Owed(s)) <= granted[s] * PerPass(s)  BY <1>1 DEF Covered
  <2>2. Cardinality(Owed(s)') \in Nat /\ Cardinality(Owed(s)') <= Cardinality(Owed(s))
        /\ Cardinality(Owed(s)) \in Nat
    BY OwedIs
  <2>3. execs[s] \in Nat  BY DEF TypeOK
  <2> DEFINE g == granted[s] * PerPass(s)
  <2>4. g \in Int  BY Paid
  <2>5. execs[s] + Cardinality(Owed(s)') <= g
    <3> HIDE DEF g
    <3>1. execs[s] + Cardinality(Owed(s)) <= g  BY <2>1 DEF g
    <3>2. QED  BY <2>2, <2>3, <2>4, <3>1
  <2>6. Covered(s)' <=> (Audited(s)' => execs'[s] + Cardinality(Owed(s)') <= granted'[s] * PerPass(s)')
    BY DEF Covered
  <2>7. QED  BY <2>5, <2>6, AuditedIs
<1>2. CASE ~Audited(s)  BY <1>2, AuditedIs DEF Covered
<1>3. QED  BY <1>1, <1>2

(* One pass of the gate pays for one run, and a tool's further attempts.   *)
LEMMA PassOwed ==
  ASSUME TypeOK, AuditInv, NEW d \in Drives, pc[d] \in {"gate", "asked"},
         at[d] \in 1 .. setup.size, UNCHANGED <<setup, at, attempt>>,
         pc' = [pc EXCEPT ![d] = "inner"],
         execs' = [execs EXCEPT ![at[d]] = @ + 1],
         granted' = [granted EXCEPT ![at[d]] = @ + 1]
  PROVE  Covered(at[d])'
<1> DEFINE s == at[d]
           More == {d} \X (2 .. MaxAttempts)
           f == [k \in 2 .. MaxAttempts |-> <<d, k>>]
<1>1. CASE ~Audited(s)  BY <1>1, AuditedIs DEF Covered
<1>2. CASE Audited(s)
  <2>1. execs[s] + Cardinality(Owed(s)) <= granted[s] * PerPass(s)
    BY <1>2 DEF Covered, AuditInv
  <2>2. execs[s] \in Nat /\ granted[s] \in Nat /\ Cardinality(Owed(s)) \in Nat
        /\ Cardinality(Owed(s)') \in Nat
    <3>1. execs[s] \in Nat /\ granted[s] \in Nat  BY DEF TypeOK
    <3>2. Cardinality(Owed(s)) \in Nat /\ Cardinality(Owed(s)') \in Nat  BY OwedIs
    <3>3. QED  BY <3>1, <3>2
  <2>3. execs'[s] = execs[s] + 1 /\ granted'[s] = granted[s] + 1  BY DEF TypeOK
  <2>4. CASE setup.step[s].kind # "tool"
    <3>1. Owed(s)' = {}  BY <2>4 DEF Owed
    <3>2. Cardinality(Owed(s)') = 0  BY <3>1, FS_EmptySet
    <3>3. PerPass(s) = 1 /\ PerPass(s)' = 1  BY <2>4 DEF PerPass
    <3>4. execs'[s] + Cardinality(Owed(s)') <= granted'[s] * PerPass(s)'
      BY <2>1, <2>2, <2>3, <3>2, <3>3
    <3>5. QED  BY <3>4 DEF Covered
  <2>5. CASE setup.step[s].kind = "tool"
    <3>1. f \in Surjection(2 .. MaxAttempts, More)  BY DEF Surjection
    <3>2. IsFiniteSet(2 .. MaxAttempts) /\ Cardinality(2 .. MaxAttempts) = MaxAttempts - 1
      BY BoundsAssumption, FS_Interval
    <3>3. IsFiniteSet(More) /\ Cardinality(More) <= MaxAttempts - 1
      <4> HIDE DEF f, More
      <4>1. QED  BY <3>1, <3>2, FS_Surjection
    <3>4. Owed(s)' \subseteq Owed(s) \cup More
      <4> SUFFICES ASSUME NEW z \in Owed(s)', z \notin Owed(s) PROVE z \in More
        OBVIOUS
      <4>1. /\ z \in Drives \X (1 .. MaxAttempts) /\ z[2] > attempt[z[1]]
            /\ pc'[z[1]] \in {"inner", "sleep"} /\ at[z[1]] = s
        BY DEF Owed
      <4>2. z[1] = d
        BY <4>1, <2>5 DEF Owed, TypeOK
      <4>3. attempt[d] \in Nat /\ attempt[d] >= 1
        BY BoundsAssumption DEF AuditInv, TypeOK
      <4>4. z[2] \in 2 .. MaxAttempts /\ z = <<z[1], z[2]>>
        BY <4>1, <4>2, <4>3, BoundsAssumption
      <4>5. QED  BY <4>2, <4>4
    <3>5. /\ IsFiniteSet(Owed(s) \cup More)
          /\ Cardinality(Owed(s) \cup More) <= Cardinality(Owed(s)) + Cardinality(More)
      <4> HIDE DEF More
      <4>1. IsFiniteSet(Owed(s))  BY OwedIs
      <4>2. IsFiniteSet(Owed(s) \cap More)  BY <4>1, FS_Intersection
      <4>3. Cardinality(Owed(s) \cap More) \in Nat /\ Cardinality(More) \in Nat
        BY <4>2, <3>3, FS_CardinalityType
      <4>4. /\ IsFiniteSet(Owed(s) \cup More)
            /\ Cardinality(Owed(s) \cup More) =
                 Cardinality(Owed(s)) + Cardinality(More) - Cardinality(Owed(s) \cap More)
        BY <4>1, <3>3, FS_Union
      <4>5. QED  BY <4>3, <4>4, <2>2
    <3>6. Cardinality(Owed(s)') <= Cardinality(Owed(s)) + MaxAttempts - 1
      <4>1. Cardinality(Owed(s)') <= Cardinality(Owed(s) \cup More)
        BY <3>4, <3>5, FS_Subset
      <4>2. Cardinality(Owed(s) \cup More) \in Nat /\ Cardinality(More) \in Nat
        BY <3>3, <3>5, FS_CardinalityType
      <4> HIDE DEF More
      <4>3. QED  BY <4>1, <4>2, <3>3, <3>5, <2>2, BoundsAssumption
    <3>7. PerPass(s) = MaxAttempts /\ PerPass(s)' = MaxAttempts  BY <2>5 DEF PerPass
    <3>8. (granted[s] + 1) * MaxAttempts = granted[s] * MaxAttempts + MaxAttempts
          /\ granted[s] * MaxAttempts \in Int
      <4>1. \A g, m \in Nat : (g + 1) * m = g * m + m /\ g * m \in Int  BY SMT
      <4>2. QED  BY <4>1, <2>2, BoundsAssumption
    <3>9. execs'[s] + Cardinality(Owed(s)') <= granted'[s] * PerPass(s)'
      <4> DEFINE g == granted[s] * MaxAttempts
      <4>1. granted'[s] * PerPass(s)' = g + MaxAttempts /\ g \in Int
        BY <2>3, <3>7, <3>8
      <4>2. execs[s] + Cardinality(Owed(s)) <= g  BY <2>1, <3>7
      <4> HIDE DEF g
      <4>3. QED  BY <4>1, <4>2, <2>2, <2>3, <3>6, BoundsAssumption
    <3>10. QED  BY <3>9 DEF Covered
  <2>6. QED  BY <2>4, <2>5
<1>3. QED  BY <1>1, <1>2

(* A step that is audited is entered with an entry.                        *)
LEMMA ThroughAudit ==
  ASSUME TypeInv, AuditInv, NEW d \in Drives, pc[d] \in {"gate", "asked"}, UNCHANGED setup,
         NEW a, NEW e, Through(d, a, e),
         \/ granted' = [granted EXCEPT ![at[d]] = @ + 1]
         \/ UNCHANGED granted /\ ~Audited(at[d])
  PROVE  AuditInv'
<1>1. TypeOK /\ at[d] \in 1 .. setup.size  BY SizeIs DEF TypeInv, TypeOK, Where
<1>2. /\ UNCHANGED <<at, attempt>> /\ pc' = [pc EXCEPT ![d] = "inner"]
      /\ execs' = [execs EXCEPT ![at[d]] = @ + 1]
  BY DEF Through
<1>3. Covered(at[d])'
  <2>1. CASE granted' = [granted EXCEPT ![at[d]] = @ + 1]
    BY <1>1, <1>2, <2>1, PassOwed
  <2>2. CASE ~Audited(at[d])  BY <1>2, <2>2, AuditedIs DEF Covered
  <2>3. QED  BY <2>1, <2>2
<1>4. ASSUME NEW s \in 1 .. setup.size, s # at[d] PROVE Covered(s)'
  <2>1. Owed(s)' \subseteq Owed(s)  BY <1>1, <1>2, <1>4 DEF Owed, TypeOK
  <2>2. execs'[s] = execs[s] /\ granted'[s] = granted[s]  BY <1>1, <1>2, <1>4 DEF TypeOK
  <2>3. QED  BY <1>1, <2>1, <2>2, LessOwed DEF AuditInv
<1>5. \A x \in Drives : pc'[x] # "none" => attempt'[x] >= 1
  <2>1. \A x \in Drives : pc'[x] # "none" => pc[x] # "none"  BY <1>1, <1>2 DEF TypeOK
  <2>2. QED  BY <1>2, <2>1 DEF AuditInv
<1>6. QED  BY <1>2, <1>3, <1>4, <1>5 DEF AuditInv

(* Nothing is run.                                                         *)
LEMMA IdleAudit ==
  ASSUME TypeInv, AuditInv, UNCHANGED <<setup, execs, granted>>,
         \A x \in Drives :
           /\ pc'[x] \in {"inner", "sleep"} /\ setup.step[at'[x]].kind = "tool"
                => at'[x] = at[x] /\ attempt'[x] = attempt[x] /\ pc[x] \in {"inner", "sleep"}
           /\ pc'[x] # "none" => attempt'[x] >= 1
  PROVE  AuditInv'
<1>1. ASSUME NEW s \in 1 .. setup.size PROVE Covered(s)'
  <2>1. Owed(s)' \subseteq Owed(s)  BY DEF Owed
  <2>2. QED  BY <2>1, LessOwed DEF AuditInv, TypeInv
<1>2. QED  BY <1>1 DEF AuditInv

LEMMA RaiseAudit ==
  ASSUME TypeInv, AuditInv, NEW d \in Drives, pc[d] # "none", Raise(d) \/ Stop(d),
         UNCHANGED <<setup, granted>>
  PROVE  AuditInv'
<1>1. TypeOK  BY DEF TypeInv
<1>2. UNCHANGED execs  BY DEF Raise, Stop
<1>3. CASE Stop(d)
  <2>1. /\ pc' = [pc EXCEPT ![d] = "none"]
        /\ \A x \in Drives \ {d} : at'[x] = at[x] /\ attempt'[x] = attempt[x]
    BY <1>1, <1>3 DEF Stop, End, TypeOK
  <2>2. QED  BY <1>1, <1>2, <2>1, IdleAudit DEF AuditInv, TypeOK
<1>4. CASE ~Stop(d)
  <2>1. /\ pc' = [pc EXCEPT ![d] = "sleep"] /\ setup.step[at[d]].kind = "inference"
        /\ UNCHANGED <<at, attempt>>
    BY <1>4 DEF Raise
  <2>2. QED  BY <1>1, <1>2, <2>1, IdleAudit DEF AuditInv, TypeOK
<1>5. QED  BY <1>3, <1>4

LEMMA DecideAudit ==
  ASSUME TypeInv, AuditInv, NEW d \in Drives, pc[d] \in {"gate", "asked"}, UNCHANGED setup,
         NEW a, NEW f, Decide(d, a, f)
  PROVE  AuditInv'
<1>1. CASE Stop(d) /\ UNCHANGED granted  BY <1>1, RaiseAudit
<1>2. CASE /\ granted' = [granted EXCEPT ![at[d]] = IF setup.step[at[d]].placed THEN @ + 1 ELSE @]
           /\ Through(d, a, IF a = "edit" THEN f ELSE edit[d])
  <2>1. CASE setup.step[at[d]].placed
    <3>1. granted' = [granted EXCEPT ![at[d]] = @ + 1]  BY <1>2, <2>1
    <3>2. QED  BY <1>2, <3>1, ThroughAudit
  <2>2. CASE ~setup.step[at[d]].placed
    <3>1. ~Audited(at[d])  BY <2>2 DEF Audited
    <3>2. UNCHANGED granted  BY <1>2, <2>2 DEF TypeInv, TypeOK
    <3>3. QED  BY <1>2, <3>1, <3>2, ThroughAudit
  <2>3. QED  BY <2>1, <2>2
<1>3. QED  BY <1>1, <1>2 DEF Decide, Reject

LEMMA OpenAudit ==
  ASSUME TypeInv, AuditInv, NEW d \in Drives, pc[d] = "gate", UNCHANGED setup, Open(d)
  PROVE  AuditInv'
<1>1. TypeOK  BY DEF TypeInv
<1>2. CASE Stop(d) /\ UNCHANGED granted  BY <1>2, RaiseAudit
<1>3. CASE Through(d, None, edit[d]) /\ granted' = [granted EXCEPT ![at[d]] = @ + 1]
  BY <1>3, ThroughAudit
<1>4. CASE /\ setup.step[at[d]].placed => Synchrony # "excluded" /\ ~Audited(at[d])
           /\ Through(d, None, edit[d]) /\ UNCHANGED granted
  <2>1. ~Audited(at[d])  BY <1>4 DEF Audited
  <2>2. QED  BY <1>4, <2>1, ThroughAudit
<1>5. CASE /\ \E to \in {"webhook", "asked"} : pc' = [pc EXCEPT ![d] = to]
           /\ UNCHANGED <<at, attempt, execs, granted>>
  BY <1>1, <1>5, IdleAudit DEF AuditInv, TypeOK
<1>6. QED  BY <1>2, <1>3, <1>4, <1>5 DEF Open

(* Another attempt of a tool uses one of those that its pass paid for.     *)
LEMMA WakeAudit ==
  ASSUME TypeInv, AuditInv, NEW d \in Drives, Wake(d)
  PROVE  AuditInv'
<1>0. TypeOK /\ pc[d] # "none" /\ pc[d] = "sleep"  BY DEF TypeInv, Wake
<1>1. /\ TypeOK /\ at[d] \in 1 .. setup.size
      /\ attempt[d] \in Nat /\ attempt[d] >= 1 /\ attempt[d] < MaxAttempts
  <2>1. Where(d) /\ setup.size \in Nat  BY <1>0, SizeIs DEF TypeInv, TypeOK
  <2>2. at[d] \in 0 .. setup.size /\ attempt[d] \in 0 .. MaxAttempts  BY <1>0 DEF TypeOK
  <2>3. at[d] # 0 /\ attempt[d] < MaxAttempts  BY <1>0, <2>1 DEF Where
  <2>4. attempt[d] >= 1  BY <1>0 DEF AuditInv
  <2>5. QED  BY <1>0, <2>1, <2>2, <2>3, <2>4, BoundsAssumption
<1>2. /\ pc[d] = "sleep" /\ attempt' = [attempt EXCEPT ![d] = @ + 1]
      /\ UNCHANGED <<setup, at, granted>>
  BY DEF Wake
<1>3. CASE setup.step[at[d]].kind # "tool"
  <2>1. pc' = [pc EXCEPT ![d] = "gate"] /\ UNCHANGED execs  BY <1>3 DEF Wake
  <2>2. QED  BY <1>1, <1>2, <2>1, IdleAudit DEF AuditInv, TypeOK
<1>4. CASE setup.step[at[d]].kind = "tool"
  <2>1. pc' = [pc EXCEPT ![d] = "inner"] /\ execs' = [execs EXCEPT ![at[d]] = @ + 1]
    BY <1>4 DEF Wake
  <2>2. ASSUME NEW s \in 1 .. setup.size, s # at[d] PROVE Covered(s)'
    <3>1. Owed(s)' \subseteq Owed(s)  BY <1>1, <1>2, <2>1, <2>2 DEF Owed, TypeOK
    <3>2. execs'[s] = execs[s] /\ granted'[s] = granted[s]
      BY <1>1, <1>2, <2>1, <2>2 DEF TypeOK
    <3>3. QED  BY <1>1, <1>2, <3>1, <3>2, LessOwed DEF AuditInv
  <2>3. Covered(at[d])'
    <3> DEFINE s == at[d]
               z == <<d, attempt[d] + 1>>
    <3>1. z \in Owed(s)  BY <1>1, <1>2, <1>4, BoundsAssumption DEF Owed
    <3>2. Owed(s)' \subseteq Owed(s) \ {z}
      BY <1>1, <1>2, <2>1 DEF Owed, TypeOK
    <3>3. Cardinality(Owed(s) \ {z}) = Cardinality(Owed(s)) - 1 /\ IsFiniteSet(Owed(s) \ {z})
      BY <3>1, OwedIs, FS_RemoveElement
    <3>4. Cardinality(Owed(s)') <= Cardinality(Owed(s)) - 1
      BY <3>2, <3>3, FS_Subset
    <3>5. CASE ~Audited(s)  BY <1>2, <3>5, AuditedIs DEF Covered
    <3>6. CASE Audited(s)
      <4>1. execs[s] + Cardinality(Owed(s)) <= granted[s] * PerPass(s)
        BY <1>1, <3>6 DEF Covered, AuditInv
      <4>2. /\ execs[s] \in Nat /\ execs'[s] = execs[s] + 1
            /\ Cardinality(Owed(s)) \in Nat /\ Cardinality(Owed(s)') \in Nat
        <5>1. execs[s] \in Nat /\ execs'[s] = execs[s] + 1  BY <1>1, <2>1 DEF TypeOK
        <5>2. QED  BY <5>1, OwedIs
      <4> DEFINE g == granted[s] * PerPass(s)
      <4>3. g \in Int  BY <1>1, Paid
      <4>4. granted'[s] * PerPass(s)' = g  BY <1>2, AuditedIs
      <4>5. execs'[s] + Cardinality(Owed(s)') <= g
        <5>1. execs[s] + Cardinality(Owed(s)) <= g  BY <4>1
        <5> HIDE DEF g, s
        <5>2. QED  BY <5>1, <4>2, <4>3, <3>4
      <4>6. QED  BY <4>4, <4>5, <1>2 DEF Covered
    <3>7. QED  BY <3>5, <3>6
  <2>4. \A x \in Drives : pc'[x] # "none" => attempt'[x] >= 1
    BY <1>1, <1>2, <2>1 DEF AuditInv, TypeOK
  <2>5. QED  BY <1>2, <2>2, <2>3, <2>4 DEF AuditInv
<1>5. QED  BY <1>3, <1>4

LEMMA AuditStep ==
  ASSUME TypeInv, AuditInv, NEW d \in Drives,
         Start(d) \/ Dispatch(d) \/ Timeout(d) \/ Capture(d) \/ Step(d)
  PROVE  AuditInv'
<1>1. TypeOK /\ Where(d) /\ UNCHANGED setup
  BY DEF TypeInv, Start, Dispatch, Timeout, Capture, Step, Gate, Answer, Unanswered, Delivered,
    Undelivered, Inner, Wake
<1>2. CASE Start(d)
  <2>1. /\ pc[d] = "none" /\ UNCHANGED <<pc, execs, granted, attempt>>
        /\ \A x \in Drives \ {d} : at'[x] = at[x]
    BY <1>1, <1>2 DEF Start, Where, TypeOK, local
  <2>2. QED  BY <1>1, <2>1, IdleAudit DEF AuditInv
<1>3. CASE Dispatch(d)
  <2>1. CASE UNCHANGED <<pc, attempt>>
    BY <1>1, <1>3, <2>1, IdleAudit DEF AuditInv, Dispatch
  <2>2. CASE pc' = [pc EXCEPT ![d] = "gate"] /\ attempt' = [attempt EXCEPT ![d] = 1]
    <3>1. UNCHANGED <<at, execs, granted>>  BY <1>3 DEF Dispatch
    <3>2. /\ \A x \in Drives \ {d} : pc'[x] = pc[x] /\ attempt'[x] = attempt[x]
          /\ pc'[d] = "gate" /\ attempt'[d] = 1
      BY <1>1, <2>2 DEF TypeOK
    <3>3. QED  BY <1>1, <3>1, <3>2, IdleAudit DEF AuditInv
  <2>3. QED  BY <1>3, <2>1, <2>2 DEF Dispatch
<1>4. CASE Timeout(d) \/ Capture(d)
  BY <1>1, <1>4, IdleAudit DEF AuditInv, Timeout, Capture, local
<1>5. CASE Gate(d)
  BY <1>1, <1>5, DecideAudit, OpenAudit DEF Gate
<1>6. CASE Answer(d)
  <2>1. PICK a \in Answers : Decide(d, a, at[d])  BY <1>6 DEF Answer
  <2>2. QED  BY <1>1, <1>6, <2>1, DecideAudit DEF Answer
<1>7. CASE Unanswered(d) \/ Undelivered(d)
  <2>1. CASE Raise(d) \/ Stop(d)
    BY <1>1, <1>7, <2>1, RaiseAudit DEF Unanswered, Undelivered
  <2>2. CASE pc' = [pc EXCEPT ![d] = "webhook"] /\ UNCHANGED <<at, attempt, execs>>
    BY <1>1, <1>7, <2>2, IdleAudit DEF AuditInv, TypeOK, Unanswered, Undelivered
  <2>3. QED  BY <1>7, <2>1, <2>2 DEF Unanswered, Undelivered
<1>8. ASSUME NEW how, End(d, how), UNCHANGED <<execs, granted>> PROVE AuditInv'
  <2>1. /\ pc' = [pc EXCEPT ![d] = "none"]
        /\ \A x \in Drives \ {d} : at'[x] = at[x] /\ attempt'[x] = attempt[x]
    BY <1>1, <1>8 DEF End, TypeOK
  <2>2. QED  BY <1>1, <1>8, <2>1, IdleAudit DEF AuditInv, TypeOK
<1>9. CASE Delivered(d)
  BY <1>8, <1>9 DEF Delivered
<1>10. CASE Inner(d)
  <2>1. pc[d] = "inner" /\ UNCHANGED granted  BY <1>10 DEF Inner
  <2>2. CASE Raise(d) \/ Stop(d)  BY <1>1, <2>1, <2>2, RaiseAudit
  <2>3. CASE End(d, "ok") /\ UNCHANGED execs  BY <1>8, <2>1, <2>3
  <2>4. CASE pc' = [pc EXCEPT ![d] = "sleep"] /\ UNCHANGED <<at, attempt, execs>>
    <3>1. /\ \A x \in Drives \ {d} : pc'[x] = pc[x]
          /\ pc'[d] = "sleep"
      BY <1>1, <2>4 DEF TypeOK
    <3>2. QED  BY <1>1, <2>1, <2>4, <3>1, IdleAudit DEF AuditInv
  <2>5. QED  BY <1>10, <2>2, <2>3, <2>4 DEF Inner
<1>11. QED
  BY <1>2, <1>3, <1>4, <1>5, <1>6, <1>7, <1>9, <1>10, WakeAudit DEF Step

(* A step that owes an audit entry never runs without one: over all        *)
(* resumes, retries and coroutines that outlive their run it is handed to  *)
(* the dispatcher inside no more often than the decisions in its favour,   *)
(* which are audited before it is called, pay for (dispatch and            *)
(* _dispatch_inner of the composer).                                       *)
THEOREM AuditThm == Spec => []ExecutionIsAudited
<1>1. Init => AuditInv
  <2> SUFFICES ASSUME Init PROVE AuditInv
    OBVIOUS
  <2>1. ASSUME NEW s \in 1 .. setup.size PROVE Covered(s)
    <3>1. Owed(s) = {}  BY DEF Init, Owed
    <3>2. Cardinality(Owed(s)) = 0  BY <3>1, FS_EmptySet
    <3>3. execs[s] = 0 /\ granted[s] = 0  BY DEF Init
    <3>4. 0 * PerPass(s) = 0  BY BoundsAssumption DEF PerPass
    <3>5. QED  BY <3>2, <3>3, <3>4 DEF Covered
  <2>2. QED  BY <2>1 DEF AuditInv, Init
<1>2. TypeInv /\ AuditInv /\ [Next]_vars => AuditInv'
  <2> SUFFICES ASSUME TypeInv, AuditInv, [Next]_vars PROVE AuditInv'
    OBVIOUS
  <2>1. CASE UNCHANGED vars
    BY <2>1, IdleAudit DEF vars, local, AuditInv
  <2>2. CASE Next  BY <2>2, AuditStep DEF Next
  <2>3. QED  BY <2>1, <2>2
<1>3. TypeInv /\ AuditInv => ExecutionIsAudited
  <2> SUFFICES ASSUME TypeInv, AuditInv, NEW s \in DOMAIN execs, Audited(s)
               PROVE  execs[s] <= granted[s] * PerPass(s)
    BY DEF ExecutionIsAudited
  <2>1. TypeOK /\ s \in 1 .. setup.size  BY DEF TypeInv, TypeOK
  <2>2. execs[s] + Cardinality(Owed(s)) <= granted[s] * PerPass(s)
    BY <2>1 DEF AuditInv, Covered
  <2>3. execs[s] \in Nat /\ Cardinality(Owed(s)) \in Nat  BY <2>1, OwedIs DEF TypeOK
  <2> DEFINE g == granted[s] * PerPass(s)
  <2>4. g \in Int  BY <2>1, Paid
  <2>5. QED
    <3>1. execs[s] + Cardinality(Owed(s)) <= g  BY <2>2
    <3> HIDE DEF g
    <3>2. execs[s] <= g  BY <3>1, <2>3, <2>4
    <3>3. QED  BY <3>2 DEF g
<1>4. QED  BY <1>1, <1>2, <1>3, Typed, PTL DEF Spec

-----------------------------------------------------------------------------
(* HitlGate implements GatedRun.                                           *)

(* All steps in front of a drive, and of the last snapshot, have run, and  *)
(* so has the one that is running.                                         *)
Reached(d) ==
  /\ \A s \in 1 .. at[d] - 1 : execs[s] > 0
  /\ pc[d] = "inner" => execs[at[d]] > 0

ReachedInv ==
  /\ \A d \in Drives : Reached(d)
  /\ \A s \in 1 .. snap - 1 : execs[s] > 0

(* A drive goes on only behind a step that has run.                        *)
LEMMA ReachedKeeps ==
  ASSUME TypeInv, ReachedInv, UNCHANGED setup, NEW d \in Drives,
         \A s \in 1 .. setup.size : execs[s] > 0 => execs'[s] > 0,
         \A x \in Drives : at'[x] \in {at[x], 1, snap} \/ (at'[x] = at[x] + 1 /\ execs[at[x]] > 0),
         \A x \in Drives : pc'[x] = "inner" => at'[x] = at[x] /\ execs'[at[x]] > 0,
         snap' \in {snap, at[d]}
  PROVE  ReachedInv'
<1>1. /\ setup.size \in Nat /\ snap \in 0 .. setup.size
      /\ \A x \in Drives : at[x] \in 0 .. setup.size
  BY SizeIs DEF TypeInv, TypeOK
<1>2. /\ \A x \in Drives : \A s \in 1 .. at[x] - 1 : execs[s] > 0
      /\ \A s \in 1 .. snap - 1 : execs[s] > 0
  BY DEF ReachedInv, Reached
<1>3. /\ \A x \in Drives : \A s \in 1 .. at[x] - 1 : execs'[s] > 0
      /\ \A s \in 1 .. snap - 1 : execs'[s] > 0
  BY <1>1, <1>2
<1>4. ASSUME NEW x \in Drives, NEW s \in 1 .. at'[x] - 1 PROVE execs'[s] > 0
  <2>1. CASE at'[x] = at[x]  BY <1>3, <2>1
  <2>2. CASE at'[x] = 1  BY <2>2
  <2>3. CASE at'[x] = snap  BY <1>3, <2>3
  <2>4. CASE at'[x] = at[x] + 1 /\ execs[at[x]] > 0
    <3>1. CASE s = at[x]  BY <1>1, <2>4, <3>1
    <3>2. CASE s # at[x]
      <4>1. s \in 1 .. at[x] - 1  BY <1>1, <2>4, <3>2
      <4>2. QED  BY <1>3, <4>1
    <3>3. QED  BY <3>1, <3>2
  <2>5. QED  BY <2>1, <2>2, <2>3, <2>4
<1>5. \A s \in 1 .. snap' - 1 : execs'[s] > 0  BY <1>3
<1>6. \A x \in Drives : pc'[x] = "inner" => execs'[at'[x]] > 0  OBVIOUS
<1>7. QED  BY <1>4, <1>5, <1>6 DEF ReachedInv, Reached

(* The coroutine of d hands its step to the dispatcher inside.             *)
Enters(d) ==
  /\ pc[d] \in {"gate", "asked", "sleep"} /\ pc' = [pc EXCEPT ![d] = "inner"]
  /\ execs' = [execs EXCEPT ![at[d]] = @ + 1]
  /\ UNCHANGED granted \/ granted' = [granted EXCEPT ![at[d]] = @ + 1]
  /\ \A x \in Drives \ {d} : edit'[x] = edit[x]
  /\ UNCHANGED <<setup, drv, at, snap, refused>>

(* It leaves the step, or does not run it: as far as GatedRun can see.     *)
Leaves(d) ==
  /\ pc'[d] # "inner"
  /\ \A x \in Drives \ {d} :
       pc'[x] = pc[x] /\ at'[x] = at[x] /\ edit'[x] = edit[x] /\ drv'[x] = drv[x]
  /\ \/ at'[d] \in {at[d], 1, snap}
     \/ pc[d] = "inner" /\ at'[d] = at[d] + 1
  /\ drv[d] \in Over => drv'[d] = drv[d]
  /\ drv'[d] = "done" /\ drv[d] # "done" => pc[d] = "inner" /\ at[d] = setup.size
  /\ snap' \in {snap, at[d]}
  /\ UNCHANGED <<setup, execs, granted, refused>>

Gives(d) ==
  /\ drv[d] = "waits" /\ drv' = [drv EXCEPT ![d] = "failed"]
  /\ UNCHANGED <<setup, pc, at, edit, snap, execs, granted, refused>>

Rejects(d) ==
  /\ pc[d] \in {"gate", "asked"} /\ pc' = [pc EXCEPT ![d] = "none"]
  /\ drv' = [drv EXCEPT ![d] = "failed"]
  /\ refused' = [refused EXCEPT ![d] = TRUE]
  /\ \A x \in Drives \ {d} : edit'[x] = edit[x]
  /\ UNCHANGED <<setup, at, snap, execs, granted>>

(* Every step of the model is one of the four.                             *)
Seen(d) == Enters(d) \/ Leaves(d) \/ Gives(d) \/ Rejects(d)

LEMMA EndLeaves ==
  ASSUME TypeInv, NEW d \in Drives, pc[d] # "none", NEW how, End(d, how),
         how = "ok" => pc[d] = "inner", UNCHANGED <<setup, snap, execs, granted, refused>>
  PROVE  Leaves(d)
<1>1. TypeOK /\ Where(d) /\ setup.size \in Nat /\ at[d] \in 0 .. setup.size
  BY SizeIs DEF TypeInv, TypeOK
<1>2. /\ pc'[d] = "none"
      /\ \A x \in Drives \ {d} :
           pc'[x] = pc[x] /\ at'[x] = at[x] /\ edit'[x] = edit[x] /\ drv'[x] = drv[x]
  BY <1>1 DEF End, TypeOK
<1>3. at'[d] = at[d] \/ (how = "ok" /\ at'[d] = at[d] + 1)
  BY <1>1 DEF End, TypeOK
<1>4. /\ drv[d] # "waits" => drv'[d] = drv[d]
      /\ drv[d] = "waits" /\ drv'[d] = "done" => how = "ok" /\ ~(at[d] < setup.size)
  BY <1>1 DEF End, TypeOK
<1>5. at[d] = setup.size \/ at[d] < setup.size  BY <1>1
<1>6. QED  BY <1>1, <1>2, <1>3, <1>4, <1>5 DEF Leaves, Over

LEMMA MoveLeaves ==
  ASSUME TypeInv, NEW d \in Drives, NEW to \in Live \ {"inner"},
         pc' = [pc EXCEPT ![d] = to], UNCHANGED <<drv, at, setup, snap, execs, granted, refused>>,
         \A x \in Drives \ {d} : edit'[x] = edit[x]
  PROVE  Leaves(d)
<1>1. TypeOK  BY DEF TypeInv
<1>2. pc'[d] # "inner" /\ \A x \in Drives \ {d} : pc'[x] = pc[x]
  BY <1>1 DEF TypeOK
<1>3. drv'[d] = "done" => drv[d] = "done"  OBVIOUS
<1>4. QED  BY <1>2, <1>3 DEF Leaves

LEMMA RaiseLeaves ==
  ASSUME TypeInv, NEW d \in Drives, pc[d] # "none", Raise(d) \/ Stop(d),
         UNCHANGED <<setup, snap, granted, refused>>
  PROVE  Leaves(d)
<1>1. CASE Stop(d)  BY <1>1, EndLeaves DEF Stop
<1>2. CASE ~Stop(d)
  <2>1. /\ pc' = [pc EXCEPT ![d] = "sleep"]
        /\ UNCHANGED <<drv, at, edit, execs>>
    BY <1>2 DEF Raise
  <2>2. "sleep" \in Live \ {"inner"}  BY DEF Live
  <2>3. QED  BY <2>1, <2>2, MoveLeaves
<1>3. QED  BY <1>1, <1>2

LEMMA ThroughEnters ==
  ASSUME TypeInv, NEW d \in Drives, pc[d] \in {"gate", "asked"}, NEW a, NEW e, Through(d, a, e),
         UNCHANGED granted \/ granted' = [granted EXCEPT ![at[d]] = @ + 1],
         UNCHANGED <<setup, snap, refused>>
  PROVE  Enters(d)
<1>1. TypeOK  BY DEF TypeInv
<1>2. \A x \in Drives \ {d} : edit'[x] = edit[x]  BY <1>1 DEF Through, TypeOK
<1>3. QED  BY <1>2 DEF Through, Enters

LEMMA DecideSeen ==
  ASSUME TypeInv, NEW d \in Drives, pc[d] \in {"gate", "asked"}, NEW a, NEW f, Decide(d, a, f),
         UNCHANGED <<setup, snap>>
  PROVE  Seen(d)
<1>1. TypeOK /\ drv[d] \in {"waits", "failed"}  BY DEF TypeInv, Where
<1>2. CASE Stop(d) /\ UNCHANGED <<granted, refused>>
  BY <1>2, RaiseLeaves DEF Seen
<1>3. CASE /\ granted' = [granted EXCEPT ![at[d]] = IF setup.step[at[d]].placed THEN @ + 1 ELSE @]
           /\ Through(d, a, IF a = "edit" THEN f ELSE edit[d])
           /\ UNCHANGED refused
  <2>1. UNCHANGED granted \/ granted' = [granted EXCEPT ![at[d]] = @ + 1]
    BY <1>1, <1>3 DEF TypeOK
  <2>2. QED  BY <1>3, <2>1, ThroughEnters DEF Seen
<1>4. CASE Reject(d) /\ UNCHANGED granted
  <2>1. /\ pc' = [pc EXCEPT ![d] = "none"] /\ refused' = [refused EXCEPT ![d] = TRUE]
        /\ UNCHANGED <<at, execs>>
        /\ drv' = [drv EXCEPT ![d] = IF @ # "waits" THEN @ ELSE "failed"]
        /\ edit' = [edit EXCEPT ![d] = 0]
    BY <1>4 DEF Reject, Stop, End
  <2>2. drv' = [drv EXCEPT ![d] = "failed"]  BY <1>1, <2>1 DEF TypeOK
  <2>3. \A x \in Drives \ {d} : edit'[x] = edit[x]  BY <1>1, <2>1 DEF TypeOK
  <2>4. QED  BY <1>4, <2>1, <2>2, <2>3 DEF Seen, Rejects
<1>5. QED  BY <1>2, <1>3, <1>4 DEF Decide

LEMMA OpenSeen ==
  ASSUME TypeInv, NEW d \in Drives, pc[d] = "gate", Open(d), UNCHANGED <<setup, snap>>
  PROVE  Seen(d)
<1>1. CASE Stop(d) /\ UNCHANGED <<granted, refused>>
  BY <1>1, RaiseLeaves DEF Seen
<1>2. CASE /\ Through(d, None, edit[d]) /\ UNCHANGED refused
           /\ UNCHANGED granted \/ granted' = [granted EXCEPT ![at[d]] = @ + 1]
  BY <1>2, ThroughEnters DEF Seen
<1>3. CASE /\ pc' = [pc EXCEPT ![d] = IF Escalates THEN "webhook" ELSE "asked"]
           /\ UNCHANGED <<drv, at, attempt, edit, last, execs, granted, refused>>
  <2>1. (IF Escalates THEN "webhook" ELSE "asked") \in Live \ {"inner"}  BY DEF Live
  <2>2. QED  BY <1>3, <2>1, MoveLeaves DEF Seen
<1>4. QED  BY <1>1, <1>2, <1>3 DEF Open

LEMMA StepSeen ==
  ASSUME TypeInv, NEW d \in Drives, Step(d)
  PROVE  Seen(d)
<1>1. TypeOK  BY DEF TypeInv
<1>2. UNCHANGED <<setup, snap>>
  BY DEF Step, Gate, Answer, Unanswered, Delivered, Undelivered, Inner, Wake
<1>3. CASE Gate(d)
  BY <1>2, <1>3, DecideSeen, OpenSeen DEF Gate
<1>4. CASE Answer(d)
  <2>1. PICK a \in Answers : Decide(d, a, at[d])  BY <1>4 DEF Answer
  <2>2. QED  BY <1>2, <1>4, <2>1, DecideSeen DEF Answer
<1>5. CASE Unanswered(d) \/ Undelivered(d)
  <2>1. pc[d] # "none" /\ UNCHANGED <<granted, refused>>
    BY <1>5 DEF Unanswered, Undelivered
  <2>2. CASE Raise(d) \/ Stop(d)  BY <1>2, <2>1, <2>2, RaiseLeaves DEF Seen
  <2>3. CASE /\ pc' = [pc EXCEPT ![d] = "webhook"]
             /\ UNCHANGED <<drv, at, attempt, edit, last, execs>>
    <3>1. "webhook" \in Live \ {"inner"}  BY DEF Live
    <3>2. QED  BY <1>2, <2>1, <2>3, <3>1, MoveLeaves DEF Seen
  <2>4. QED  BY <1>5, <2>2, <2>3 DEF Unanswered, Undelivered
<1>6. CASE Delivered(d)
  <2>1. /\ pc[d] = "webhook" /\ End(d, "pause") /\ UNCHANGED <<granted, refused, execs>>
    BY <1>6 DEF Delivered
  <2>2. QED  BY <1>2, <2>1, EndLeaves DEF Seen
<1>7. CASE Inner(d)
  <2>1. pc[d] = "inner" /\ UNCHANGED <<granted, refused>>  BY <1>7 DEF Inner
  <2>2. CASE Raise(d) \/ Stop(d)  BY <1>2, <2>1, <2>2, RaiseLeaves DEF Seen
  <2>3. CASE End(d, "ok") /\ UNCHANGED execs  BY <1>2, <2>1, <2>3, EndLeaves DEF Seen
  <2>4. CASE /\ pc' = [pc EXCEPT ![d] = "sleep"]
             /\ UNCHANGED <<drv, at, attempt, edit, last, execs>>
    <3>1. "sleep" \in Live \ {"inner"}  BY DEF Live
    <3>2. QED  BY <1>2, <2>1, <2>4, <3>1, MoveLeaves DEF Seen
  <2>5. QED  BY <1>7, <2>2, <2>3, <2>4 DEF Inner
<1>8. CASE Wake(d)
  <2>1. pc[d] = "sleep" /\ UNCHANGED <<drv, at, granted, refused>>  BY <1>8 DEF Wake
  <2>2. CASE /\ pc' = [pc EXCEPT ![d] = "inner"] /\ execs' = [execs EXCEPT ![at[d]] = @ + 1]
             /\ UNCHANGED <<edit, last>>
    BY <1>2, <2>1, <2>2 DEF Seen, Enters
  <2>3. CASE pc' = [pc EXCEPT ![d] = "gate"] /\ edit' = [edit EXCEPT ![d] = 0] /\ UNCHANGED execs
    <3>1. "gate" \in Live \ {"inner"}  BY DEF Live
    <3>2. \A x \in Drives \ {d} : edit'[x] = edit[x]  BY <1>1, <2>3 DEF TypeOK
    <3>3. QED  BY <1>2, <2>1, <2>3, <3>1, <3>2, MoveLeaves DEF Seen
  <2>4. QED  BY <1>8, <2>2, <2>3 DEF Wake
<1>9. QED  BY <1>3, <1>4, <1>5, <1>6, <1>7, <1>8 DEF Step

LEMMA DriverSeen ==
  ASSUME TypeInv, NEW d \in Drives, Start(d) \/ Dispatch(d) \/ Timeout(d) \/ Capture(d)
  PROVE  Seen(d)
<1>1. TypeOK /\ Where(d)  BY DEF TypeInv
<1>2. UNCHANGED <<setup, edit, execs, granted, refused>>
  BY DEF Start, Dispatch, Timeout, Capture, local
<1>3. CASE Start(d)
  <2>1. /\ drv[d] = "new" /\ drv' = [drv EXCEPT ![d] = "ready"] /\ UNCHANGED <<pc, snap>>
        /\ at' = [at EXCEPT ![d] = 1] \/ at' = [at EXCEPT ![d] = snap]
    BY <1>3 DEF Start
  <2>2. pc'[d] = "none" /\ drv'[d] = "ready"  BY <1>1, <2>1 DEF Where, TypeOK
  <2>3. at'[d] \in {1, snap} /\ \A x \in Drives \ {d} : at'[x] = at[x] /\ drv'[x] = drv[x]
    BY <1>1, <2>1 DEF TypeOK
  <2>4. QED  BY <1>2, <2>1, <2>2, <2>3 DEF Seen, Leaves, Over
<1>4. CASE Dispatch(d)
  <2>1. /\ drv[d] = "ready" /\ UNCHANGED <<at, snap>>
        /\ drv' = [drv EXCEPT ![d] = "capturing"] \/ drv' = [drv EXCEPT ![d] = "waits"]
        /\ UNCHANGED pc \/ pc' = [pc EXCEPT ![d] = "gate"]
    BY <1>4 DEF Dispatch
  <2>2. pc'[d] # "inner" /\ drv'[d] \in {"capturing", "waits"}
    BY <1>1, <2>1 DEF Where, TypeOK
  <2>3. \A x \in Drives \ {d} : pc'[x] = pc[x] /\ drv'[x] = drv[x]
    BY <1>1, <2>1 DEF TypeOK
  <2>4. QED  BY <1>2, <2>1, <2>2, <2>3 DEF Seen, Leaves, Over
<1>5. CASE Timeout(d)
  BY <1>2, <1>5 DEF Timeout, Seen, Gives
<1>6. CASE Capture(d)
  <2>1. /\ drv[d] = "capturing" /\ UNCHANGED <<pc, at>> /\ snap' \in {snap, at[d]}
        /\ drv' = [drv EXCEPT ![d] = "paused"] \/ drv' = [drv EXCEPT ![d] = "failed"]
    BY <1>6 DEF Capture
  <2>2. pc'[d] # "inner" /\ drv'[d] \in {"paused", "failed"}
    BY <1>1, <2>1 DEF Where, TypeOK
  <2>3. \A x \in Drives \ {d} : drv'[x] = drv[x]
    BY <1>1, <2>1 DEF TypeOK
  <2>4. QED  BY <1>2, <2>1, <2>2, <2>3 DEF Seen, Leaves, Over
<1>7. QED  BY <1>3, <1>4, <1>5, <1>6

LEMMA SeenIs ==
  ASSUME TypeInv, Next
  PROVE  \E d \in Drives : Seen(d)
BY StepSeen, DriverSeen DEF Next

LEMMA ReachedStep ==
  ASSUME TypeInv, ReachedInv, [Next]_vars
  PROVE  ReachedInv'
<1>1. CASE UNCHANGED vars  BY <1>1 DEF vars, ReachedInv, Reached
<1>2. CASE Next
  <2>1. PICK d \in Drives : Seen(d)  BY <1>2, SeenIs
  <2>2. /\ TypeOK /\ setup.size \in Nat /\ (pc[d] # "none" => at[d] \in 1 .. setup.size)
        /\ execs \in [1 .. setup.size -> Nat]
    BY SizeIs DEF TypeInv, TypeOK, Where
  <2>3. UNCHANGED setup  BY <2>1 DEF Seen, Enters, Leaves, Gives, Rejects
  <2>4. CASE Enters(d)
    <3>1. /\ at[d] \in 1 .. setup.size /\ UNCHANGED <<at, snap>>
          /\ pc' = [pc EXCEPT ![d] = "inner"] /\ execs' = [execs EXCEPT ![at[d]] = @ + 1]
      BY <2>2, <2>4 DEF Enters
    <3>2. \A s \in 1 .. setup.size : execs[s] > 0 => execs'[s] > 0  BY <2>2, <3>1
    <3>3. execs'[at[d]] > 0  BY <2>2, <3>1
    <3>4. ASSUME NEW x \in Drives, pc'[x] = "inner" PROVE execs'[at[x]] > 0
      <4>1. CASE x = d  BY <3>3, <4>1
      <4>2. CASE x # d
        <5>1. pc[x] = "inner"  BY <2>2, <3>1, <3>4, <4>2 DEF TypeOK
        <5>2. at[x] \in 1 .. setup.size  BY <2>2, <5>1 DEF TypeInv, TypeOK, Where
        <5>3. QED  BY <3>2, <5>1, <5>2 DEF ReachedInv, Reached
      <4>3. QED  BY <4>1, <4>2
    <3>5. QED  BY <2>3, <3>1, <3>2, <3>4, ReachedKeeps
  <2>5. CASE Leaves(d)
    <3>1. UNCHANGED execs /\ snap' \in {snap, at[d]}  BY <2>5 DEF Leaves
    <3>2. ASSUME NEW x \in Drives
          PROVE  /\ at'[x] \in {at[x], 1, snap} \/ (at'[x] = at[x] + 1 /\ execs[at[x]] > 0)
                 /\ pc'[x] = "inner" => at'[x] = at[x] /\ execs'[at[x]] > 0
      BY <2>5, <3>1 DEF Leaves, ReachedInv, Reached
    <3>3. QED  BY <2>3, <3>1, <3>2, ReachedKeeps
  <2>6. CASE Gives(d) \/ Rejects(d)
    <3>1. /\ UNCHANGED <<at, snap, execs>>
          /\ UNCHANGED pc \/ pc' = [pc EXCEPT ![d] = "none"]
      BY <2>6 DEF Gives, Rejects
    <3>2. \A x \in Drives : pc'[x] = "inner" => pc[x] = "inner"  BY <2>2, <3>1 DEF TypeOK
    <3>3. \A x \in Drives : pc'[x] = "inner" => execs'[at[x]] > 0
      BY <3>1, <3>2 DEF ReachedInv, Reached
    <3>4. QED  BY <2>3, <3>1, <3>3, ReachedKeeps
  <2>7. QED  BY <2>1, <2>4, <2>5, <2>6 DEF Seen
<1>3. QED  BY <1>1, <1>2

(* What a setup asks of its steps never changes.                           *)
LEMMA RulesStay ==
  ASSUME UNCHANGED setup
  PROVE  /\ {s \in 1 .. setup.size : Audited(s)}' = {s \in 1 .. setup.size : Audited(s)}
         /\ [s \in 1 .. setup.size |-> PerPass(s)]' = [s \in 1 .. setup.size |-> PerPass(s)]
<1>1. \A s \in 1 .. setup.size : (Audited(s)' <=> Audited(s)) /\ PerPass(s)' = PerPass(s)
  BY AuditedIs
<1>2. QED  BY <1>1

LEMMA EntersRuns ==
  ASSUME TypeInv, ReachedInv, RejectedRunsNothing, ExecutionIsAudited', PayloadIsAgreed',
         NEW d \in Drives, Enters(d)
  PROVE  Promise!Next
<1>1. /\ TypeOK /\ setup.size \in Nat /\ at[d] \in 1 .. setup.size /\ ~refused[d]
      /\ execs \in [1 .. setup.size -> Nat] /\ DOMAIN execs = 1 .. setup.size
  BY SizeIs DEF Enters, TypeInv, TypeOK, Where, RejectedRunsNothing
<1>2. /\ pc[d] # "inner" /\ pc' = [pc EXCEPT ![d] = "inner"]
      /\ execs' = [execs EXCEPT ![at[d]] = @ + 1]
      /\ UNCHANGED <<setup, drv, at, refused>>
  BY DEF Enters
<1> PICK s \in 1 .. setup.size : s = at[d]  BY <1>1
<1> DEFINE owed == {t \in 1 .. setup.size : Audited(t)}
           credit == [t \in 1 .. setup.size |-> PerPass(t)]
<1>3. owed' = owed /\ credit' = credit  BY <1>2, RulesStay
<1>4. ~refused[d] /\ Running[d] = 0  BY <1>1, <1>2 DEF Running
<1>5. \A t \in 1 .. s - 1 : execs[t] > 0  BY DEF ReachedInv, Reached
<1>6. \/ granted' = [granted EXCEPT ![s] = @ + 1]
      \/ UNCHANGED granted /\ (s \in owed => execs[s] < granted[s] * credit[s])
  <2>1. ASSUME UNCHANGED granted, s \in owed PROVE execs[s] < granted[s] * credit[s]
    <3>1. execs'[s] = execs[s] + 1 /\ s \in DOMAIN execs' /\ execs[s] \in Nat
      BY <1>1, <1>2
    <3>2. Audited(s)' /\ PerPass(s)' = PerPass(s)  BY <1>2, <2>1, AuditedIs
    <3>3. execs'[s] <= granted'[s] * PerPass(s)'
      <4>1. \A t \in DOMAIN execs' : Audited(t)' => execs'[t] <= granted'[t] * PerPass(t)'
        BY DEF ExecutionIsAudited
      <4>2. QED  BY <3>1, <3>2, <4>1
    <3> DEFINE g == granted[s] * PerPass(s)
    <3>4. g \in Int  BY <1>1, Paid
    <3>5. execs[s] < g
      <4>1. execs[s] + 1 <= g  BY <2>1, <3>1, <3>2, <3>3
      <4> HIDE DEF g
      <4>2. QED  BY <3>1, <3>4, <4>1
    <3>6. credit[s] = PerPass(s)  BY <1>1
    <3>7. QED  BY <3>5, <3>6
  <2>2. QED  BY <2>1 DEF Enters
<1>7. Running' = [Running EXCEPT ![d] = s]
  BY <1>1, <1>2 DEF Running, TypeOK
<1>8. \E e \in {0, s} : Edited' = [Edited EXCEPT ![d] = e]
  <2>1. pc'[d] = "inner"  BY <1>1, <1>2 DEF TypeOK
  <2>2. edit'[d] \in {0, s}  BY <1>2, <2>1 DEF PayloadIsAgreed
  <2>3. \A x \in Drives \ {d} : pc'[x] = pc[x] /\ edit'[x] = edit[x]
    BY <1>1, <1>2 DEF Enters, TypeOK
  <2>4. Edited' = [Edited EXCEPT ![d] = edit'[d]]  BY <2>1, <2>3 DEF Edited
  <2>5. QED  BY <2>2, <2>4
<1>9. Outcome' = Outcome /\ {x \in Drives : refused[x]}' = {x \in Drives : refused[x]}
  BY <1>2 DEF Outcome
<1>10. Promise!Run(d, s)
  BY <1>2, <1>3, <1>4, <1>5, <1>6, <1>7, <1>8, <1>9 DEF Promise!Run, Promise!rules
<1>11. QED  BY <1>1, <1>10 DEF Promise!Next, Promise!Steps

LEMMA LeavesSettles ==
  ASSUME TypeInv, ReachedInv, NEW d \in Drives, Leaves(d)
  PROVE  Promise!Next
<1>1. /\ TypeOK /\ setup.size \in Nat /\ DOMAIN execs = 1 .. setup.size
  BY SizeIs DEF TypeInv, TypeOK
<1>2. Running' = [Running EXCEPT ![d] = 0]  BY DEF Leaves, Running
<1>3. Edited' = [Edited EXCEPT ![d] = 0]  BY DEF Leaves, Edited
<1>4. \/ Outcome' = Outcome
      \/ /\ Outcome[d] = "open"
         /\ \/ \E how \in {"failed", "paused"} : Outcome' = [Outcome EXCEPT ![d] = how]
            \/ drv'[d] = "done" /\ drv[d] # "done" /\ Outcome' = [Outcome EXCEPT ![d] = "done"]
  <2>1. \A x \in Drives \ {d} : drv'[x] = drv[x]  BY DEF Leaves
  <2>2. CASE drv[d] \in Over \/ drv'[d] \notin Over
    <3>1. \A x \in Drives : Outcome'[x] = Outcome[x]  BY <2>1, <2>2 DEF Leaves, Outcome
    <3>2. QED  BY <3>1 DEF Outcome
  <2>3. CASE drv[d] \notin Over /\ drv'[d] \in Over
    <3>1. Outcome[d] = "open" /\ Outcome'[d] = drv'[d]  BY <2>3 DEF Outcome
    <3>2. \A x \in Drives \ {d} : Outcome'[x] = Outcome[x]  BY <2>1 DEF Outcome
    <3>3. Outcome' = [Outcome EXCEPT ![d] = drv'[d]]  BY <3>1, <3>2 DEF Outcome
    <3>4. drv'[d] \in {"paused", "failed", "done"}  BY <2>3 DEF Over
    <3>5. QED  BY <2>3, <3>1, <3>3, <3>4 DEF Over
  <2>4. QED  BY <2>2, <2>3
<1>5. drv'[d] = "done" /\ drv[d] # "done" => \A s \in 1 .. setup.size : execs[s] > 0
  <2> SUFFICES ASSUME drv'[d] = "done", drv[d] # "done", NEW s \in 1 .. setup.size
               PROVE  execs[s] > 0
    OBVIOUS
  <2>1. pc[d] = "inner" /\ at[d] = setup.size  BY DEF Leaves
  <2>2. s \in 1 .. at[d] - 1 \/ s = at[d]  BY <1>1, <2>1
  <2>3. QED  BY <2>1, <2>2 DEF ReachedInv, Reached
<1>6. UNCHANGED <<setup, execs, granted, refused>>  BY DEF Leaves
<1>7. Promise!Settle(d)
  BY <1>1, <1>2, <1>3, <1>4, <1>5, <1>6, RulesStay
  DEF Promise!Settle, Promise!rules, Promise!Steps
<1>8. QED  BY <1>7 DEF Promise!Next

LEMMA GivesAbandons ==
  ASSUME TypeInv, NEW d \in Drives, Gives(d) \/ Rejects(d)
  PROVE  Promise!Next
<1>1. TypeOK /\ Where(d)  BY DEF TypeInv
<1>2. CASE Gives(d)
  <2>1. Running' = Running /\ Edited' = Edited  BY <1>2 DEF Gives, Running, Edited
  <2>2. Outcome[d] = "open" /\ Outcome' = [Outcome EXCEPT ![d] = "failed"]
    BY <1>1, <1>2 DEF Gives, Outcome, Over, TypeOK
  <2>3. UNCHANGED <<setup, execs, granted, refused>>  BY <1>2 DEF Gives
  <2>4. Promise!Abandon(d)
    BY <2>1, <2>2, <2>3, RulesStay DEF Promise!Abandon, Promise!rules
  <2>5. QED  BY <2>4 DEF Promise!Next
<1>3. CASE Rejects(d)
  <2>1. /\ pc[d] \in {"gate", "asked"} /\ pc' = [pc EXCEPT ![d] = "none"]
        /\ drv[d] \in {"waits", "failed"} /\ drv' = [drv EXCEPT ![d] = "failed"]
        /\ refused' = [refused EXCEPT ![d] = TRUE]
        /\ \A x \in Drives \ {d} : edit'[x] = edit[x]
        /\ UNCHANGED <<setup, at, execs, granted>>
    BY <1>1, <1>3 DEF Rejects, Where
  <2>2. Running' = Running /\ Edited' = Edited /\ Running[d] = 0
    BY <1>1, <2>1 DEF Running, Edited, TypeOK
  <2>3. Outcome[d] \in {"open", "failed"} /\ Outcome' = [Outcome EXCEPT ![d] = "failed"]
    BY <1>1, <2>1 DEF Outcome, Over, TypeOK
  <2>4. {x \in Drives : refused[x]}' = {x \in Drives : refused[x]} \cup {d}
    BY <1>1, <2>1 DEF TypeOK
  <2>5. Promise!Reject(d)
    BY <2>1, <2>2, <2>3, <2>4, RulesStay DEF Promise!Reject, Promise!rules
  <2>6. QED  BY <2>5 DEF Promise!Next
<1>4. QED  BY <1>2, <1>3

LEMMA PromiseStep ==
  ASSUME TypeInv, ReachedInv, RejectedRunsNothing, ExecutionIsAudited', PayloadIsAgreed',
         [Next]_vars
  PROVE  [Promise!Next]_(Promise!vars)
<1>1. CASE UNCHANGED vars
  <2>1. UNCHANGED <<setup, pc, at, drv, edit, refused, granted, execs>>
    BY <1>1 DEF vars, local
  <2>2. Running' = Running /\ Edited' = Edited /\ Outcome' = Outcome
    BY <2>1 DEF Running, Edited, Outcome
  <2>3. QED  BY <2>1, <2>2, RulesStay DEF Promise!vars
<1>2. CASE Next
  <2>1. PICK d \in Drives : Seen(d)  BY <1>2, SeenIs
  <2>2. QED  BY <2>1, EntersRuns, LeavesSettles, GivesAbandons DEF Seen
<1>3. QED  BY <1>1, <1>2

(* A run and its resumes keep the promise of GatedRun: whatever the        *)
(* operator answers and whenever, whichever timeout leaves a coroutine     *)
(* behind, in a context of their own or in a shared one, every run of a    *)
(* step that owes an entry is on the credit of recorded decisions, in the  *)
(* order of the workflow and with a payload that was agreed, and what a    *)
(* drive has ended with stays (the composer's dispatch under the driver).  *)
THEOREM GatedRunThm == Spec => ImplementsGatedRun
<1>1. Init => Promise!Init /\ ReachedInv
  <2> SUFFICES ASSUME Init PROVE Promise!Init /\ ReachedInv
    OBVIOUS
  <2>1. /\ pc = [d \in Drives |-> "none"] /\ drv = [d \in Drives |-> "new"]
        /\ refused = [d \in Drives |-> FALSE] /\ snap = 0 /\ at = [d \in Drives |-> 0]
        /\ granted = [s \in 1 .. setup.size |-> 0] /\ execs = [s \in 1 .. setup.size |-> 0]
    BY DEF Init
  <2>2. /\ Running = [d \in Drives |-> 0] /\ Edited = [d \in Drives |-> 0]
        /\ Outcome = [d \in Drives |-> "open"] /\ {d \in Drives : refused[d]} = {}
    BY <2>1 DEF Running, Edited, Outcome, Over
  <2>3. DOMAIN execs = 1 .. setup.size  BY <2>1
  <2>4. [s \in 1 .. setup.size |-> PerPass(s)] \in [1 .. setup.size -> Nat \ {0}]
    BY BoundsAssumption DEF PerPass
  <2>5. Promise!Init  BY <2>1, <2>2, <2>3, <2>4 DEF Promise!Init, Promise!Steps
  <2>6. ReachedInv  BY <2>1 DEF ReachedInv, Reached
  <2>7. QED  BY <2>5, <2>6
<1>2. QED
  BY <1>1, PromiseStep, ReachedStep, Typed, RejectThm, AuditThm, PayloadThm, PTL
  DEF Spec, ImplementsGatedRun, Promise!Spec
=============================================================================
