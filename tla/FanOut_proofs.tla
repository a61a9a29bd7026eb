---------------------------- MODULE FanOut_proofs ----------------------------
(***************************************************************************)
(* Proofs about FanOut, for every number of branches, every mix of step    *)
(* kinds, and any number of drives, crashes and failing branches: type     *)
(* correctness, that the store knows every branch the ledger or a snapshot *)
(* calls ended, that no effect runs twice, that a success is whole and     *)
(* that a failure is final; and that all of it is a run of FanOutRun.      *)
(*                                                                         *)
(* And about Orchestrator, which is built around FanOut's steps: that its  *)
(* own effect does not run twice, that all workers of a run stand under    *)
(* one output of it, that all drives report one synthesis, and that a      *)
(* success has all of them behind it.                                      *)
(***************************************************************************)
EXTENDS Orchestrator, FiniteSetTheorems, TLAPS

-----------------------------------------------------------------------------
(* Inductive invariants.                                                   *)

(* What the ledger, a snapshot or a buffer calls ended is in the store.    *)
Covered(b) ==
  /\ ends[b] \in {"completed", "timed_out"} => b \in Readable
  /\ bufEnds[b] \in {"completed", "timed_out"} => b \in Readable
  /\ fate[b] # "absent" => b \in Readable
  /\ \A s \in snapshots : s[b] \notin {"absent", "held"} => b \in Readable

RecordInv == Store /\ ~lost => \A b \in Branches : Covered(b)

(* Whoever has passed the fence is the only one who may still run.         *)
Guarded(b) ==
  /\ runs[b] <= 1
  /\ place[b] = "called" => runs[b] = 0 /\ zombies[b] = "none"
  /\ zombies[b] = "called" => runs[b] = 0
  /\ fence[b] = "none" =>
       runs[b] = 0 /\ zombies[b] = "none" /\ place[b] \notin {"called", "acted"}
  /\ directive[b] = "re_fire" /\ place[b] \in {"planned", "marked", "flying"} =>
       runs[b] = 0 /\ zombies[b] = "none"

FenceInv == \A b \in Branches : kind[b] = "fenced" => Guarded(b)

(* Where the branches of a drive can be.                                   *)
Placed(b) ==
  /\ pc \in {"cardinality", "instrument", "mark"} =>
       place[b] \in {"off", "planned", "scope", "scoped", "marked", "unmarked"}
  /\ place[b] \in {"flying", "called", "acted", "output", "error", "ambiguous",
                   "abort", "cut"} => pc = "run"
  /\ place[b] \in {"ambiguous", "abort", "held", "aborted"} => kind[b] = "fenced"
  /\ place[b] = "scope" => snapshots # {}
  /\ place[b] = "unmarked" => lost

PlaceInv == \A b \in Branches : Placed(b)

(* Something of the run has been dispatched: it has left a trace on disk,  *)
(* or it is under way, or it has had an effect.                            *)
Traced == snapshots # {} \/ \E b \in Branches : record[b] # "absent"

Begun ==
  \/ Traced
  \/ pc \in {"run", "drain"}
  \/ \E b \in Branches : runs[b] # 0 \/ zombies[b] # "none"

(* By then every branch is marked.                                         *)
AllMarked == Begun => \A b \in Branches : marker[b] # "absent"

MarkedAfterCardinality ==
  Begun \/ pc \in {"instrument", "mark"} \/ (\E b \in Branches : marker[b] # "absent")
    => cardinality # "absent"

SettledBefore ==
  \A b \in Branches :
    /\ place[b] = "marked" => marker[b] # "absent"
    /\ pc # "idle" /\ place[b] = "off" => Traced
    /\ place[b] = "scoped" => Traced

MarkInv == Marks /\ ~lost => AllMarked /\ MarkedAfterCardinality /\ SettledBefore

(* An opaque branch is dispatched only while it has never been, and every  *)
(* snapshot names its end.                                                 *)
DispatchedOnce(b) ==
  /\ runs[b] <= 1
  /\ zombies[b] = "called" => runs[b] = 0
  /\ place[b] \in {"planned", "marked", "flying", "called"} =>
       runs[b] = 0 /\ zombies[b] # "called"
  /\ pc # "idle" /\ place[b] \in {"off", "done", "scoped"} => fate[b] # "absent"
  /\ \A s \in snapshots : s[b] \notin {"absent", "held"}

OpaqueInv ==
  Marks /\ ~lost => \A b \in Branches : kind[b] = "opaque" => DispatchedOnce(b)

(* An output that anything speaks of comes from an effect.                 *)
HasRun(b) ==
  \/ place[b] \in {"acted", "output"} \/ zombies[b] = "acted" \/ fence[b] = "captured"
  \/ directive[b] = "skip_as_fired"
  \/ record[b] = "output" \/ fate[b] = "output"
  \/ \E s \in snapshots : s[b] = "output"

EffectInv == \A b \in Branches : HasRun(b) => runs[b] > 0

(* A branch whose end the drive does not know counts as a failure.         *)
UnknownFails ==
  \A b \in Branches :
    /\ place[b] \in {"done", "scoped"} => fate[b] # "absent" \/ failed
    /\ place[b] = "unmarked" => failed
    /\ place[b] \in {"held", "aborted"} => failed \/ struck
    /\ pc # "idle" /\ place[b] = "off" =>
         fate[b] # "absent" \/ \E c \in Branches : place[c] = "off" /\ fate[c] = "error"

WholeInv ==
  /\ UnknownFails
  /\ verdict # "none" => pc = "drain"
  /\ SuccessIsWhole

(* Under CASCADE_CANCEL no drive pauses, and one that runs with a recorded *)
(* failure has seen it fail.                                               *)
ErrorRecorded == \E b \in Branches : record[b] = "error"

FailureSeen ==
  /\ snapshots = {}
  /\ pc # "idle" => result = "none"
  /\ \A b \in Branches : place[b] = "held" => failed \/ struck
  /\ pc # "idle" /\ ErrorRecorded => failed \/ struck
  /\ pc = "drain" /\ ErrorRecorded => verdict \notin {"SUCCESS", "PARTIAL", "PAUSED"}
  /\ ErrorRecorded => result \notin {"SUCCESS", "PARTIAL", "PAUSED"}

CascadeInv == policy = "cascade-cancel" /\ Store => FailureSeen

-----------------------------------------------------------------------------
(* Type correctness.                                                       *)

(* A drive that ends leaves no local state.                                *)
LEMMA ResetTyped ==
  ASSUME Reset
  PROVE  PlanOK' /\ bufSteps' = {} /\ bufEnds' \in [Branches -> Endings]
         /\ failed' = FALSE /\ struck' = FALSE /\ verdict' = "none"
<1>1. PlanOK'
  BY DEF Reset, All, PlanOK, Fates, Places
<1>2. bufEnds' \in [Branches -> Endings]
  BY DEF Reset, All, Endings
<1> QED
  BY <1>1, <1>2 DEF Reset

LEMMA TypeNext == TypeOK /\ [Next]_vars => TypeOK'
<1> USE FanOutAssumption
<1> SUFFICES ASSUME TypeOK, [Next]_vars PROVE TypeOK'
  OBVIOUS
<1> USE DEF TypeOK, ManifestOK, StoreOK, LedgerOK, WorldOK, PlanOK, OutcomeOK, BudgetOK,
           Fates, Endings, Places, manifest, store, ledger, world, buffers, local, budget
<1>1. CASE Refuse
  BY <1>1 DEF Refuse
<1>2. CASE Drive
  <2>1. pc' \in {"cardinality", "mark"} /\ origin' \in {"fresh", "crash"}
    BY <1>2 DEF Drive, Prepare
  <2>2. place' \in [Branches -> Places] /\ directive' \in [Branches -> {"none"}]
    BY <1>2 DEF Drive, Prepare, All
  <2>3. fate' \in [Branches -> Fates]
    BY <1>2 DEF Drive, Prepare, Recovered, Readable, TimedOut
  <2>4. bufSteps' \subseteq Branches /\ bufEnds' \in [Branches -> Endings]
    BY <1>2 DEF Drive, Recovered, Readable, TimedOut
  <2>5. drives' \in 0 .. MaxDrives /\ result' = "none"
    BY <1>2 DEF Drive, Prepare
  <2>6. UNCHANGED <<manifest, store, ledger, world, snapshots, budget, failed, struck, verdict>>
    BY <1>2 DEF Drive, Prepare
  <2> QED
    BY <2>1, <2>2, <2>3, <2>4, <2>5, <2>6
<1>3. CASE \E s \in snapshots : Resume(s)
  BY <1>3 DEF Resume, Prepare, Answers
<1>4. CASE WriteCardinality
  BY <1>4 DEF WriteCardinality, Untouched
<1>5. CASE WriteInstrumented
  BY <1>5 DEF WriteInstrumented, Untouched
<1>6. CASE \E b \in Branches : WriteScoped(b)
  BY <1>6 DEF WriteScoped, Untouched
<1>7. CASE \E b \in Branches : Mark(b)
  BY <1>7 DEF Mark, Untouched
<1>8. CASE \E b \in Branches : MarkFails(b)
  BY <1>8 DEF MarkFails, Untouched, WriteFails
<1>9. CASE Launch
  BY <1>9 DEF Launch, Untouched
<1>10. CASE \E b \in Branches : Begin(b)
  BY <1>10 DEF Begin, Thread, Untouched
<1>11. CASE \E b \in Branches : Effect(b)
  BY <1>11 DEF Effect, Thread, Untouched
<1>12. CASE \E b \in Branches : ThreadReturns(b)
  BY <1>12 DEF ThreadReturns, Thread, Untouched
<1>13. CASE \E b \in Branches : ThreadFails(b)
  BY <1>13 DEF ThreadFails, Thread, Untouched, Fault
<1>14. CASE \E b \in Branches : ZombieActs(b)
  BY <1>14 DEF ZombieActs, Untouched, KeepLocal
<1>15. CASE \E b \in Branches : ZombieEnds(b)
  BY <1>15 DEF ZombieEnds, Untouched, KeepLocal
<1>16. CASE \E b \in Branches : Settle(b)
  BY <1>16 DEF Settle, Untouched, Disposition, End
<1>17. CASE \E b \in Branches : SettleFence(b)
  BY <1>17 DEF SettleFence, Untouched
<1>18. CASE \E b \in Branches : SettleFails(b)
  BY <1>18 DEF SettleFails, Untouched, Disposition, End, WriteFails
<1>19. CASE Deadline
  BY <1>19 DEF Deadline, Untouched
<1>20. CASE \E b \in Branches : Fill(b)
  BY <1>20 DEF Fill, Untouched
<1>21. CASE Decide
  BY <1>21 DEF Decide, Status, Snapshot
<1>22. CASE \E b \in Branches : Drain(b)
  BY <1>22 DEF Drain, Untouched
<1>23. CASE Return
  BY <1>23 DEF Return, Reset, All
<1>24. CASE StoreRaises
  <2>1. Reset /\ result' = "RAISED" /\ lost' = TRUE /\ faults' \in 0 .. MaxFaults
    BY <1>24 DEF StoreRaises, Raise, WriteFails
  <2>2. UNCHANGED <<manifest, store, ledger, world, snapshots, drives>>
    BY <1>24 DEF StoreRaises, Raise
  <2> QED
    BY <2>1, <2>2, ResetTyped
<1>25. CASE DrainRaises
  <2>1. Reset /\ result' = "RAISED" /\ UNCHANGED lost /\ faults' \in 0 .. MaxFaults
    BY <1>25 DEF DrainRaises, Raise, Fault
  <2>2. UNCHANGED <<manifest, store, ledger, world, snapshots, drives>>
    BY <1>25 DEF DrainRaises, Raise
  <2> QED
    BY <2>1, <2>2, ResetTyped
<1>26. CASE Crash
  <2>1. Reset /\ result' \in {result, "none"} /\ UNCHANGED lost /\ faults' \in 0 .. MaxFaults
    BY <1>26 DEF Crash, Fault
  <2>2. StoreOK'
    <3>1. cardinality' \in {"absent", "torn", "set"}
      BY <1>26 DEF Crash
    <3>2. instrumented' \in BOOLEAN
      BY <1>26 DEF Crash
    <3>3. record' \in [Branches -> Fates \cup {"torn"}]
      BY <1>26 DEF Crash
    <3>4. marker' \in [Branches -> {"absent", "torn", "set"}]
      <5>1. PICK b \in Branches :
              marker' \in {marker, [marker EXCEPT ![b] = "torn"]}
        BY <1>26 DEF Crash, Branches
      <5> QED
        BY <5>1
    <3> QED
      BY <3>1, <3>2, <3>3, <3>4
  <2>3. zombies' = All("none")
        /\ UNCHANGED <<manifest, ledger, fence, runs, snapshots, drives>>
    BY <1>26 DEF Crash
  <2> QED
    BY <2>1, <2>2, <2>3, ResetTyped DEF All
<1>27. CASE UNCHANGED vars
  BY <1>27 DEF vars
<1> QED
  BY <1>1, <1>2, <1>3, <1>4, <1>5, <1>6, <1>7, <1>8, <1>9, <1>10, <1>11, <1>12,
     <1>13, <1>14, <1>15, <1>16, <1>17, <1>18, <1>19, <1>20, <1>21, <1>22, <1>23,
     <1>24, <1>25, <1>26, <1>27 DEF Next, Loop, Threads, Faulty

LEMMA TypeInit == Init => TypeOK
<1> USE FanOutAssumption
<1> SUFFICES ASSUME Init PROVE TypeOK
  OBVIOUS
<1>1. ManifestOK
  BY DEF Init, ManifestOK
<1>2. StoreOK
  BY DEF Init, All, StoreOK, Fates
<1>3. LedgerOK
  BY DEF Init, All, LedgerOK, Endings
<1>4. WorldOK
  BY DEF Init, All, WorldOK
<1>5. PlanOK
  BY DEF Init, All, PlanOK, Fates, Places
<1>6. OutcomeOK
  BY DEF Init, All, OutcomeOK, Endings
<1>7. BudgetOK
  <2>1. drives = 0 /\ faults = 0 /\ lost = FALSE
    BY DEF Init
  <2>2. drives \in 0 .. MaxDrives /\ faults \in 0 .. MaxFaults
    BY <2>1
  <2>3. lost \in BOOLEAN
    BY <2>1
  <2> QED
    BY <2>2, <2>3 DEF BudgetOK
<1> QED
  BY <1>1, <1>2, <1>3, <1>4, <1>5, <1>6, <1>7 DEF TypeOK

(* Every variable keeps its type.                                          *)
THEOREM TypeCorrect == Spec => []TypeOK
BY TypeInit, TypeNext, PTL DEF Spec

-----------------------------------------------------------------------------
(* The store covers the ledger.                                            *)

(* A failed write of the store is never forgotten.                         *)
LEMMA LossLasts == ASSUME [Next]_vars, lost PROVE lost'
<1>1. CASE Refuse \/ Drive \/ \E s \in snapshots : Resume(s)
  BY <1>1 DEF Refuse, Drive, Resume, Prepare, budget
<1>2. CASE WriteCardinality \/ WriteInstrumented \/ Launch \/ Decide \/ Return
  BY <1>2 DEF WriteCardinality, WriteInstrumented, Launch, Decide, Return, budget
<1>3. CASE \E b \in Branches :
             WriteScoped(b) \/ Mark(b) \/ Settle(b) \/ SettleFence(b) \/ Fill(b) \/ Drain(b)
  BY <1>3 DEF WriteScoped, Mark, Settle, SettleFence, Fill, Drain, budget
<1>4. CASE Threads
  BY <1>4 DEF Threads, Begin, Effect, ThreadReturns, ThreadFails, ZombieActs, ZombieEnds,
     Fault, budget
<1>5. CASE Deadline
  BY <1>5 DEF Deadline, budget
<1>6. CASE Faulty
  BY <1>6 DEF Faulty, Crash, StoreRaises, DrainRaises, MarkFails, SettleFails, Fault,
     WriteFails
<1>7. CASE UNCHANGED vars
  BY <1>7 DEF vars, budget
<1> QED
  BY <1>1, <1>2, <1>3, <1>4, <1>5, <1>6, <1>7 DEF Next, Loop

(* A drive that is over has nothing buffered and no fates.                 *)
LEMMA ResetCovers ==
  ASSUME NEW b \in Branches, Reset, Covered(b), UNCHANGED <<ends, snapshots>>,
         b \in Readable => b \in Readable'
  PROVE  Covered(b)'
BY DEF Reset, All, Covered

LEMMA RecordStep == TypeOK /\ RecordInv /\ [Next]_vars => RecordInv'
<1> SUFFICES ASSUME TypeOK, RecordInv, [Next]_vars, Store, ~lost', NEW b \in Branches
             PROVE  Covered(b)'
  BY DEF RecordInv
<1>1. Covered(b)
  BY LossLasts DEF RecordInv
<1>2. /\ record \in [Branches -> Fates \cup {"torn"}]
      /\ ends \in [Branches -> Endings] /\ bufEnds \in [Branches -> Endings]
      /\ fate \in [Branches -> Fates] /\ place \in [Branches -> Places]
  BY DEF TypeOK, StoreOK, LedgerOK, PlanOK, OutcomeOK
<1>3. ASSUME UNCHANGED <<record, ends, bufEnds, fate, snapshots>>
      PROVE  Covered(b)'
  BY <1>1, <1>3 DEF Covered, Readable
<1>4. CASE Refuse
  BY <1>3, <1>4 DEF Refuse, store, ledger, local, buffers
<1>5. CASE Drive
  <2>1. UNCHANGED <<record, ends, snapshots>>
    BY <1>5 DEF Drive, Prepare, store, ledger
  <2>2. /\ fate' = [c \in Branches |-> IF c \in Recovered THEN record[c] ELSE "absent"]
        /\ bufEnds' = [c \in Branches |-> IF c \in Recovered THEN "completed" ELSE "none"]
    BY <1>5 DEF Drive, Prepare
  <2>3. b \in Recovered => b \in Readable
    BY DEF Recovered
  <2> QED
    BY <1>1, <2>1, <2>2, <2>3 DEF Covered, Readable
<1>6. CASE \E s \in snapshots : Resume(s)
  <2>1. PICK s \in snapshots : Resume(s)
    BY <1>6
  <2>2. UNCHANGED <<record, ends, bufEnds, snapshots>>
    BY <2>1 DEF Resume, Prepare, store, ledger, buffers
  <2>3. fate'[b] = IF s[b] = "held" THEN "absent" ELSE s[b]
    BY <2>1 DEF Resume, Prepare
  <2> QED
    BY <1>1, <2>2, <2>3 DEF Covered, Readable
<1>7. CASE WriteCardinality \/ WriteInstrumented \/ Launch \/ Deadline
  BY <1>3, <1>7 DEF WriteCardinality, WriteInstrumented, Launch, Deadline, Untouched,
     store, ledger, buffers
<1>8. CASE \E c \in Branches : Mark(c) \/ SettleFence(c)
  BY <1>3, <1>8 DEF Mark, SettleFence, Untouched, store, ledger, buffers
<1>9. CASE Threads
  BY <1>3, <1>9 DEF Threads, Begin, Effect, ThreadReturns, ThreadFails, ZombieActs,
     ZombieEnds, Thread, KeepLocal, Untouched, local, store, ledger, buffers
<1>10. CASE \E c \in Branches : WriteScoped(c)
  <2>1. PICK c \in Branches : WriteScoped(c)
    BY <1>10
  <2>2. /\ record' = [record EXCEPT ![c] = "scoped"]
        /\ fate' = [fate EXCEPT ![c] = "error"]
        /\ bufEnds' = [bufEnds EXCEPT ![c] = "completed"]
        /\ UNCHANGED <<ends, snapshots>>
    BY <2>1 DEF WriteScoped, Untouched, ledger
  <2> QED
    BY <1>1, <1>2, <2>2 DEF Covered, Readable
<1>11. CASE \E c \in Branches : Settle(c)
  <2>1. PICK c \in Branches : Settle(c)
    BY <1>11
  <2>2. /\ record' = [record EXCEPT ![c] = Disposition(c)]
        /\ fate' = [fate EXCEPT ![c] = Disposition(c)]
        /\ bufEnds' = [bufEnds EXCEPT ![c] = End(Disposition(c))]
        /\ UNCHANGED <<ends, snapshots>>
    BY <2>1 DEF Settle, Untouched, ledger
  <2>3. Disposition(c) \notin {"absent", "torn"}
    BY DEF Disposition
  <2> QED
    BY <1>1, <1>2, <2>2, <2>3 DEF Covered, Readable
<1>12. CASE \E c \in Branches : Fill(c)
  <2>1. PICK c \in Branches : Fill(c)
    BY <1>12
  <2>2. /\ record' = IF place[c] = "held" THEN [record EXCEPT ![c] = "error"] ELSE record
        /\ bufEnds' = [bufEnds EXCEPT ![c] =
             IF place[c] = "held" THEN "completed" ELSE "cancelled"]
        /\ UNCHANGED <<ends, fate, snapshots>>
    BY <2>1 DEF Fill, Untouched, ledger
  <2> QED
    BY <1>1, <1>2, <2>2 DEF Covered, Readable
<1>13. CASE Decide
  <2>1. UNCHANGED <<record, ends, bufEnds, fate>>
    BY <1>13 DEF Decide, store, ledger, buffers
  <2>2. snapshots' \subseteq snapshots \cup {Snapshot}
    BY <1>13 DEF Decide
  <2>3. Snapshot[b] \notin {"absent", "held"} => fate[b] # "absent"
    BY DEF Snapshot
  <2> QED
    BY <1>1, <2>1, <2>2, <2>3 DEF Covered, Readable
<1>14. CASE \E c \in Branches : Drain(c)
  <2>1. PICK c \in Branches : Drain(c)
    BY <1>14
  <2>2. UNCHANGED <<record, fate, snapshots>>
    BY <2>1 DEF Drain, Untouched, store
  <2>3. \/ UNCHANGED <<ends, bufEnds>>
        \/ /\ ends' = [ends EXCEPT ![c] = IF @ = "none" THEN bufEnds[c] ELSE @]
           /\ bufEnds' = [bufEnds EXCEPT ![c] = "none"]
    BY <2>1 DEF Drain
  <2> QED
    BY <1>1, <1>2, <1>3, <2>2, <2>3 DEF Covered, Readable
<1>15. CASE Return \/ DrainRaises
  <2>1. Reset /\ UNCHANGED <<record, ends, snapshots>>
    BY <1>15 DEF Return, DrainRaises, Raise, store, ledger
  <2> QED
    BY <1>1, <2>1, ResetCovers DEF Readable
<1>16. CASE Crash
  <2>1. Reset /\ UNCHANGED <<ends, snapshots>>
    BY <1>16 DEF Crash, ledger
  <2>2. PICK torn \in {{}} \cup {{c} : c \in BeingRecorded} :
          record' = [c \in Branches |-> IF c \in torn THEN "torn" ELSE record[c]]
    BY <1>16 DEF Crash
  <2>3. \A c \in torn : record[c] = "absent"
    BY <2>2 DEF BeingRecorded
  <2>4. b \in Readable => b \in Readable'
    BY <2>2, <2>3 DEF Readable
  <2> QED
    BY <1>1, <2>1, <2>4, ResetCovers
<1>17. CASE StoreRaises \/ \E c \in Branches : MarkFails(c) \/ SettleFails(c)
  BY <1>17 DEF StoreRaises, MarkFails, SettleFails, WriteFails
<1>18. CASE UNCHANGED vars
  BY <1>3, <1>18 DEF vars, store, ledger, local, buffers
<1> QED
  BY <1>4, <1>5, <1>6, <1>7, <1>8, <1>9, <1>10, <1>11, <1>12, <1>13, <1>14, <1>15, <1>16,
     <1>17, <1>18 DEF Next, Loop, Threads, Faulty

(* What the ledger or a snapshot calls ended, a crash re-drive finds in    *)
(* the store.                                                              *)
THEOREM StoreThm == Spec => []StoreCoversLedger
<1>1. Init => RecordInv
  BY DEF Init, All, RecordInv, Covered
<1>2. RecordInv => StoreCoversLedger
  BY DEF RecordInv, Covered, StoreCoversLedger
<1> QED
  BY <1>1, <1>2, TypeCorrect, RecordStep, PTL DEF Spec

-----------------------------------------------------------------------------
(* Fenced branches.                                                        *)

LEMMA ManifestStays == [Next]_vars => UNCHANGED manifest
<1> SUFFICES ASSUME [Next]_vars PROVE UNCHANGED manifest
  OBVIOUS
<1>1. CASE Refuse \/ Drive \/ \E s \in snapshots : Resume(s)
  BY <1>1 DEF Refuse, Drive, Resume, Prepare
<1>2. CASE Loop
  BY <1>2 DEF Loop, WriteCardinality, WriteInstrumented, Launch, Decide, Return,
     WriteScoped, Mark, Settle, SettleFence, Fill, Drain, Untouched
<1>3. CASE Threads
  BY <1>3 DEF Threads, Begin, Effect, ThreadReturns, ThreadFails, ZombieActs, ZombieEnds,
     Thread, Untouched
<1>4. CASE Deadline \/ Faulty
  BY <1>4 DEF Deadline, Faulty, Crash, StoreRaises, DrainRaises, MarkFails, SettleFails,
     Raise, Untouched
<1>5. CASE UNCHANGED vars
  BY <1>5 DEF vars
<1> QED
  BY <1>1, <1>2, <1>3, <1>4, <1>5 DEF Next

LEMMA FenceStep == TypeOK /\ FenceInv /\ [Next]_vars => FenceInv'
<1> SUFFICES ASSUME TypeOK, FenceInv, [Next]_vars, NEW b \in Branches, kind'[b] = "fenced"
             PROVE  Guarded(b)'
  BY DEF FenceInv
<1>1. kind[b] = "fenced" /\ Guarded(b)
  BY ManifestStays DEF FenceInv, manifest
<1>2. /\ place \in [Branches -> Places] /\ fence \in [Branches -> {"none", "claimed", "refired", "captured"}]
      /\ runs \in [Branches -> Nat] /\ zombies \in [Branches -> {"none", "called", "acted"}]
      /\ directive \in [Branches -> {"none", "re_fire", "skip_as_fired", "abort"}]
  BY DEF TypeOK, PlanOK, WorldOK
<1>3. ASSUME UNCHANGED world, UNCHANGED directive \/ directive' = All("none"),
             \/ place'[b] = place[b]
             \/ place'[b] \notin {"planned", "marked", "flying", "called", "acted"}
             \/ /\ place[b] \in {"planned", "marked", "flying"}
                /\ place'[b] \in {"planned", "marked", "flying"}
      PROVE  Guarded(b)'
  BY <1>1, <1>2, <1>3 DEF Guarded, All, world
<1>4. CASE Refuse \/ WriteCardinality \/ WriteInstrumented \/ Decide
  BY <1>3, <1>4 DEF Refuse, WriteCardinality, WriteInstrumented, Decide, local
<1>5. CASE Drive
  <2>1. UNCHANGED world /\ directive' = All("none")
    BY <1>5 DEF Drive, Prepare
  <2>2. place'[b] \in {"off", "planned"}
    BY <1>5 DEF Drive, Prepare
  <2> QED
    BY <1>1, <1>2, <2>1, <2>2 DEF Guarded, All, world
<1>6. CASE \E s \in snapshots : Resume(s)
  <2>1. PICK s \in snapshots : Resume(s)
    BY <1>6
  <2>2. PICK told \in [Branches -> {"none"} \cup UNION {Answers(c) : c \in Branches}] :
          /\ \A c \in Branches :
               told[c] \in IF s[c] = "held" THEN Answers(c) ELSE {"none"}
          /\ directive' = [c \in Branches |->
               IF told[c] = "abort_branch"
                  \/ (told[c] # "abort" /\ \E d \in Branches : told[d] = "abort")
               THEN "none" ELSE told[c]]
    BY <2>1 DEF Resume
  <2>3. UNCHANGED world /\ place'[b] \notin {"called", "acted"}
    BY <2>1 DEF Resume, Prepare
  <2>4. directive'[b] = "re_fire" => told[b] = "re_fire"
    BY <2>2
  <2>5. told[b] = "re_fire" => runs[b] = 0 /\ zombies[b] = "none"
    BY <2>2 DEF Answers
  <2> QED
    BY <1>1, <1>2, <2>3, <2>4, <2>5 DEF Guarded, world
<1>7. CASE Launch
  <2>1. /\ UNCHANGED <<world, directive>>
        /\ place' = [c \in Branches |->
             IF place[c] \in {"planned", "marked"} THEN "flying" ELSE place[c]]
    BY <1>7 DEF Launch
  <2> QED
    BY <1>3, <2>1
<1>8. CASE \E c \in Branches : WriteScoped(c) \/ Mark(c) \/ MarkFails(c)
  <2>1. PICK c \in Branches :
          /\ UNCHANGED <<world, directive>>
          /\ \/ place' = [place EXCEPT ![c] = "scoped"]
             \/ place' = [place EXCEPT ![c] = "unmarked"]
             \/ place[c] = "planned" /\ place' = [place EXCEPT ![c] = "marked"]
    BY <1>8 DEF WriteScoped, Mark, MarkFails, Least, At
  <2> QED
    BY <1>2, <1>3, <2>1
<1>9. CASE \E c \in Branches : Settle(c) \/ SettleFence(c) \/ SettleFails(c)
  <2>1. PICK c \in Branches :
          /\ UNCHANGED <<world, directive>>
          /\ \E at \in {"done", "aborted", "held"} : place' = [place EXCEPT ![c] = at]
    BY <1>9 DEF Settle, SettleFence, SettleFails
  <2> QED
    BY <1>2, <1>3, <2>1
<1>10. CASE \E c \in Branches : Fill(c) \/ Drain(c)
  BY <1>3, <1>10 DEF Fill, Drain
<1>11. CASE Return \/ StoreRaises \/ DrainRaises
  <2>1. Reset /\ UNCHANGED world
    BY <1>11 DEF Return, StoreRaises, DrainRaises, Raise
  <2> QED
    BY <1>3, <2>1 DEF Reset, All
<1>12. CASE Crash
  <2>1. Reset /\ zombies' = All("none") /\ UNCHANGED <<fence, runs>>
    BY <1>12 DEF Crash
  <2> QED
    BY <1>1, <1>2, <2>1 DEF Reset, All, Guarded
<1>13. CASE Deadline
  <2>1. /\ UNCHANGED <<fence, runs, directive>>
        /\ \/ place'[b] = place[b] /\ place[b] \notin {"called", "acted"}
           \/ place'[b] = "cut"
        /\ zombies'[b] = IF place[b] \in {"called", "acted"} THEN place[b] ELSE zombies[b]
    BY <1>13 DEF Deadline
  <2> QED
    BY <1>1, <1>2, <2>1 DEF Guarded
<1>14. CASE \E c \in Branches : Begin(c)
  <2>1. PICK c \in Branches : Begin(c)
    BY <1>14
  <2>2. UNCHANGED <<runs, zombies, directive>>
    BY <2>1 DEF Begin, Thread
  <2>3. CASE c # b
    <3>1. place'[b] = place[b] /\ fence'[b] = fence[b]
      BY <1>2, <2>1, <2>3 DEF Begin, Thread
    <3> QED
      BY <1>1, <2>2, <3>1 DEF Guarded
  <2>4. CASE c = b
    <3>1. place[b] = "flying" /\ kind[b] = "fenced"
      BY <1>1, <2>1, <2>4 DEF Begin
    <3>2. \/ place'[b] = "called" /\ fence[b] = "none" /\ fence'[b] = "claimed"
          \/ place'[b] = "called" /\ directive[b] = "re_fire" /\ fence'[b] = "refired"
          \/ place'[b] \in {"output", "abort", "ambiguous"} /\ fence'[b] = fence[b]
      BY <1>1, <1>2, <2>1, <2>4 DEF Begin, Thread
    <3> QED
      BY <1>1, <2>2, <3>1, <3>2 DEF Guarded
  <2> QED
    BY <2>3, <2>4
<1>15. CASE \E c \in Branches : Effect(c)
  <2>1. PICK c \in Branches :
          /\ place[c] = "called" /\ runs' = [runs EXCEPT ![c] = @ + 1]
          /\ place' = [place EXCEPT ![c] = "acted"]
          /\ UNCHANGED <<fence, zombies, directive>>
    BY <1>15 DEF Effect, Thread
  <2> QED
    BY <1>1, <1>2, <2>1 DEF Guarded
<1>16. CASE \E c \in Branches : ThreadReturns(c) \/ ThreadFails(c)
  <2>1. PICK c \in Branches :
          /\ fence' \in {fence, [fence EXCEPT ![c] = "captured"]}
          /\ place' \in {[place EXCEPT ![c] = "output"], [place EXCEPT ![c] = "error"]}
          /\ UNCHANGED <<runs, zombies, directive>>
    BY <1>16 DEF ThreadReturns, ThreadFails, Thread, world
  <2> QED
    BY <1>1, <1>2, <2>1 DEF Guarded
<1>17. CASE \E c \in Branches : ZombieActs(c)
  <2>1. PICK c \in Branches :
          /\ zombies[c] = "called" /\ zombies' = [zombies EXCEPT ![c] = "acted"]
          /\ runs' = [runs EXCEPT ![c] = @ + 1]
          /\ UNCHANGED <<fence, place, directive>>
    BY <1>17 DEF ZombieActs, KeepLocal, local
  <2> QED
    BY <1>1, <1>2, <2>1 DEF Guarded
<1>18. CASE \E c \in Branches : ZombieEnds(c)
  <2>1. PICK c \in Branches :
          /\ zombies' = [zombies EXCEPT ![c] = "none"]
          /\ fence' \in {fence, [fence EXCEPT ![c] = "captured"]}
          /\ UNCHANGED <<runs, place, directive>>
    BY <1>18 DEF ZombieEnds, KeepLocal, local
  <2> QED
    BY <1>1, <1>2, <2>1 DEF Guarded
<1>19. CASE UNCHANGED vars
  BY <1>3, <1>19 DEF vars, local
<1> QED
  BY <1>4, <1>5, <1>6, <1>7, <1>8, <1>9, <1>10, <1>11, <1>12, <1>13, <1>14, <1>15, <1>16,
     <1>17, <1>18, <1>19 DEF Next, Loop, Threads, Faulty

-----------------------------------------------------------------------------
(* Where the branches are.                                                 *)

LEMMA PlaceStep == TypeOK /\ PlaceInv /\ [Next]_vars => PlaceInv'
<1> SUFFICES ASSUME TypeOK, PlaceInv, [Next]_vars, NEW b \in Branches
             PROVE  Placed(b)'
  BY DEF PlaceInv
<1>1. Placed(b) /\ kind'[b] = kind[b] /\ (lost => lost')
  BY ManifestStays, LossLasts DEF PlaceInv, manifest
<1>2. place \in [Branches -> Places]
  BY DEF TypeOK, PlanOK
<1>3. ASSUME UNCHANGED <<pc, place>>, snapshots \subseteq snapshots' PROVE Placed(b)'
  BY <1>1, <1>3 DEF Placed
<1>4. ASSUME Reset PROVE Placed(b)'
  BY <1>4 DEF Placed, Reset, All
<1>5. CASE Refuse
  BY <1>3, <1>5 DEF Refuse, local
<1>6. CASE Drive
  BY <1>6 DEF Drive, Prepare, Placed
<1>7. CASE \E s \in snapshots : Resume(s)
  <2>1. PICK s \in snapshots : Resume(s)
    BY <1>7
  <2>2. pc' = "mark" /\ place'[b] \in {"scope", "planned", "off"} /\ UNCHANGED snapshots
    BY <2>1 DEF Resume, Prepare
  <2> QED
    BY <2>1, <2>2 DEF Placed
<1>8. CASE WriteCardinality \/ WriteInstrumented
  BY <1>1, <1>8 DEF WriteCardinality, WriteInstrumented, Untouched, Placed
<1>9. CASE \E c \in Branches : WriteScoped(c) \/ Mark(c) \/ MarkFails(c)
  <2>1. PICK c \in Branches :
          /\ UNCHANGED <<pc, snapshots>> /\ pc = "mark"
          /\ \/ place' = [place EXCEPT ![c] = "scoped"]
             \/ place' = [place EXCEPT ![c] = "unmarked"] /\ lost'
             \/ place' = [place EXCEPT ![c] = "marked"]
    BY <1>9 DEF WriteScoped, Mark, MarkFails, WriteFails, Untouched
  <2> QED
    BY <1>1, <1>2, <2>1 DEF Placed
<1>10. CASE Launch
  <2>1. /\ pc' = "run" /\ pc = "mark" /\ UNCHANGED snapshots
        /\ place'[b] = IF place[b] \in {"planned", "marked"} THEN "flying" ELSE place[b]
    BY <1>10 DEF Launch, Untouched
  <2> QED
    BY <1>1, <2>1 DEF Placed
<1>11. CASE \E c \in Branches : Begin(c)
  <2>1. PICK c \in Branches : Begin(c)
    BY <1>11
  <2>2. /\ UNCHANGED <<pc, snapshots>> /\ place[c] = "flying"
        /\ \/ \E at \in {"called", "output"} : place' = [place EXCEPT ![c] = at]
           \/ /\ kind[c] = "fenced"
              /\ \E at \in {"abort", "ambiguous"} : place' = [place EXCEPT ![c] = at]
    BY <2>1 DEF Begin, Thread, Untouched
  <2> QED
    BY <1>1, <1>2, <2>2 DEF Placed
<1>12. CASE \E c \in Branches : Effect(c) \/ ThreadReturns(c) \/ ThreadFails(c)
  <2>1. PICK c \in Branches :
          /\ UNCHANGED <<pc, snapshots>> /\ place[c] \in {"called", "acted"}
          /\ \E at \in {"acted", "output", "error"} : place' = [place EXCEPT ![c] = at]
    BY <1>12 DEF Effect, ThreadReturns, ThreadFails, Thread, Untouched
  <2> QED
    BY <1>1, <1>2, <2>1 DEF Placed
<1>13. CASE \E c \in Branches : ZombieActs(c) \/ ZombieEnds(c)
  BY <1>3, <1>13 DEF ZombieActs, ZombieEnds, KeepLocal, local, Untouched
<1>14. CASE \E c \in Branches : Settle(c) \/ SettleFails(c)
  <2>1. PICK c \in Branches :
          /\ UNCHANGED <<pc, snapshots>> /\ pc = "run"
          /\ place' = [place EXCEPT ![c] = "done"]
    BY <1>14 DEF Settle, SettleFails, Untouched
  <2> QED
    BY <1>1, <1>2, <2>1 DEF Placed
<1>15. CASE \E c \in Branches : SettleFence(c)
  <2>1. PICK c \in Branches :
          /\ UNCHANGED <<pc, snapshots>> /\ pc = "run" /\ place[c] \in {"ambiguous", "abort"}
          /\ \E at \in {"aborted", "held"} : place' = [place EXCEPT ![c] = at]
    BY <1>15 DEF SettleFence, Untouched
  <2> QED
    BY <1>1, <1>2, <2>1 DEF Placed
<1>16. CASE Deadline
  <2>1. /\ pc' = "run" /\ pc = "run" /\ UNCHANGED snapshots
        /\ place'[b] \in {place[b], "cut"}
    BY <1>16 DEF Deadline, Untouched
  <2> QED
    BY <1>1, <2>1 DEF Placed
<1>17. CASE \E c \in Branches : Fill(c) \/ Drain(c)
  BY <1>3, <1>17 DEF Fill, Drain, Untouched
<1>18. CASE Decide
  <2>1. place[b] \in {"off", "done", "held", "aborted", "unmarked", "scoped"}
    BY <1>18 DEF Decide, Settled, At
  <2>2. pc' = "drain" /\ UNCHANGED place
    BY <1>18 DEF Decide
  <2> QED
    BY <1>1, <2>1, <2>2 DEF Placed
<1>19. CASE Return \/ StoreRaises \/ DrainRaises \/ Crash
  BY <1>4, <1>19 DEF Return, StoreRaises, DrainRaises, Crash, Raise
<1>20. CASE UNCHANGED vars
  BY <1>3, <1>20 DEF vars, local
<1> QED
  BY <1>5, <1>6, <1>7, <1>8, <1>9, <1>10, <1>11, <1>12, <1>13, <1>14, <1>15, <1>16, <1>17,
     <1>18, <1>19, <1>20 DEF Next, Loop, Threads, Faulty

-----------------------------------------------------------------------------
(* Markers come first.                                                     *)

LEMMA MarkStep == TypeOK /\ PlaceInv /\ MarkInv /\ [Next]_vars => MarkInv'
<1> DEFINE Inv == AllMarked /\ MarkedAfterCardinality /\ SettledBefore
<1> SUFFICES ASSUME TypeOK, PlaceInv, MarkInv, [Next]_vars, Marks', ~lost'
             PROVE  Inv'
  BY DEF MarkInv
<1>1. Marks /\ ~lost
  BY ManifestStays, LossLasts DEF manifest, Marks, Strict
<1>2. AllMarked /\ MarkedAfterCardinality /\ SettledBefore
  BY <1>1 DEF MarkInv
<1>3. /\ record \in [Branches -> Fates \cup {"torn"}] /\ place \in [Branches -> Places]
      /\ marker \in [Branches -> {"absent", "torn", "set"}]
      /\ zombies \in [Branches -> {"none", "called", "acted"}] /\ runs \in [Branches -> Nat]
  BY DEF TypeOK, StoreOK, PlanOK, WorldOK
<1> USE DEF AllMarked, MarkedAfterCardinality, SettledBefore, Begun, Traced
(* Steps after the dispatch: everything is marked and stays so.            *)
<1>4. ASSUME Begun, UNCHANGED <<cardinality, marker>>, Traced => Traced',
             \A b \in Branches :
               place'[b] \in {"marked", "off", "scoped"} => place'[b] = place[b],
             pc' # "idle" => pc # "idle" 
      PROVE  Inv'
  BY <1>2, <1>4
(* Steps that leave places and traces alone.                               *)
<1>5. ASSUME UNCHANGED <<cardinality, marker, record, snapshots, runs, zombies, pc, place>>
      PROVE  Inv'
  BY <1>2, <1>5
(* The end of a drive.                                                     *)
<1>6. ASSUME Reset, UNCHANGED <<cardinality, marker, record, snapshots, runs, zombies>>
      PROVE  Inv'
  <2>1. pc' = "idle" /\ \A b \in Branches : place'[b] = "off"
    BY <1>6 DEF Reset, All
  <2> QED
    BY <1>2, <1>6, <2>1
<1>7. CASE Refuse
  BY <1>5, <1>7 DEF Refuse, local, store, world
<1>8. CASE Drive
  <2>1. UNCHANGED <<cardinality, marker, record, snapshots, runs, zombies>> /\ pc = "idle"
    BY <1>8 DEF Drive, Prepare, store, world
  <2>2. /\ pc' \in {"cardinality", "mark"}
        /\ pc' = "mark" => Recovered # {}
        /\ \A b \in Branches :
             /\ place'[b] \in {"off", "planned"}
             /\ place'[b] = "off" => b \in Recovered \/ Reconstruct
    BY <1>1, <1>8 DEF Drive, Prepare, Marks
  <2>3. Recovered # {} => Traced
    BY DEF Recovered, Readable
  <2>4. Reconstruct => Recovered # {}
    BY DEF Reconstruct
  <2>5. Traced' <=> Traced
    BY <2>1
  <2>6. Begun' => Begun
    BY <2>1, <2>2, <2>5
  <2>7. AllMarked'
    BY <1>2, <2>1, <2>6
  <2>8. MarkedAfterCardinality'
    BY <1>2, <2>1, <2>2, <2>3, <2>6
  <2>9. SettledBefore'
    <3> HIDE DEF Traced
    <3>1. \A b \in Branches : place'[b] = "off" => Recovered # {}
      BY <2>2, <2>4
    <3>2. Recovered # {} => Traced'
      BY <2>3, <2>5
    <3>3. \A b \in Branches : place'[b] \notin {"marked", "scoped"}
      BY <1>8 DEF Drive, Prepare
    <3> QED
      BY <3>1, <3>2, <3>3
  <2> QED
    BY <2>7, <2>8, <2>9
<1>9. CASE \E s \in snapshots : Resume(s)
  <2>1. PICK s \in snapshots : Resume(s)
    BY <1>9
  <2>2. /\ UNCHANGED <<cardinality, marker, record, snapshots, runs, zombies>>
        /\ \A b \in Branches : place'[b] \in {"scope", "planned", "off"}
    BY <2>1 DEF Resume, Prepare, store, world
  <2>3. Traced /\ Traced'
    BY <2>1, <2>2
  <2> QED
    BY <1>2, <2>2, <2>3
<1>10. CASE WriteCardinality \/ WriteInstrumented
  <2>1. /\ pc' \in {"instrument", "mark"} /\ pc \in {"cardinality", "instrument"}
        /\ cardinality' = "set" \/ (pc = "instrument" /\ UNCHANGED cardinality)
        /\ UNCHANGED <<marker, record, snapshots, runs, zombies, place>>
    BY <1>10 DEF WriteCardinality, WriteInstrumented, Untouched, world
  <2> QED
    BY <1>2, <2>1
<1>11. CASE \E c \in Branches : WriteScoped(c)
  <2>1. PICK c \in Branches :
          /\ UNCHANGED <<pc, snapshots, cardinality, marker, runs, zombies>> /\ pc = "mark"
          /\ place[c] = "scope" /\ place' = [place EXCEPT ![c] = "scoped"]
    BY <1>11 DEF WriteScoped, Untouched, Least, At, world
  <2>2. snapshots # {}
    BY <2>1 DEF PlaceInv, Placed
  <2> QED
    BY <1>2, <1>3, <2>1, <2>2
<1>12. CASE \E c \in Branches : Mark(c)
  <2>1. PICK c \in Branches :
          /\ UNCHANGED <<pc, snapshots, cardinality, record, runs, zombies>> /\ pc = "mark"
          /\ place' = [place EXCEPT ![c] = "marked"] /\ marker' = [marker EXCEPT ![c] = "set"]
    BY <1>12 DEF Mark, Untouched, world
  <2> QED
    BY <1>2, <1>3, <2>1
<1>13. CASE Launch
  <2>1. /\ pc = "mark" /\ pc' = "run"
        /\ UNCHANGED <<cardinality, marker, record, snapshots, runs, zombies>>
        /\ \A b \in Branches :
             /\ place[b] \notin {"scope", "planned"}
             /\ place'[b] = IF place[b] \in {"planned", "marked"}
                   THEN "flying" ELSE place[b]
    BY <1>1, <1>13 DEF Launch, Untouched, At, store, world
  <2>2. \A b \in Branches : place[b] \in {"off", "scoped", "marked"}
    BY <1>1, <2>1 DEF PlaceInv, Placed
  <2>3. \A b \in Branches : marker[b] # "absent"
    BY <1>2, <2>1, <2>2
  <2> QED
    BY <1>2, <2>1, <2>2, <2>3
<1>14. CASE \E c \in Branches : Begin(c) \/ Effect(c) \/ ThreadReturns(c) \/ ThreadFails(c)
  <2>1. PICK c \in Branches :
          /\ place[c] \in {"flying", "called", "acted"}
          /\ \E at \in {"called", "acted", "output", "error", "abort", "ambiguous"} :
               place' = [place EXCEPT ![c] = at]
          /\ UNCHANGED <<cardinality, marker, record, snapshots, pc>>
    BY <1>14 DEF Begin, Effect, ThreadReturns, ThreadFails, Thread, Untouched, store
  <2>2. pc = "run"
    BY <2>1 DEF PlaceInv, Placed
  <2> QED
    BY <1>3, <1>4, <2>1, <2>2
<1>15. CASE \E c \in Branches : ZombieActs(c) \/ ZombieEnds(c)
  <2>1. PICK c \in Branches : zombies[c] # "none"
    BY <1>15 DEF ZombieActs, ZombieEnds
  <2>2. UNCHANGED <<cardinality, marker, record, snapshots, pc, place>>
    BY <1>15 DEF ZombieActs, ZombieEnds, KeepLocal, Untouched, local, store
  <2> QED
    BY <1>4, <2>1, <2>2
<1>16. CASE \E c \in Branches : Settle(c) \/ SettleFence(c) \/ Fill(c)
  <2>1. PICK c \in Branches :
          /\ pc = "run" /\ UNCHANGED <<cardinality, marker, snapshots, pc>>
          /\ \/ UNCHANGED place
             \/ \E at \in {"done", "aborted", "held"} : place' = [place EXCEPT ![c] = at]
          /\ \/ UNCHANGED record
             \/ record' = [record EXCEPT ![c] = "error"]
             \/ record' = [record EXCEPT ![c] = Disposition(c)]
    BY <1>16 DEF Settle, SettleFence, Fill, Untouched, store
  <2>2. Disposition(c) # "absent"
    BY <2>1 DEF Disposition
  <2>3. Traced => Traced'
    BY <1>3, <2>1, <2>2
  <2> QED
    BY <1>3, <1>4, <2>1, <2>3
<1>17. CASE Deadline \/ Decide \/ \E c \in Branches : Drain(c)
  <2>1. /\ pc \in {"run", "drain"} /\ UNCHANGED <<cardinality, marker, record>>
        /\ snapshots \subseteq snapshots'
        /\ \A b \in Branches : place'[b] \in {place[b], "cut"}
    BY <1>17 DEF Deadline, Decide, Drain, Untouched, store
  <2> QED
    BY <1>4, <2>1
<1>18. CASE Return \/ DrainRaises
  BY <1>6, <1>18 DEF Return, DrainRaises, Raise, store, world
<1>19. CASE Crash
  <2>1. Reset /\ zombies' = All("none") /\ UNCHANGED <<runs, snapshots>>
    BY <1>19 DEF Crash
  <2>2. PICK torn \in {{}} \cup {{c} : c \in BeingRecorded} :
          record' = [c \in Branches |-> IF c \in torn THEN "torn" ELSE record[c]]
    BY <1>19 DEF Crash
  <2>3. torn # {} => Begun
    BY <2>2 DEF BeingRecorded, PlaceInv, Placed
  <2>4. Begun' => Begun
    BY <1>3, <2>1, <2>2, <2>3 DEF Reset, All
  <2>5. \/ UNCHANGED <<cardinality, marker>>
        \/ cardinality' = "torn" /\ UNCHANGED marker
        \/ /\ pc = "mark" /\ UNCHANGED cardinality
           /\ \E c \in Branches : marker' = [marker EXCEPT ![c] = "torn"]
    BY <1>19 DEF Crash
  <2>6. pc' = "idle" /\ \A b \in Branches : place'[b] = "off"
    BY <2>1 DEF Reset, All
  <2>7. AllMarked'
    BY <1>2, <1>3, <2>4, <2>5
  <2>8. MarkedAfterCardinality'
    BY <1>2, <1>3, <2>4, <2>5, <2>6
  <2> QED
    BY <2>6, <2>7, <2>8
<1>20. CASE StoreRaises \/ \E c \in Branches : MarkFails(c) \/ SettleFails(c)
  BY <1>20 DEF StoreRaises, MarkFails, SettleFails, WriteFails
<1>21. CASE UNCHANGED vars
  BY <1>5, <1>21 DEF vars, local, store, world
<1> QED
  BY <1>7, <1>8, <1>9, <1>10, <1>11, <1>12, <1>13, <1>14, <1>15, <1>16, <1>17, <1>18,
     <1>19,
     <1>20, <1>21 DEF Next, Loop, Threads, Faulty

-----------------------------------------------------------------------------
(* Opaque branches.                                                        *)

(* A drive that is not refused dispatches an opaque branch only if nothing *)
(* of the run was dispatched before.                                       *)
LEMMA DriveSparesOpaque ==
  ASSUME TypeOK, MarkInv, Marks, ~lost, ~Refused, Begun, NEW b \in Branches, kind[b] = "opaque"
  PROVE  b \in Recovered
<1>1. marker[b] # "absent" /\ cardinality # "absent"
  BY DEF MarkInv, AllMarked, MarkedAfterCardinality
<1> SUFFICES ASSUME b \notin Recovered PROVE FALSE
  OBVIOUS
<1>2. ~Proven
  BY <1>1 DEF Proven
<1>3. Recovered # Branches
  OBVIOUS
<1>4. Recovered = {} /\ cardinality # "set"
  BY <1>2, <1>3 DEF Refused, Marks
<1>5. ~Corrupt /\ cardinality # "torn"
  BY DEF Refused, Corrupt
<1> QED
  BY <1>1, <1>4, <1>5 DEF TypeOK, StoreOK

LEMMA OpaqueStep == TypeOK /\ PlaceInv /\ MarkInv /\ OpaqueInv /\ [Next]_vars => OpaqueInv'
<1> SUFFICES ASSUME TypeOK, PlaceInv, MarkInv, OpaqueInv, [Next]_vars, Marks', ~lost',
                    NEW b \in Branches, kind'[b] = "opaque"
             PROVE  DispatchedOnce(b)'
  BY DEF OpaqueInv
<1>1. Marks /\ ~lost /\ kind[b] = "opaque"
  BY ManifestStays, LossLasts DEF manifest, Marks, Strict
<1>2. DispatchedOnce(b) /\ Placed(b)
  BY <1>1 DEF OpaqueInv, PlaceInv
<1>3. /\ place \in [Branches -> Places] /\ fate \in [Branches -> Fates]
      /\ zombies \in [Branches -> {"none", "called", "acted"}] /\ runs \in [Branches -> Nat]
  BY DEF TypeOK, PlanOK, WorldOK
(* Steps that leave the branch where it is.                                *)
<1>4. ASSUME runs'[b] = runs[b], zombies'[b] = zombies[b], fate'[b] = fate[b],
             place'[b] = place[b], pc' # "idle" => pc # "idle", UNCHANGED snapshots
      PROVE  DispatchedOnce(b)'
  BY <1>2, <1>4 DEF DispatchedOnce
(* The end of a drive.                                                     *)
<1>5. ASSUME Reset, UNCHANGED <<runs, snapshots>>, zombies'[b] \in {zombies[b], "none"}
      PROVE  DispatchedOnce(b)'
  <2>1. pc' = "idle" /\ place'[b] = "off"
    BY <1>5 DEF Reset, All
  <2> QED
    BY <1>2, <1>5, <2>1 DEF DispatchedOnce
<1>6. CASE Refuse
  BY <1>4, <1>6 DEF Refuse, local, world
<1>7. CASE Drive
  <2>1. UNCHANGED <<runs, zombies, snapshots>> /\ ~Refused
    BY <1>1, <1>7 DEF Drive, Prepare, world, Marks
  <2>2. CASE b \in Recovered
    <3>1. place'[b] = "off" /\ fate'[b] = record[b]
      BY <1>1, <1>7, <2>2 DEF Drive, Prepare, Marks
    <3>2. record[b] # "absent"
      BY <2>2 DEF Recovered, Readable
    <3> QED
      BY <1>2, <2>1, <3>1, <3>2 DEF DispatchedOnce
  <2>3. CASE b \notin Recovered
    <3>1. ~Begun
      BY <1>1, <2>1, <2>3, DriveSparesOpaque
    <3>2. runs[b] = 0 /\ zombies[b] = "none" /\ ~Traced
      BY <3>1 DEF Begun
    <3>3. ~Reconstruct
      BY <3>2 DEF Traced, Reconstruct, Recovered, Readable
    <3>4. place'[b] = "planned"
      BY <1>1, <1>7, <2>3, <3>3 DEF Drive, Prepare, Marks
    <3> QED
      BY <1>2, <2>1, <3>2, <3>4 DEF DispatchedOnce
  <2> QED
    BY <2>2, <2>3
<1>8. CASE \E s \in snapshots : Resume(s)
  <2>1. PICK s \in snapshots : Resume(s)
    BY <1>8
  <2>2. s[b] \notin {"absent", "held"}
    BY <1>2, <2>1 DEF DispatchedOnce
  <2>3. PICK told \in [Branches -> {"none"} \cup UNION {Answers(c) : c \in Branches}] :
          /\ \A c \in Branches :
               told[c] \in IF s[c] = "held" THEN Answers(c) ELSE {"none"}
          /\ place' = [c \in Branches |-> IF told[c] = "abort_branch" THEN "scope"
                                        ELSE IF s[c] \in {"absent", "held"} THEN "planned"
                                         ELSE "off"]
    BY <2>1 DEF Resume, Prepare
  <2>4. place'[b] = "off"
    BY <2>2, <2>3
  <2>5. fate'[b] = s[b] /\ UNCHANGED <<runs, zombies, snapshots>>
    BY <2>1, <2>2 DEF Resume, Prepare, world
  <2> QED
    BY <1>2, <2>2, <2>4, <2>5 DEF DispatchedOnce
<1>9. CASE WriteCardinality \/ WriteInstrumented
  BY <1>4, <1>9 DEF WriteCardinality, WriteInstrumented, Untouched, world
<1>10. CASE \E c \in Branches : WriteScoped(c)
  <2>1. PICK c \in Branches :
          /\ place' = [place EXCEPT ![c] = "scoped"] /\ fate' = [fate EXCEPT ![c] = "error"]
          /\ UNCHANGED <<runs, zombies, pc, snapshots>>
    BY <1>10 DEF WriteScoped, Untouched, world
  <2> QED
    BY <1>2, <1>3, <2>1 DEF DispatchedOnce
<1>11. CASE \E c \in Branches : Mark(c)
  <2>1. PICK c \in Branches :
          /\ place[c] = "planned" /\ place' = [place EXCEPT ![c] = "marked"]
          /\ UNCHANGED <<runs, zombies, pc, fate, snapshots>>
    BY <1>11 DEF Mark, Untouched, Least, At, world
  <2> QED
    BY <1>2, <1>3, <2>1 DEF DispatchedOnce
<1>12. CASE Launch
  <2>1. /\ place'[b] = IF place[b] \in {"planned", "marked"} THEN "flying" ELSE place[b]
        /\ UNCHANGED <<runs, zombies, fate, snapshots>> /\ pc = "mark"
    BY <1>12 DEF Launch, Untouched, world
  <2> QED
    BY <1>2, <2>1 DEF DispatchedOnce
<1>13. CASE \E c \in Branches : Begin(c)
  <2>1. PICK c \in Branches : Begin(c)
    BY <1>13
  <2>2. UNCHANGED <<runs, zombies, fate, pc, snapshots>> /\ place[c] = "flying"
    BY <2>1 DEF Begin, Thread, Untouched
  <2>3. place'[b] = place[b] \/ (c = b /\ place'[b] = "called")
    BY <1>1, <1>3, <2>1 DEF Begin, Thread
  <2> QED
    BY <1>2, <2>2, <2>3 DEF DispatchedOnce
<1>14. CASE \E c \in Branches : Effect(c)
  <2>1. PICK c \in Branches :
          /\ place[c] = "called" /\ place' = [place EXCEPT ![c] = "acted"]
          /\ runs' = [runs EXCEPT ![c] = @ + 1]
          /\ UNCHANGED <<zombies, fate, pc, snapshots>>
    BY <1>14 DEF Effect, Thread, Untouched
  <2> QED
    BY <1>2, <1>3, <2>1 DEF DispatchedOnce
<1>15. CASE \E c \in Branches : ThreadReturns(c) \/ ThreadFails(c)
  <2>1. PICK c \in Branches :
          /\ \E at \in {"output", "error"} : place' = [place EXCEPT ![c] = at]
          /\ UNCHANGED <<runs, zombies, fate, pc, snapshots>>
    BY <1>15 DEF ThreadReturns, ThreadFails, Thread, Untouched, world
  <2> QED
    BY <1>2, <1>3, <2>1 DEF DispatchedOnce
<1>16. CASE \E c \in Branches : ZombieActs(c)
  <2>1. PICK c \in Branches :
          /\ zombies[c] = "called" /\ zombies' = [zombies EXCEPT ![c] = "acted"]
          /\ runs' = [runs EXCEPT ![c] = @ + 1]
          /\ UNCHANGED <<place, fate, pc, snapshots>>
    BY <1>16 DEF ZombieActs, KeepLocal, local, Untouched
  <2> QED
    BY <1>2, <1>3, <2>1 DEF DispatchedOnce
<1>17. CASE \E c \in Branches : ZombieEnds(c)
  <2>1. PICK c \in Branches :
          /\ zombies' = [zombies EXCEPT ![c] = "none"]
          /\ UNCHANGED <<runs, place, fate, pc, snapshots>>
    BY <1>17 DEF ZombieEnds, KeepLocal, local, Untouched
  <2> QED
    BY <1>2, <1>3, <2>1 DEF DispatchedOnce
<1>18. CASE \E c \in Branches : Settle(c)
  <2>1. PICK c \in Branches :
          /\ place' = [place EXCEPT ![c] = "done"]
          /\ fate' = [fate EXCEPT ![c] = Disposition(c)]
          /\ UNCHANGED <<runs, zombies, pc, snapshots>>
    BY <1>18 DEF Settle, Untouched, world
  <2>2. Disposition(c) # "absent"
    BY DEF Disposition
  <2> QED
    BY <1>2, <1>3, <2>1, <2>2 DEF DispatchedOnce
<1>19. CASE \E c \in Branches : SettleFence(c)
  <2>1. PICK c \in Branches :
          /\ \E at \in {"aborted", "held"} : place' = [place EXCEPT ![c] = at]
          /\ UNCHANGED <<runs, zombies, fate, pc, snapshots>>
    BY <1>19 DEF SettleFence, Untouched, world
  <2> QED
    BY <1>2, <1>3, <2>1 DEF DispatchedOnce
<1>20. CASE Deadline
  <2>1. /\ place'[b] = "cut" \/ (place'[b] = place[b] /\ place[b] \notin {"called", "acted"})
        /\ zombies'[b] = IF place[b] \in {"called", "acted"} THEN place[b] ELSE zombies[b]
        /\ UNCHANGED <<runs, fate, pc, snapshots>>
    BY <1>20 DEF Deadline, Untouched
  <2> QED
    BY <1>2, <1>3, <2>1 DEF DispatchedOnce
<1>21. CASE \E c \in Branches : Fill(c) \/ Drain(c)
  BY <1>4, <1>21 DEF Fill, Drain, Untouched, world
<1>22. CASE Decide
  <2>1. place[b] \in {"off", "done", "held", "aborted", "unmarked", "scoped"} /\ pc = "run"
    BY <1>22 DEF Decide, Settled, At
  <2>2. place[b] \in {"off", "done", "scoped"} /\ fate[b] # "absent"
    BY <1>1, <1>2, <2>1 DEF Placed, DispatchedOnce
  <2>3. Snapshot[b] \notin {"absent", "held"}
    BY <1>3, <2>2 DEF Snapshot, Fates
  <2>4. UNCHANGED <<runs, zombies, place, fate>> /\ snapshots' \subseteq snapshots \cup {Snapshot}
    BY <1>22 DEF Decide, world
  <2> QED
    BY <1>2, <2>1, <2>3, <2>4 DEF DispatchedOnce
<1>23. CASE Return \/ DrainRaises
  BY <1>5, <1>23 DEF Return, DrainRaises, Raise, world
<1>24. CASE Crash
  BY <1>3, <1>5, <1>24 DEF Crash, All
<1>25. CASE StoreRaises \/ \E c \in Branches : MarkFails(c) \/ SettleFails(c)
  BY <1>25 DEF StoreRaises, MarkFails, SettleFails, WriteFails
<1>26. CASE UNCHANGED vars
  BY <1>4, <1>26 DEF vars, local, world
<1> QED
  BY <1>6, <1>7, <1>8, <1>9, <1>10, <1>11, <1>12, <1>13, <1>14, <1>15, <1>16, <1>17,
     <1>18,
     <1>19, <1>20, <1>21, <1>22, <1>23, <1>24, <1>25, <1>26 DEF Next, Loop, Threads, Faulty

(* No effect behind a fence runs twice, and none of an opaque branch       *)
(* either, as long as every write of the store succeeded.                  *)
THEOREM EffectOnceThm == Spec => []EffectAtMostOnce
<1> DEFINE Inv == FenceInv /\ PlaceInv /\ MarkInv /\ OpaqueInv
<1>1. Init => Inv
  <2> SUFFICES ASSUME Init PROVE Inv
    OBVIOUS
  <2>1. /\ pc = "idle" /\ cardinality = "absent" /\ snapshots = {}
        /\ \A b \in Branches :
             /\ place[b] = "off" /\ runs[b] = 0 /\ zombies[b] = "none" /\ fence[b] = "none"
             /\ directive[b] = "none" /\ marker[b] = "absent" /\ record[b] = "absent"
    BY DEF Init, All
  <2>2. FenceInv /\ PlaceInv /\ OpaqueInv
    BY <2>1 DEF FenceInv, Guarded, PlaceInv, Placed, OpaqueInv, DispatchedOnce
  <2>3. ~Begun
    BY <2>1 DEF Begun, Traced
  <2>4. MarkInv
    BY <2>1, <2>3 DEF MarkInv, AllMarked, MarkedAfterCardinality, SettledBefore
  <2> QED
    BY <2>2, <2>4
<1>2. TypeOK /\ Inv /\ [Next]_vars => Inv'
  BY FenceStep, PlaceStep, MarkStep, OpaqueStep
<1>3. Inv => EffectAtMostOnce
  BY DEF FenceInv, Guarded, OpaqueInv, DispatchedOnce, EffectAtMostOnce
<1> QED
  BY <1>1, <1>2, <1>3, TypeCorrect, PTL DEF Spec

-----------------------------------------------------------------------------
(* A success is whole.                                                     *)

LEMMA EffectStep == TypeOK /\ EffectInv /\ [Next]_vars => EffectInv'
<1> SUFFICES ASSUME TypeOK, EffectInv, [Next]_vars, NEW b \in Branches
             PROVE  HasRun(b)' => (runs[b] > 0)'
  BY DEF EffectInv
<1>1. HasRun(b) => runs[b] > 0
  BY DEF EffectInv
<1>2. /\ place \in [Branches -> Places] /\ fate \in [Branches -> Fates]
      /\ zombies \in [Branches -> {"none", "called", "acted"}] /\ runs \in [Branches -> Nat]
      /\ fence \in [Branches -> {"none", "claimed", "refired", "captured"}]
      /\ record \in [Branches -> Fates \cup {"torn"}]
  BY DEF TypeOK, StoreOK, PlanOK, WorldOK
<1>3. ASSUME runs'[b] = runs[b], HasRun(b)' => HasRun(b) PROVE HasRun(b)' => (runs[b] > 0)'
  BY <1>1, <1>3
(* The end of a drive.                                                     *)
<1>4. ASSUME Reset, UNCHANGED <<runs, snapshots, fence>>, zombies'[b] \in {zombies[b], "none"},
             record'[b] \in {record[b], "torn"}
      PROVE  HasRun(b)' => (runs[b] > 0)'
  <2>1. place'[b] = "off" /\ directive'[b] = "none" /\ fate'[b] = "absent"
    BY <1>4 DEF Reset, All
  <2> QED
    BY <1>3, <1>4, <2>1 DEF HasRun
<1>5. CASE Refuse
  BY <1>3, <1>5 DEF Refuse, local, store, world, HasRun
<1>6. CASE Drive
  <2>1. /\ UNCHANGED <<runs, zombies, fence, record, snapshots>>
        /\ place'[b] \in {"off", "planned"} /\ directive'[b] = "none"
        /\ fate'[b] \in {record[b], "absent"}
    BY <1>6 DEF Drive, Prepare, world, store, All
  <2> QED
    BY <1>3, <2>1 DEF HasRun
<1>7. CASE \E s \in snapshots : Resume(s)
  <2>1. PICK s \in snapshots : Resume(s)
    BY <1>7
  <2>2. PICK told \in [Branches -> {"none"} \cup UNION {Answers(c) : c \in Branches}] :
          /\ \A c \in Branches :
               told[c] \in IF s[c] = "held" THEN Answers(c) ELSE {"none"}
          /\ directive' = [c \in Branches |->
               IF told[c] = "abort_branch"
                  \/ (told[c] # "abort" /\ \E d \in Branches : told[d] = "abort")
               THEN "none" ELSE told[c]]
    BY <2>1 DEF Resume
  <2>3. /\ UNCHANGED <<runs, zombies, fence, record, snapshots>>
        /\ place'[b] \in {"scope", "planned", "off"}
        /\ fate'[b] = IF s[b] = "held" THEN "absent" ELSE s[b]
    BY <2>1 DEF Resume, Prepare, world, store
  <2>4. directive'[b] = "skip_as_fired" => runs[b] > 0
    BY <2>2 DEF Answers
  <2> QED
    BY <1>1, <2>3, <2>4 DEF HasRun
<1>8. CASE WriteCardinality \/ WriteInstrumented
  BY <1>3, <1>8 DEF WriteCardinality, WriteInstrumented, Untouched, world, HasRun
<1>9. CASE \E c \in Branches : WriteScoped(c)
  <2>1. PICK c \in Branches :
          /\ record' \in {record, [record EXCEPT ![c] = "scoped"]}
          /\ place' = [place EXCEPT ![c] = "scoped"] /\ fate' = [fate EXCEPT ![c] = "error"]
          /\ UNCHANGED <<runs, zombies, fence, directive, snapshots>>
    BY <1>9 DEF WriteScoped, Untouched, world
  <2> QED
    BY <1>2, <1>3, <2>1 DEF HasRun
<1>10. CASE \E c \in Branches : Mark(c) \/ MarkFails(c)
  <2>1. PICK c \in Branches :
          /\ \E at \in {"marked", "unmarked"} : place' = [place EXCEPT ![c] = at]
          /\ UNCHANGED <<runs, zombies, fence, directive, record, fate, snapshots>>
    BY <1>10 DEF Mark, MarkFails, Untouched, world
  <2> QED
    BY <1>2, <1>3, <2>1 DEF HasRun
<1>11. CASE Launch
  <2>1. /\ place'[b] \in {place[b], "flying"}
        /\ UNCHANGED <<runs, zombies, fence, directive, record, fate, snapshots>>
    BY <1>11 DEF Launch, Untouched, store, world
  <2> QED
    BY <1>3, <2>1 DEF HasRun
<1>12. CASE \E c \in Branches : Begin(c)
  <2>1. PICK c \in Branches : Begin(c)
    BY <1>12
  <2>2. UNCHANGED <<runs, zombies, directive, record, fate, snapshots>>
    BY <2>1 DEF Begin, Thread, Untouched, store
  <2>3. fence'[b] # "captured" \/ fence'[b] = fence[b]
    BY <1>2, <2>1 DEF Begin
  <2>4. \/ place'[b] = place[b] \/ place'[b] \in {"called", "abort", "ambiguous"}
        \/ directive[b] = "skip_as_fired" \/ fence[b] = "captured"
    BY <1>2, <2>1 DEF Begin, Thread
  <2> QED
    BY <1>3, <2>2, <2>3, <2>4 DEF HasRun
<1>13. CASE \E c \in Branches : Effect(c) \/ ZombieActs(c)
  <2>1. PICK c \in Branches :
          /\ runs' = [runs EXCEPT ![c] = @ + 1]
          /\ place' \in {place, [place EXCEPT ![c] = "acted"]}
          /\ zombies' \in {zombies, [zombies EXCEPT ![c] = "acted"]}
          /\ UNCHANGED <<fence, directive, record, fate, snapshots>>
    BY <1>13 DEF Effect, ZombieActs, Thread, KeepLocal, local, Untouched, store
  <2> QED
    BY <1>1, <1>2, <2>1 DEF HasRun
<1>14. CASE \E c \in Branches : ThreadReturns(c)
  <2>1. PICK c \in Branches :
          /\ place[c] = "acted" /\ place' = [place EXCEPT ![c] = "output"]
          /\ fence' \in {fence, [fence EXCEPT ![c] = "captured"]}
          /\ UNCHANGED <<runs, zombies, directive, record, fate, snapshots>>
    BY <1>14 DEF ThreadReturns, Thread, Untouched, store
  <2> QED
    BY <1>2, <1>3, <2>1 DEF HasRun
<1>15. CASE \E c \in Branches : ThreadFails(c)
  <2>1. PICK c \in Branches :
          /\ place' = [place EXCEPT ![c] = "error"]
          /\ UNCHANGED <<world, directive, record, fate, snapshots>>
    BY <1>15 DEF ThreadFails, Thread, Untouched, store
  <2> QED
    BY <1>2, <1>3, <2>1 DEF HasRun, world
<1>16. CASE \E c \in Branches : ZombieEnds(c)
  <2>1. PICK c \in Branches :
          /\ zombies' = [zombies EXCEPT ![c] = "none"]
          /\ \/ UNCHANGED fence
             \/ zombies[c] = "acted" /\ fence' = [fence EXCEPT ![c] = "captured"]
          /\ UNCHANGED <<runs, place, directive, record, fate, snapshots>>
    BY <1>16 DEF ZombieEnds, KeepLocal, local, Untouched, store
  <2> QED
    BY <1>2, <1>3, <2>1 DEF HasRun
<1>17. CASE \E c \in Branches : Settle(c)
  <2>1. PICK c \in Branches :
          /\ place' = [place EXCEPT ![c] = "done"]
          /\ record' \in {record, [record EXCEPT ![c] = Disposition(c)]}
          /\ fate' = [fate EXCEPT ![c] = Disposition(c)]
          /\ UNCHANGED <<runs, zombies, fence, directive, snapshots>>
    BY <1>17 DEF Settle, Untouched, world
  <2>2. Disposition(c) = "output" => place[c] = "output"
    BY DEF Disposition
  <2> QED
    BY <1>2, <1>3, <2>1, <2>2 DEF HasRun
<1>18. CASE \E c \in Branches : SettleFence(c) \/ SettleFails(c)
  <2>1. PICK c \in Branches :
          /\ \E at \in {"aborted", "held", "done"} : place' = [place EXCEPT ![c] = at]
          /\ record' \in {record, [record EXCEPT ![c] = "torn"]}
          /\ fate' \in {fate, [fate EXCEPT ![c] = "timed_out"], [fate EXCEPT ![c] = "error"]}
          /\ UNCHANGED <<runs, zombies, fence, directive, snapshots>>
    <3>1. PICK c \in Branches : SettleFence(c) \/ SettleFails(c)
      BY <1>18
    <3>2. CASE SettleFence(c)
      BY <3>2 DEF SettleFence, Untouched, world, store
    <3>3. CASE SettleFails(c)
      <4>1. /\ place' = [place EXCEPT ![c] = "done"]
            /\ fate' \in {fate, [fate EXCEPT ![c] = "timed_out"], [fate EXCEPT ![c] = "error"]}
            /\ UNCHANGED <<runs, zombies, fence, directive, snapshots>>
        <5>1. UNCHANGED <<runs, zombies, fence, directive, snapshots>>
          BY <3>3 DEF SettleFails, Untouched, world
        <5>2. place' = [place EXCEPT ![c] = "done"]
          BY <3>3 DEF SettleFails
        <5>3. fate' \in {fate, [fate EXCEPT ![c] = "timed_out"], [fate EXCEPT ![c] = "error"]}
          BY <3>3 DEF SettleFails
        <5> QED
          BY <5>1, <5>2, <5>3
      <4>2. record' \in {record, [record EXCEPT ![c] = "torn"]}
        <5>1. \E r \in {record[c], IF record[c] = "absent" THEN "torn" ELSE record[c]} :
                record' = [record EXCEPT ![c] = r]
          BY <3>3 DEF SettleFails
        <5>2. [record EXCEPT ![c] = record[c]] = record
          BY <1>2
        <5> QED
          BY <5>1, <5>2
      <4> QED
        BY <4>1, <4>2
    <3> QED
      BY <3>1, <3>2, <3>3
  <2> QED
    BY <1>2, <1>3, <2>1 DEF HasRun
<1>19. CASE Deadline
  <2>1. /\ place'[b] \in {place[b], "cut"}
        /\ zombies'[b] \in {zombies[b], place[b]}
        /\ UNCHANGED <<runs, fence, directive, record, fate, snapshots>>
    BY <1>19 DEF Deadline, Untouched, store
  <2> QED
    BY <1>3, <2>1 DEF HasRun
<1>20. CASE \E c \in Branches : Fill(c) \/ Drain(c)
  <2>1. PICK c \in Branches :
          /\ record' \in {record, [record EXCEPT ![c] = "error"]}
          /\ UNCHANGED <<world, place, directive, fate, snapshots>>
    BY <1>20 DEF Fill, Drain, Untouched, store
  <2> QED
    BY <1>2, <1>3, <2>1 DEF HasRun, world
<1>21. CASE Decide
  <2>1. /\ UNCHANGED <<world, place, directive, record, fate>>
        /\ snapshots' \subseteq snapshots \cup {Snapshot}
    BY <1>21 DEF Decide, store
  <2>2. Snapshot[b] = "output" => fate[b] = "output"
    BY DEF Snapshot
  <2> QED
    BY <1>3, <2>1, <2>2 DEF HasRun, world
<1>22. CASE Return \/ StoreRaises \/ DrainRaises
  BY <1>4, <1>22 DEF Return, StoreRaises, DrainRaises, Raise, store, world
<1>23. CASE Crash
  <2>1. Reset /\ zombies' = All("none") /\ UNCHANGED <<runs, snapshots, fence>>
    BY <1>23 DEF Crash
  <2>2. record'[b] \in {record[b], "torn"}
    BY <1>23 DEF Crash
  <2> QED
    BY <1>4, <2>1, <2>2 DEF All
<1>24. CASE UNCHANGED vars
  BY <1>3, <1>24 DEF vars, local, store, world, HasRun
<1> QED
  BY <1>5, <1>6, <1>7, <1>8, <1>9, <1>10, <1>11, <1>12, <1>13, <1>14, <1>15, <1>16, <1>17,
     <1>18, <1>19, <1>20, <1>21, <1>22, <1>23, <1>24 DEF Next, Loop, Threads, Faulty

LEMMA UnknownStep == TypeOK /\ UnknownFails /\ [Next]_vars => UnknownFails'
<1> SUFFICES ASSUME TypeOK, UnknownFails, [Next]_vars PROVE UnknownFails'
  OBVIOUS
<1>1. /\ place \in [Branches -> Places] /\ fate \in [Branches -> Fates]
      /\ record \in [Branches -> Fates \cup {"torn"}]
  BY DEF TypeOK, StoreOK, PlanOK
(* Steps of one branch, which leave the branches that are off alone.       *)
<1>2. ASSUME NEW c \in Branches, NEW at, NEW end, place[c] # "off", at # "off",
             place' = [place EXCEPT ![c] = at], fate' = [fate EXCEPT ![c] = end],
             failed => failed', UNCHANGED <<pc, struck>>,
             at \in {"done", "scoped"} => end # "absent" \/ failed',
             at = "unmarked" => failed', at \in {"held", "aborted"} => failed' \/ struck
      PROVE  UnknownFails'
  <2> SUFFICES ASSUME NEW b \in Branches
               PROVE  /\ place'[b] \in {"done", "scoped"} => fate'[b] # "absent" \/ failed'
                      /\ place'[b] = "unmarked" => failed'
                      /\ place'[b] \in {"held", "aborted"} => failed' \/ struck'
                      /\ pc' # "idle" /\ place'[b] = "off" =>
                           \/ fate'[b] # "absent"
                           \/ \E d \in Branches : place'[d] = "off" /\ fate'[d] = "error"
    BY DEF UnknownFails
  <2>1. CASE b = c
    BY <1>1, <1>2, <2>1
  <2>2. CASE b # c
    <3>1. place'[b] = place[b] /\ fate'[b] = fate[b]
      BY <1>1, <1>2, <2>2
    <3>2. \A d \in Branches : place[d] = "off" => place'[d] = "off" /\ fate'[d] = fate[d]
      BY <1>1, <1>2
    <3> QED
      BY <1>2, <3>1, <3>2 DEF UnknownFails
  <2> QED
    BY <2>1, <2>2
<1>3. ASSUME UNCHANGED <<place, fate, failed, struck>>, pc' # "idle" => pc # "idle"
      PROVE  UnknownFails'
  BY <1>3 DEF UnknownFails
<1>4. CASE Return \/ StoreRaises \/ DrainRaises \/ Crash
  <2>1. Reset
    BY <1>4 DEF Return, StoreRaises, DrainRaises, Crash, Raise
  <2> QED
    BY <2>1 DEF Reset, All, UnknownFails
<1>5. CASE Refuse
  BY <1>3, <1>5 DEF Refuse, local
<1>6. CASE Drive
  <2> DEFINE Known == IF Store THEN Recovered ELSE {}
  <2>1. /\ place' = [b \in Branches |->
                        IF b \in Known \/ (Store /\ Reconstruct) THEN "off" ELSE "planned"]
        /\ fate' = [b \in Branches |-> IF b \in Known THEN record[b] ELSE "absent"]
    BY <1>6 DEF Drive, Prepare
  <2>2. \A b \in Known : record[b] # "absent"
    BY DEF Recovered, Readable
  <2>3. Store /\ Reconstruct =>
          \E c \in Branches : place'[c] = "off" /\ fate'[c] = "error"
    BY <2>1 DEF Reconstruct, Recovered, Readable
  <2> HIDE DEF Known
  <2>4. \A b \in Branches : place'[b] \in {"off", "planned"}
    BY <2>1
  <2>5. \A b \in Branches : place'[b] = "off" => fate'[b] # "absent" \/ (Store /\ Reconstruct)
    BY <2>1, <2>2
  <2> QED
    BY <2>3, <2>4, <2>5 DEF UnknownFails
<1>7. CASE \E s \in snapshots : Resume(s)
  <2>1. PICK s \in snapshots : Resume(s)
    BY <1>7
  <2>2. \A b \in Branches :
          /\ place'[b] \in {"scope", "planned", "off"}
          /\ place'[b] = "off" => s[b] \notin {"absent", "held"}
          /\ fate'[b] = IF s[b] = "held" THEN "absent" ELSE s[b]
    BY <2>1 DEF Resume, Prepare
  <2> QED
    BY <2>2 DEF UnknownFails
<1>8. CASE WriteCardinality \/ WriteInstrumented
  BY <1>3, <1>8 DEF WriteCardinality, WriteInstrumented
<1>9. CASE \E c \in Branches : WriteScoped(c)
  <2>1. PICK c \in Branches :
          /\ place[c] = "scope" /\ UNCHANGED <<pc, failed, struck>>
          /\ place' = [place EXCEPT ![c] = "scoped"] /\ fate' = [fate EXCEPT ![c] = "error"]
    BY <1>9 DEF WriteScoped, Least, At
  <2> QED
    BY <1>2, <2>1
<1>10. CASE \E c \in Branches : Mark(c) \/ MarkFails(c)
  <2>1. PICK c \in Branches :
          /\ place[c] = "planned" /\ UNCHANGED <<pc, struck, fate>> /\ (failed => failed')
          /\ \/ place' = [place EXCEPT ![c] = "marked"]
             \/ place' = [place EXCEPT ![c] = "unmarked"] /\ failed'
    BY <1>10 DEF Mark, MarkFails, Least, At
  <2>2. fate' = [fate EXCEPT ![c] = fate[c]]
    BY <1>1, <2>1
  <2> QED
    BY <1>2, <2>1, <2>2
<1>11. CASE Launch
  <2>1. /\ place' = [b \in Branches |->
             IF place[b] \in {"planned", "marked"} THEN "flying" ELSE place[b]]
        /\ UNCHANGED <<fate, failed, struck>> /\ pc = "mark"
    BY <1>11 DEF Launch
  <2> QED
    BY <2>1 DEF UnknownFails
<1>12. CASE \E c \in Branches : Begin(c) \/ Effect(c) \/ ThreadReturns(c) \/ ThreadFails(c)
  <2>1. PICK c \in Branches :
          /\ place[c] \in {"flying", "called", "acted"} /\ UNCHANGED <<pc, struck, fate, failed>>
          /\ \E at \in {"called", "acted", "output", "error", "abort", "ambiguous"} :
               place' = [place EXCEPT ![c] = at]
    BY <1>12 DEF Begin, Effect, ThreadReturns, ThreadFails, Thread
  <2>2. fate' = [fate EXCEPT ![c] = fate[c]]
    BY <1>1, <2>1
  <2> QED
    BY <1>2, <2>1, <2>2
<1>13. CASE \E c \in Branches : ZombieActs(c) \/ ZombieEnds(c)
  BY <1>3, <1>13 DEF ZombieActs, ZombieEnds, KeepLocal, local
<1>14. CASE \E c \in Branches : Settle(c)
  <2>1. PICK c \in Branches :
          /\ place[c] # "off" /\ place' = [place EXCEPT ![c] = "done"]
          /\ fate' = [fate EXCEPT ![c] = Disposition(c)]
          /\ failed' = (failed \/ (Disposition(c) = "error" /\ ~struck))
          /\ UNCHANGED <<pc, struck>>
    BY <1>14 DEF Settle
  <2>2. Disposition(c) # "absent"
    BY DEF Disposition
  <2> QED
    BY <1>2, <2>1, <2>2
<1>15. CASE \E c \in Branches : SettleFence(c)
  <2>1. PICK c \in Branches :
          /\ place[c] # "off" /\ failed' = (failed \/ ~struck) /\ UNCHANGED <<pc, struck, fate>>
          /\ \E at \in {"aborted", "held"} : place' = [place EXCEPT ![c] = at]
    BY <1>15 DEF SettleFence
  <2>2. fate' = [fate EXCEPT ![c] = fate[c]]
    BY <1>1, <2>1
  <2> QED
    BY <1>2, <2>1, <2>2
<1>16. CASE \E c \in Branches : SettleFails(c)
  <2>1. PICK c \in Branches :
          /\ place[c] # "off" /\ failed' /\ UNCHANGED <<pc, struck>>
          /\ place' = [place EXCEPT ![c] = "done"]
          /\ \E end : fate' = fate \/ fate' = [fate EXCEPT ![c] = end]
    BY <1>16 DEF SettleFails
  <2>2. \E end : fate' = [fate EXCEPT ![c] = end]
    <3>1. fate = [fate EXCEPT ![c] = fate[c]]
      BY <1>1
    <3> QED
      BY <2>1, <3>1
  <2> QED
    BY <1>2, <2>1, <2>2
<1>17. CASE Deadline
  <2>1. /\ \A b \in Branches :
             /\ place'[b] \in {place[b], "cut"}
             /\ place[b] = "off" => place'[b] = "off"
        /\ UNCHANGED <<fate, failed, pc>> /\ struck' = TRUE
    BY <1>17 DEF Deadline
  <2>2. \A b \in Branches : place'[b] \in {"done", "scoped", "unmarked", "held", "aborted", "off"}
                            => place'[b] = place[b]
    BY <2>1
  <2>3. \A b \in Branches : pc' # "idle" /\ place'[b] = "off" =>
          \/ fate'[b] # "absent"
          \/ \E c \in Branches : place'[c] = "off" /\ fate'[c] = "error"
    BY <2>1, <2>2 DEF UnknownFails
  <2> QED
    BY <2>1, <2>2, <2>3 DEF UnknownFails
<1>18. CASE Decide \/ \E c \in Branches : Fill(c) \/ Drain(c)
  BY <1>3, <1>18 DEF Decide, Fill, Drain
<1>19. CASE UNCHANGED vars
  BY <1>3, <1>19 DEF vars, local
<1> QED
  BY <1>4, <1>5, <1>6, <1>7, <1>8, <1>9, <1>10, <1>11, <1>12, <1>13, <1>14, <1>15, <1>16,
     <1>17, <1>18, <1>19 DEF Next, Loop, Threads, Faulty

(* What a verdict of success rests on.                                     *)
LEMMA SuccessNeedsAll ==
  ASSUME TypeOK, UnknownFails, pc = "run", Settled, Status = "SUCCESS", NEW b \in Branches
  PROVE  fate[b] = "output"
<1>1. ~failed /\ ~struck /\ NoOutput = {}
  <2>1. policy \in {"proceed", "pause", "cascade-cancel"}
    BY FanOutAssumption DEF TypeOK, ManifestOK
  <2>2. CASE policy = "proceed"
    BY <2>2 DEF Status
  <2>3. CASE policy = "cascade-cancel"
    BY <2>3 DEF Status
  <2>4. CASE policy = "pause"
    BY <2>4 DEF Status
  <2> QED
    BY <2>1, <2>2, <2>3, <2>4
<1>2. place[b] \in {"off", "done", "held", "aborted", "unmarked", "scoped"} /\ pc = "run"
  BY DEF Settled, At
<1>3. \A c \in Branches : fate[c] # "error"
  BY <1>1 DEF NoOutput
<1>4. fate[b] # "absent"
  BY <1>1, <1>2, <1>3 DEF UnknownFails
<1> QED
  BY <1>1, <1>4 DEF NoOutput

LEMMA RunsGrow == TypeOK /\ [Next]_vars => \A b \in Branches : runs[b] > 0 => runs'[b] > 0
<1> SUFFICES ASSUME TypeOK, [Next]_vars, NEW b \in Branches, runs[b] > 0 PROVE runs'[b] > 0
  OBVIOUS
<1>1. runs \in [Branches -> Nat]
  BY DEF TypeOK, WorldOK
<1>2. CASE Refuse \/ Drive \/ \E s \in snapshots : Resume(s)
  BY <1>2 DEF Refuse, Drive, Resume, Prepare, world
<1>3. CASE Loop
  BY <1>3 DEF Loop, WriteCardinality, WriteInstrumented, Launch, Decide, Return,
     WriteScoped, Mark, Settle, SettleFence, Fill, Drain, world
<1>4. CASE \E c \in Branches : Effect(c) \/ ZombieActs(c)
  BY <1>1, <1>4 DEF Effect, ZombieActs
<1>5. CASE \E c \in Branches : Begin(c) \/ ThreadReturns(c) \/ ThreadFails(c) \/ ZombieEnds(c)
  BY <1>5 DEF Begin, ThreadReturns, ThreadFails, ZombieEnds, world
<1>6. CASE Deadline \/ Faulty
  BY <1>6 DEF Deadline, Faulty, Crash, StoreRaises, DrainRaises, MarkFails, SettleFails,
     Raise, world
<1>7. CASE UNCHANGED vars
  BY <1>7 DEF vars, world
<1> QED
  BY <1>2, <1>3, <1>4, <1>5, <1>6, <1>7 DEF Next, Threads

LEMMA WholeStep == TypeOK /\ EffectInv /\ WholeInv /\ [Next]_vars => WholeInv'
<1> SUFFICES ASSUME TypeOK, EffectInv, WholeInv, [Next]_vars PROVE WholeInv'
  OBVIOUS
<1>1. UnknownFails'
  BY UnknownStep DEF WholeInv
<1>2. /\ verdict # "none" => pc = "drain"
      /\ verdict = "SUCCESS" => \A b \in Branches : fate[b] = "output"
      /\ result = "SUCCESS" => \A b \in Branches : runs[b] > 0
  BY DEF WholeInv, SuccessIsWhole
<1>3. \A b \in Branches : runs[b] > 0 => runs'[b] > 0
  BY RunsGrow
(* The verdict is left alone, and so are the fates once there is one.      *)
<1>4. ASSUME UNCHANGED verdict, result' \in {result, "none", "FAILED"},
             pc = "drain" => pc' = "drain" /\ UNCHANGED fate
      PROVE  WholeInv'
  BY <1>1, <1>2, <1>3, <1>4 DEF WholeInv, SuccessIsWhole
<1>5. ASSUME Reset, \/ result' \in {result, "none", "RAISED"}
                    \/ pc = "drain" /\ result' = verdict
      PROVE  WholeInv'
  <2>1. verdict' = "none"
    BY <1>5 DEF Reset
  <2>2. verdict = "SUCCESS" => \A b \in Branches : runs[b] > 0
    BY <1>2 DEF EffectInv, HasRun
  <2>3. result' = "SUCCESS" => \A b \in Branches : runs[b] > 0
    BY <1>2, <1>5, <2>2
  <2> QED
    BY <1>1, <1>3, <2>1, <2>3 DEF WholeInv, SuccessIsWhole
<1>6. CASE Refuse \/ Drive \/ \E s \in snapshots : Resume(s)
  BY <1>4, <1>6 DEF Refuse, Drive, Resume, Prepare, local
<1>7. CASE WriteCardinality \/ WriteInstrumented \/ Launch \/ Deadline
  BY <1>4, <1>7 DEF WriteCardinality, WriteInstrumented, Launch, Deadline, Untouched
<1>8. CASE \E c \in Branches :
             WriteScoped(c) \/ Mark(c) \/ MarkFails(c) \/ Settle(c) \/ SettleFence(c)
             \/ SettleFails(c) \/ Fill(c) \/ Drain(c)
  BY <1>4, <1>8 DEF WriteScoped, Mark, MarkFails, Settle, SettleFence, SettleFails, Fill,
     Drain, Untouched
<1>9. CASE Threads
  BY <1>4, <1>9 DEF Threads, Begin, Effect, ThreadReturns, ThreadFails, ZombieActs,
     ZombieEnds, Thread, KeepLocal, Untouched, local
<1>10. CASE Decide
  <2>1. verdict' = Status /\ pc' = "drain" /\ UNCHANGED <<fate, result>>
    BY <1>10 DEF Decide
  <2>2. Status = "SUCCESS" => \A b \in Branches : fate[b] = "output"
    BY <1>10, SuccessNeedsAll DEF WholeInv, Decide
  <2> QED
    BY <1>1, <1>2, <1>3, <2>1, <2>2 DEF WholeInv, SuccessIsWhole
<1>11. CASE Return \/ StoreRaises \/ DrainRaises \/ Crash
  BY <1>5, <1>11 DEF Return, StoreRaises, DrainRaises, Raise, Crash
<1>12. CASE UNCHANGED vars
  BY <1>4, <1>12 DEF vars, local
<1> QED
  BY <1>6, <1>7, <1>8, <1>9, <1>10, <1>11, <1>12 DEF Next, Loop, Faulty

LEMMA WholeInit == Init => EffectInv /\ WholeInv
<1> SUFFICES ASSUME Init PROVE EffectInv /\ WholeInv
  OBVIOUS
<1>1. /\ pc = "idle" /\ snapshots = {} /\ verdict = "none" /\ result = "none"
      /\ \A b \in Branches :
           /\ place[b] = "off" /\ fate[b] = "absent" /\ zombies[b] = "none"
           /\ fence[b] = "none" /\ directive[b] = "none" /\ record[b] = "absent"
  BY DEF Init, All
<1> QED
  BY <1>1 DEF EffectInv, HasRun, WholeInv, UnknownFails, SuccessIsWhole

(* A success has an output, and an effect, of every branch.                *)
THEOREM SuccessThm == Spec => []SuccessIsWhole
<1>1. WholeInv => SuccessIsWhole
  BY DEF WholeInv
<1> QED
  BY <1>1, WholeInit, TypeCorrect, EffectStep, WholeStep, PTL DEF Spec

-----------------------------------------------------------------------------
(* Under CASCADE_CANCEL a failure is final.                                *)

LEMMA CascadeStep == TypeOK /\ CascadeInv /\ [Next]_vars => CascadeInv'
<1> SUFFICES ASSUME TypeOK, CascadeInv, [Next]_vars, policy' = "cascade-cancel", Store
             PROVE  FailureSeen'
  BY DEF CascadeInv
<1>1. policy = "cascade-cancel" /\ FailureSeen
  BY ManifestStays DEF CascadeInv, manifest
<1>2. /\ place \in [Branches -> Places] /\ record \in [Branches -> Fates \cup {"torn"}]
      /\ failed \in BOOLEAN /\ struck \in BOOLEAN
  BY DEF TypeOK, StoreOK, PlanOK, OutcomeOK
(* Steps that record no error and decide nothing.                          *)
<1>3. ASSUME UNCHANGED <<snapshots, verdict>>, result' \in {result, "none"},
             pc' # "idle" => pc # "idle" /\ result' = result,
             pc' = "drain" => pc = "drain",
             failed => failed', struck => struck', ErrorRecorded' => ErrorRecorded,
             \A b \in Branches : place'[b] = "held" => place[b] = "held"
      PROVE  FailureSeen'
  BY <1>1, <1>3 DEF FailureSeen
<1>4. ASSUME Reset, UNCHANGED snapshots, ErrorRecorded' => ErrorRecorded,
             \/ result' \in {result, "none", "RAISED"}
             \/ pc = "drain" /\ result' = verdict
      PROVE  FailureSeen'
  <2>1. pc' = "idle" /\ \A b \in Branches : place'[b] = "off"
    BY <1>4 DEF Reset, All
  <2> QED
    BY <1>1, <1>4, <2>1 DEF FailureSeen
<1>5. CASE Refuse
  BY <1>1, <1>5 DEF Refuse, local, store, FailureSeen, ErrorRecorded
<1>6. CASE Drive
  <2>1. /\ UNCHANGED <<record, snapshots>> /\ ~Refused /\ result' = "none"
        /\ pc' \in {"cardinality", "mark"}
        /\ \A b \in Branches : place'[b] \in {"off", "planned"}
    BY <1>6 DEF Drive, Prepare, store
  <2>2. \A b \in Branches : record[b] = "error" => b \in Recovered
    BY DEF Recovered, Readable, TimedOut
  <2>3. ~ErrorRecorded
    BY <1>1, <2>1, <2>2 DEF ErrorRecorded, Refused
  <2>4. ~ErrorRecorded'
    BY <2>1, <2>3 DEF ErrorRecorded
  <2> QED
    BY <1>1, <2>1, <2>4 DEF FailureSeen
<1>7. CASE \E s \in snapshots : Resume(s)
  BY <1>1, <1>7 DEF FailureSeen
<1>8. CASE WriteCardinality \/ WriteInstrumented
  BY <1>3, <1>8 DEF WriteCardinality, WriteInstrumented, Untouched, ErrorRecorded
<1>9. CASE \E c \in Branches : WriteScoped(c)
  <2>1. PICK c \in Branches :
          /\ record' \in {record, [record EXCEPT ![c] = "scoped"]}
          /\ place' = [place EXCEPT ![c] = "scoped"]
          /\ UNCHANGED <<snapshots, verdict, result, pc, failed, struck>>
    BY <1>9 DEF WriteScoped, Untouched
  <2> QED
    BY <1>2, <1>3, <2>1 DEF ErrorRecorded
<1>10. CASE \E c \in Branches : Mark(c) \/ MarkFails(c)
  <2>1. PICK c \in Branches :
          /\ \E at \in {"marked", "unmarked"} : place' = [place EXCEPT ![c] = at]
          /\ UNCHANGED <<record, snapshots, verdict, result, pc, struck>> /\ (failed => failed')
    BY <1>10 DEF Mark, MarkFails, Untouched
  <2> QED
    BY <1>2, <1>3, <2>1 DEF ErrorRecorded
<1>11. CASE Launch \/ Deadline
  <2>1. /\ \A b \in Branches : place'[b] \in {place[b], "flying", "cut"}
        /\ UNCHANGED <<record, snapshots, verdict, result, failed>> /\ (struck => struck')
        /\ pc # "idle" /\ pc' = "run"
    BY <1>11 DEF Launch, Deadline, Untouched, store
  <2> QED
    BY <1>3, <2>1 DEF ErrorRecorded
<1>12. CASE \E c \in Branches : Begin(c) \/ Effect(c) \/ ThreadReturns(c) \/ ThreadFails(c)
  <2>1. PICK c \in Branches :
          /\ \E at \in {"called", "acted", "output", "error", "abort", "ambiguous"} :
               place' = [place EXCEPT ![c] = at]
          /\ UNCHANGED <<record, snapshots, verdict, result, pc, failed, struck>>
    BY <1>12 DEF Begin, Effect, ThreadReturns, ThreadFails, Thread, Untouched, store
  <2> QED
    BY <1>2, <1>3, <2>1 DEF ErrorRecorded
<1>13. CASE \E c \in Branches : ZombieActs(c) \/ ZombieEnds(c)
  BY <1>3, <1>13 DEF ZombieActs, ZombieEnds, KeepLocal, local, Untouched, store,
     ErrorRecorded
<1>14. CASE \E c \in Branches : Settle(c)
  <2>1. PICK c \in Branches :
          /\ pc = "run" /\ record' = [record EXCEPT ![c] = Disposition(c)]
          /\ place' = [place EXCEPT ![c] = "done"]
          /\ failed' = (failed \/ (Disposition(c) = "error" /\ ~struck))
          /\ UNCHANGED <<snapshots, verdict, result, pc, struck>>
    BY <1>14 DEF Settle, Untouched
  <2>2. ErrorRecorded' => ErrorRecorded \/ Disposition(c) = "error"
    BY <1>2, <2>1 DEF ErrorRecorded
  <2>3. ErrorRecorded' => failed' \/ struck'
    BY <1>1, <2>1, <2>2 DEF FailureSeen
  <2>4. \A b \in Branches : place'[b] = "held" => place[b] = "held"
    BY <1>2, <2>1
  <2> QED
    BY <1>1, <2>1, <2>3, <2>4 DEF FailureSeen
<1>15. CASE \E c \in Branches : SettleFence(c)
  <2>1. /\ pc = "run" /\ failed' = (failed \/ ~struck)
        /\ UNCHANGED <<record, snapshots, verdict, result, pc, struck>>
    BY <1>15 DEF SettleFence, Untouched, store
  <2> QED
    BY <1>1, <2>1 DEF FailureSeen, ErrorRecorded
<1>16. CASE \E c \in Branches : SettleFails(c)
  <2>1. PICK c \in Branches :
          /\ place' = [place EXCEPT ![c] = "done"] /\ failed'
          /\ UNCHANGED <<snapshots, verdict, result, pc, struck>>
          /\ record' \in {record, [record EXCEPT ![c] = "torn"]}
    <3>1. PICK c \in Branches : SettleFails(c)
      BY <1>16
    <3>2. record' \in {record, [record EXCEPT ![c] = "torn"]}
      BY <1>2, <3>1 DEF SettleFails
    <3> QED
      BY <3>1, <3>2 DEF SettleFails, Untouched
  <2> QED
    BY <1>2, <1>3, <2>1 DEF ErrorRecorded
<1>17. CASE \E c \in Branches : Fill(c)
  <2>1. PICK c \in Branches :
          /\ pc = "run"
          /\ record' = IF place[c] = "held" THEN [record EXCEPT ![c] = "error"] ELSE record
          /\ UNCHANGED <<place, snapshots, verdict, result, pc, failed, struck>>
    BY <1>17 DEF Fill, Untouched
  <2>2. ErrorRecorded' => ErrorRecorded \/ place[c] = "held"
    BY <1>2, <2>1 DEF ErrorRecorded
  <2> QED
    BY <1>1, <2>1, <2>2 DEF FailureSeen
<1>18. CASE Decide
  <2>1. /\ verdict' = Status /\ pc = "run" /\ pc' = "drain"
        /\ snapshots' = IF Status = "PAUSED" THEN snapshots \cup {Snapshot} ELSE snapshots
        /\ UNCHANGED <<record, place, result, failed, struck>>
    BY <1>18 DEF Decide, store
  <2>2. Status # "PAUSED" /\ (failed \/ struck => Status = "FAILED")
    <3>1. CASE Aborted
      BY <1>1, <3>1 DEF Status
    <3>2. CASE ~Aborted
      BY <1>1, <3>2 DEF Status
    <3> QED
      BY <3>1, <3>2
  <2> QED
    BY <1>1, <2>1, <2>2 DEF FailureSeen, ErrorRecorded
<1>19. CASE \E c \in Branches : Drain(c)
  BY <1>3, <1>19 DEF Drain, Untouched, store, ErrorRecorded
<1>20. CASE Return \/ StoreRaises \/ DrainRaises
  BY <1>4, <1>20 DEF Return, StoreRaises, DrainRaises, Raise, store, ErrorRecorded
<1>21. CASE Crash
  <2>1. Reset /\ UNCHANGED snapshots /\ result' \in {result, "none"}
    BY <1>21 DEF Crash
  <2>2. \A b \in Branches : record'[b] \in {record[b], "torn"}
    BY <1>21 DEF Crash
  <2> QED
    BY <1>4, <2>1, <2>2 DEF ErrorRecorded
<1>22. CASE UNCHANGED vars
  BY <1>3, <1>22 DEF vars, local, store, ErrorRecorded
<1> QED
  BY <1>5, <1>6, <1>7, <1>8, <1>9, <1>10, <1>11, <1>12, <1>13, <1>14, <1>15, <1>16, <1>17,
     <1>18, <1>19, <1>20, <1>21, <1>22 DEF Next, Loop, Threads, Faulty

(* A failure that is on disk is never followed by anything but a failure.  *)
THEOREM FailureThm == Spec => []FailureSticks
<1>1. Init => CascadeInv
  <2> SUFFICES ASSUME Init PROVE CascadeInv
    OBVIOUS
  <2>1. /\ pc = "idle" /\ snapshots = {} /\ result = "none"
        /\ \A b \in Branches : place[b] = "off" /\ record[b] = "absent"
    BY DEF Init, All
  <2> QED
    BY <2>1 DEF CascadeInv, FailureSeen, ErrorRecorded
<1>2. CascadeInv => FailureSticks
  BY DEF CascadeInv, FailureSeen, ErrorRecorded, FailureSticks
<1> QED
  BY <1>1, <1>2, TypeCorrect, CascadeStep, PTL DEF Spec

-----------------------------------------------------------------------------
(* FanOut implements FanOutRun.                                            *)

(* Nobody holds a result while a drive is under way, and one that pauses   *)
(* has a snapshot.                                                         *)
DrivingInv ==
  /\ pc # "idle" => result = "none"
  /\ verdict = "PAUSED" \/ result = "PAUSED" => snapshots # {}

(* Under CASCADE_CANCEL a branch whose failure is recorded is at its end.  *)
FinalInv ==
  policy = "cascade-cancel" /\ Store =>
    \A b \in Branches : record[b] = "error" => place[b] \in {"off", "done", "held"}

LEMMA DrivingStep == DrivingInv /\ [Next]_vars => DrivingInv'
<1> SUFFICES ASSUME DrivingInv, [Next]_vars PROVE DrivingInv'
  OBVIOUS
<1>1. ASSUME UNCHANGED <<result, verdict, snapshots>>, pc' # "idle" => pc # "idle"
      PROVE  DrivingInv'
  BY <1>1 DEF DrivingInv
<1>2. ASSUME Reset, UNCHANGED snapshots, result' \in {result, verdict, "none", "RAISED"}
      PROVE  DrivingInv'
  BY <1>2 DEF DrivingInv, Reset
<1>3. CASE Refuse
  BY <1>3 DEF Refuse, local, DrivingInv
<1>4. CASE Drive
  BY <1>4 DEF Drive, Prepare, DrivingInv
<1>5. CASE \E s \in snapshots : Resume(s)
  BY <1>5 DEF Resume, Prepare, DrivingInv
<1>6. CASE WriteCardinality \/ WriteInstrumented \/ Launch \/ Deadline
  BY <1>1, <1>6 DEF WriteCardinality, WriteInstrumented, Launch, Deadline, Untouched
<1>7. CASE Decide
  BY <1>7 DEF Decide, DrivingInv
<1>8. CASE Return \/ StoreRaises \/ DrainRaises
  BY <1>2, <1>8 DEF Return, StoreRaises, DrainRaises, Raise
<1>9. CASE Crash
  BY <1>2, <1>9 DEF Crash
<1>10. ASSUME NEW b \in Branches, WriteScoped(b) \/ Mark(b) \/ MarkFails(b)
       PROVE  DrivingInv'
  BY <1>1, <1>10 DEF WriteScoped, Mark, MarkFails, Untouched
<1>11. ASSUME NEW b \in Branches, Settle(b) \/ SettleFence(b) \/ SettleFails(b)
       PROVE  DrivingInv'
  BY <1>1, <1>11 DEF Settle, SettleFence, SettleFails, Untouched
<1>12. ASSUME NEW b \in Branches, Fill(b) \/ Drain(b)
       PROVE  DrivingInv'
  BY <1>1, <1>12 DEF Fill, Drain, Untouched
<1>13. ASSUME NEW b \in Branches,
              Begin(b) \/ Effect(b) \/ ThreadReturns(b) \/ ThreadFails(b)
       PROVE  DrivingInv'
  BY <1>1, <1>13 DEF Begin, Effect, ThreadReturns, ThreadFails, Thread, Untouched
<1>14. ASSUME NEW b \in Branches, ZombieActs(b) \/ ZombieEnds(b)
       PROVE  DrivingInv'
  BY <1>1, <1>14 DEF ZombieActs, ZombieEnds, KeepLocal, local, Untouched
<1>15. CASE UNCHANGED vars
  BY <1>1, <1>15 DEF vars, local
<1> QED
  BY <1>3, <1>4, <1>5, <1>6, <1>7, <1>8, <1>9, <1>10, <1>11, <1>12, <1>13, <1>14, <1>15
  DEF Next, Loop, Threads, Faulty

LEMMA FinalStep == TypeOK /\ CascadeInv /\ FinalInv /\ [Next]_vars => FinalInv'
<1> SUFFICES ASSUME TypeOK, CascadeInv, FinalInv, [Next]_vars,
                    policy' = "cascade-cancel", Store,
                    NEW b \in Branches, record'[b] = "error"
             PROVE  place'[b] \in {"off", "done", "held"}
  BY DEF FinalInv
<1> DEFINE Over == place'[b] \in {"off", "done", "held"}
<1>1. /\ policy = "cascade-cancel" /\ snapshots = {}
      /\ record[b] = "error" => place[b] \in {"off", "done", "held"}
      /\ place \in [Branches -> Places] /\ record \in [Branches -> Fates \cup {"torn"}]
  BY ManifestStays DEF CascadeInv, FailureSeen, FinalInv, manifest, TypeOK, StoreOK, PlanOK
<1>2. ASSUME record'[b] = record[b],
             place'[b] = place[b] \/ place[b] \notin {"off", "done", "held"}
      PROVE  Over
  BY <1>1, <1>2
<1>3. ASSUME Reset PROVE Over
  BY <1>3 DEF Reset, All
<1>4. CASE Refuse
  BY <1>2, <1>4 DEF Refuse, store, local
<1>5. CASE Drive
  <2>1. b \in Recovered
    BY <1>5 DEF Drive, Prepare, store, Recovered, Readable, TimedOut
  <2>2. ~Refused
    BY <1>5 DEF Drive
  <2>3. record[b] = "error"
    BY <1>5 DEF Drive, Prepare, store
  <2> QED
    BY <1>1, <2>1, <2>2, <2>3 DEF Refused
<1>6. CASE \E s \in snapshots : Resume(s)
  BY <1>1, <1>6
<1>7. CASE WriteCardinality \/ WriteInstrumented
  BY <1>2, <1>7 DEF WriteCardinality, WriteInstrumented
<1>8. CASE Launch \/ Deadline
  <2>1. UNCHANGED record
    BY <1>8 DEF Launch, Deadline, store
  <2>2. place'[b] = place[b] \/ place[b] \notin {"off", "done", "held"}
    BY <1>8 DEF Launch, Deadline
  <2> QED
    BY <1>2, <2>1, <2>2
<1>9. CASE Decide
  BY <1>2, <1>9 DEF Decide, store
<1>10. CASE Return \/ StoreRaises \/ DrainRaises \/ Crash
  BY <1>3, <1>10 DEF Return, StoreRaises, DrainRaises, Crash, Raise
<1>11. ASSUME NEW c \in Branches, WriteScoped(c)
       PROVE  Over
  <2>1. place[c] = "scope" /\ place' = [place EXCEPT ![c] = "scoped"]
        /\ record' \in {record, [record EXCEPT ![c] = "scoped"]}
    BY <1>11 DEF WriteScoped, Least, At
  <2> QED
    BY <1>1, <1>2, <2>1
<1>12. ASSUME NEW c \in Branches, Mark(c) \/ MarkFails(c)
       PROVE  Over
  <2>1. place[c] = "planned" /\ \E at \in Places : place' = [place EXCEPT ![c] = at]
    BY <1>12 DEF Mark, MarkFails, Least, At, Places
  <2>2. UNCHANGED record
    BY <1>12 DEF Mark, MarkFails
  <2> QED
    BY <1>1, <1>2, <2>1, <2>2
<1>13. ASSUME NEW c \in Branches, Settle(c) \/ SettleFails(c)
       PROVE  Over
  <2>1. place' = [place EXCEPT ![c] = "done"]
    BY <1>13 DEF Settle, SettleFails
  <2>2. b # c => record'[b] = record[b]
    BY <1>1, <1>13 DEF Settle, SettleFails
  <2> QED
    BY <1>1, <1>2, <2>1, <2>2
<1>14. ASSUME NEW c \in Branches, SettleFence(c)
       PROVE  Over
  <2>1. /\ place[c] \in {"ambiguous", "abort"} /\ UNCHANGED record
        /\ b # c => place'[b] = place[b]
    BY <1>1, <1>14 DEF SettleFence, store
  <2> QED
    BY <1>2, <2>1
<1>15. ASSUME NEW c \in Branches, Fill(c)
       PROVE  Over
  <2>1. UNCHANGED place /\ (record'[b] = record[b] \/ place[b] = "held")
    BY <1>1, <1>15 DEF Fill
  <2> QED
    BY <1>2, <2>1
<1>16. ASSUME NEW c \in Branches, Drain(c)
       PROVE  Over
  BY <1>2, <1>16 DEF Drain, store
<1>17. ASSUME NEW c \in Branches,
              Begin(c) \/ Effect(c) \/ ThreadReturns(c) \/ ThreadFails(c)
       PROVE  Over
  <2>1. /\ place[c] \in {"flying", "called", "acted"} /\ UNCHANGED record
        /\ \E at \in Places : place' = [place EXCEPT ![c] = at]
    BY <1>17 DEF Begin, Effect, ThreadReturns, ThreadFails, Thread, store, Places
  <2> QED
    BY <1>1, <1>2, <2>1
<1>18. ASSUME NEW c \in Branches, ZombieActs(c) \/ ZombieEnds(c)
       PROVE  Over
  BY <1>2, <1>18 DEF ZombieActs, ZombieEnds, KeepLocal, local, store
<1>19. CASE UNCHANGED vars
  BY <1>2, <1>19 DEF vars, local, store
<1> QED
  BY <1>4, <1>5, <1>6, <1>7, <1>8, <1>9, <1>10, <1>11, <1>12, <1>13, <1>14, <1>15, <1>16,
     <1>17, <1>18, <1>19 DEF Next, Loop, Threads, Faulty

(* What the caller of a run sees, in the terms of FanOutRun.               *)
LEMMA SeesNothing ==
  ASSUME UNCHANGED <<manifest, lost, runs, record, ends, snapshots, result>>
  PROVE  UNCHANGED Promise!vars
<1>1. UNCHANGED <<GuardedOnce, Readable>> /\ (FinalFailure' = FinalFailure)
  BY DEF GuardedOnce, Marks, Strict, Readable, FinalFailure, manifest
<1> QED
  BY <1>1 DEF Promise!vars

LEMMA SeesEnd ==
  ASSUME TypeOK, NEW b \in Branches, NEW how \in Fates \ {"absent"},
         record' = [record EXCEPT ![b] = how], result = "none",
         policy = "cascade-cancel" /\ Store /\ record[b] = "error" => how = "error",
         UNCHANGED <<manifest, lost, runs, ends, snapshots, result>>
  PROVE  Promise!Keep(b)
<1>1. record \in [Branches -> Fates \cup {"torn"}]
  BY DEF TypeOK, StoreOK
<1>2. UNCHANGED GuardedOnce
  BY DEF GuardedOnce, Marks, Strict, manifest
<1>3. Readable' = Readable \cup {b}
  BY <1>1 DEF Readable, Fates
<1>4. FinalFailure' \in {FinalFailure, TRUE}
  <2>1. FinalFailure => FinalFailure'
    BY <1>1 DEF FinalFailure, manifest
  <2> QED
    BY <2>1 DEF FinalFailure
<1> QED
  BY <1>2, <1>3, <1>4 DEF Promise!Keep

(* A write of the store that fails tears at most what was not there.       *)
LEMMA SeesLoss ==
  ASSUME TypeOK, lost', result = "none", result' \in {"none", "RAISED"},
         NEW b \in Branches,
         record' \in {record, [record EXCEPT ![b] = IF record[b] = "absent" THEN "torn"
                                                     ELSE record[b]]},
         UNCHANGED <<manifest, runs, ends, snapshots>>
  PROVE  Promise!Lose
<1>1. \A c \in Branches :
        record'[c] # record[c] => record[c] = "absent" /\ record'[c] = "torn"
  BY DEF TypeOK, StoreOK
<1>2. GuardedOnce' \subseteq GuardedOnce
  BY DEF GuardedOnce, Marks, Strict, manifest, TypeOK, BudgetOK
<1>3. Readable' = Readable
  BY <1>1 DEF Readable
<1>4. FinalFailure' = FinalFailure
  BY <1>1 DEF FinalFailure, manifest
<1>5. (Store /\ ~lost)' = FALSE
  OBVIOUS
<1> QED
  BY <1>2, <1>3, <1>4, <1>5 DEF Promise!Lose

(* The caller is told a result.                                            *)
LEMMA SeesResult ==
  ASSUME result' \in {"SUCCESS", "PARTIAL", "FAILED", "PAUSED", "RAISED"},
         result' = "SUCCESS" => /\ \A b \in Branches : runs[b] > 0
                                /\ Store /\ ~lost => Readable = Branches,
         result' = "PAUSED" => snapshots # {},
         FinalFailure => result' \notin {"SUCCESS", "PARTIAL", "PAUSED"},
         UNCHANGED <<manifest, lost, runs, record, ends, snapshots>>
  PROVE  Promise!Next
<1>1. UNCHANGED <<GuardedOnce, Readable>> /\ (FinalFailure' = FinalFailure)
  BY DEF GuardedOnce, Marks, Strict, Readable, FinalFailure, manifest
<1>2. Promise!Report(result')
  BY <1>1 DEF Promise!Report
<1> QED
  BY <1>2 DEF Promise!Next

LEMMA SeesRun ==
  ASSUME EffectAtMostOnce', TypeOK, NEW b \in Branches,
         runs' = [runs EXCEPT ![b] = @ + 1],
         UNCHANGED <<manifest, lost, record, ends, snapshots, result>>
  PROVE  Promise!Run(b)
<1>1. UNCHANGED <<GuardedOnce, Readable>> /\ (FinalFailure' = FinalFailure)
  BY DEF GuardedOnce, Marks, Strict, Readable, FinalFailure, manifest
<1>2. b \in GuardedOnce => runs[b] = 0
  <2>1. runs[b] \in Nat /\ runs'[b] = runs[b] + 1
    BY DEF TypeOK, WorldOK
  <2>2. b \in GuardedOnce => runs'[b] <= 1
    BY <1>1 DEF EffectAtMostOnce, GuardedOnce, Marks, Strict
  <2> QED
    BY <2>1, <2>2
<1> QED
  BY <1>1, <1>2 DEF Promise!Run

LEMMA PromiseNext ==
  ASSUME TypeOK, [Next]_vars, EffectAtMostOnce', RecordInv, WholeInv, SuccessIsWhole',
         FailureSticks', CascadeInv, DrivingInv, FinalInv
  PROVE  [Promise!Next]_(Promise!vars)
<1>0. /\ record \in [Branches -> Fates \cup {"torn"}] /\ bufEnds \in [Branches -> Endings]
      /\ ends \in [Branches -> Endings]
      /\ verdict \in {"none", "SUCCESS", "PARTIAL", "FAILED", "PAUSED"}
      /\ pc # "idle" => result = "none"
  BY DEF TypeOK, StoreOK, LedgerOK, OutcomeOK, DrivingInv
<1>1. CASE UNCHANGED <<manifest, lost, runs, record, ends, snapshots, result>>
  BY <1>1, SeesNothing
<1>2. CASE Refuse
  <2>1. /\ result' = "FAILED"
        /\ UNCHANGED <<manifest, lost, runs, record, ends, snapshots>>
    BY <1>2 DEF Refuse, store, ledger, world, budget
  <2> QED
    BY <2>1, SeesResult
<1>3. CASE Drive \/ \E s \in snapshots : Resume(s)
  <2>1. result' = "none" /\ UNCHANGED <<manifest, lost, runs, record, ends, snapshots>>
    BY <1>3 DEF Drive, Resume, Prepare, store, ledger, world, budget
  <2>2. UNCHANGED <<GuardedOnce, Readable>> /\ (FinalFailure' = FinalFailure)
    BY <2>1 DEF GuardedOnce, Marks, Strict, Readable, FinalFailure, manifest
  <2> QED
    BY <2>1, <2>2 DEF Promise!Next, Promise!Begin
<1>4. CASE WriteCardinality \/ WriteInstrumented \/ Launch \/ Deadline
  BY <1>1, <1>4 DEF WriteCardinality, WriteInstrumented, Launch, Deadline, Untouched, store,
    ledger, world, budget
<1>5. CASE Decide
  <2>1. /\ pc = "run" /\ UNCHANGED <<manifest, lost, runs, record, ends, result>>
        /\ UNCHANGED snapshots \/ snapshots' # {}
    BY <1>5 DEF Decide, store, ledger, world, budget
  <2>2. UNCHANGED <<GuardedOnce, Readable>> /\ (FinalFailure' = FinalFailure)
    BY <2>1 DEF GuardedOnce, Marks, Strict, Readable, FinalFailure, manifest
  <2>3. CASE snapshots' # {}
    <3>1. (snapshots # {})' = TRUE
      BY <2>3
    <3> QED
      BY <1>0, <2>1, <2>2, <3>1 DEF Promise!Next, Promise!Offer
  <2> QED
    BY <1>1, <2>1, <2>3
<1>6. CASE Return
  <2>1. /\ pc = "drain" /\ result' = verdict
        /\ UNCHANGED <<manifest, lost, runs, record, ends, snapshots>>
    BY <1>6 DEF Return, store, ledger, world, budget
  <2>2. CASE verdict = "none"
    BY <1>0, <1>1, <2>1, <2>2
  <2>3. CASE verdict # "none"
    <3>1. verdict = "SUCCESS" => \A b \in Branches : runs[b] > 0
      BY <2>1 DEF SuccessIsWhole
    <3>2. verdict = "SUCCESS" /\ Store /\ ~lost => Readable = Branches
      BY DEF WholeInv, SuccessIsWhole, RecordInv, Covered, Readable
    <3>3. verdict = "PAUSED" => snapshots # {}
      BY DEF DrivingInv
    <3>4. FinalFailure => verdict \notin {"SUCCESS", "PARTIAL", "PAUSED"}
      BY <2>1 DEF FinalFailure, FailureSticks, manifest
    <3> QED
      BY <1>0, <2>1, <2>3, <3>1, <3>2, <3>3, <3>4, SeesResult
  <2> QED
    BY <2>2, <2>3
<1>7. CASE DrainRaises
  <2>1. /\ result' = "RAISED"
        /\ UNCHANGED <<manifest, lost, runs, record, ends, snapshots>>
    BY <1>7 DEF DrainRaises, Raise, Fault, store, ledger, world
  <2> QED
    BY <2>1, SeesResult
<1>8. CASE StoreRaises
  <2>1. /\ lost' /\ pc # "idle" /\ result' = "RAISED" /\ 0 \in Branches
        /\ UNCHANGED <<manifest, runs, record, ends, snapshots>>
    BY <1>8, FanOutAssumption
    DEF StoreRaises, WriteFails, Raise, store, ledger, world, Branches
  <2> QED
    BY <1>0, <2>1, SeesLoss DEF Promise!Next
<1>9. CASE Crash
  <2>1. /\ \A b \in Branches :
             record'[b] # record[b] => record[b] = "absent" /\ record'[b] = "torn"
        /\ result' = result
        /\ UNCHANGED <<manifest, lost, runs, ends, snapshots>>
    BY <1>0, <1>9 DEF Crash, Fault, BeingRecorded, ledger
  <2>2. UNCHANGED <<GuardedOnce, Readable>> /\ (FinalFailure' = FinalFailure)
    BY <2>1 DEF GuardedOnce, Marks, Strict, Readable, FinalFailure, manifest
  <2> QED
    BY <2>1, <2>2 DEF Promise!vars
<1>10. ASSUME NEW b \in Branches, Mark(b) \/ SettleFence(b)
       PROVE  UNCHANGED <<manifest, lost, runs, record, ends, snapshots, result>>
  BY <1>10 DEF Mark, SettleFence, Untouched, store, ledger, world, budget
<1>11. ASSUME NEW b \in Branches, WriteScoped(b) \/ Settle(b) \/ Fill(b)
       PROVE  [Promise!Next]_(Promise!vars)
  <2>1. /\ pc # "idle" /\ UNCHANGED <<manifest, lost, runs, ends, snapshots, result>>
        /\ \/ UNCHANGED record
           \/ /\ record' = [record EXCEPT ![b] = "scoped"] /\ place[b] = "scope"
           \/ /\ record' = [record EXCEPT ![b] = Disposition(b)]
              /\ place[b] \in {"output", "error", "cut", "ambiguous", "abort"}
           \/ record' = [record EXCEPT ![b] = "error"]
    BY <1>11 DEF WriteScoped, Settle, Fill, Untouched, ledger, world, budget, Least, At
  <2>2. Disposition(b) \in Fates \ {"absent"} /\ {"scoped", "error"} \subseteq Fates \ {"absent"}
    BY DEF Disposition, Fates
  <2>3. CASE ~UNCHANGED record
    <3>1. \/ UNCHANGED record
          \/ \E how \in Fates \ {"absent"} :
               /\ record' = [record EXCEPT ![b] = how]
               /\ policy = "cascade-cancel" /\ Store /\ record[b] = "error" => how = "error"
      BY <2>1, <2>2 DEF FinalInv
    <3> QED
      BY <1>0, <2>1, <2>3, <3>1, SeesEnd DEF Promise!Next
  <2> QED
    BY <1>1, <2>1, <2>3
<1>12. ASSUME NEW b \in Branches, MarkFails(b) \/ SettleFails(b)
       PROVE  Promise!Next
  <2>1. /\ lost' /\ pc # "idle" /\ UNCHANGED <<manifest, runs, ends, snapshots, result>>
        /\ record' \in {record, [record EXCEPT ![b] = IF record[b] = "absent" THEN "torn"
                                                      ELSE record[b]]}
    <3>1. CASE MarkFails(b)
      BY <3>1 DEF MarkFails, WriteFails, Untouched, ledger, world
    <3>2. CASE SettleFails(b)
      BY <1>0, <3>2 DEF SettleFails, WriteFails, Untouched, ledger, world
    <3> QED
      BY <1>12, <3>1, <3>2
  <2> QED
    BY <1>0, <2>1, SeesLoss DEF Promise!Next
<1>13. ASSUME NEW b \in Branches, Drain(b)
       PROVE  [Promise!Next]_(Promise!vars)
  <2>1. pc = "drain" /\ UNCHANGED <<manifest, lost, runs, record, snapshots, result>>
    BY <1>13 DEF Drain, Untouched, store, world, budget
  <2>2. CASE ~UNCHANGED ends
    <3>1. /\ ends[b] = "none" /\ ends' = [ends EXCEPT ![b] = bufEnds[b]]
          /\ bufEnds[b] # "none"
      BY <1>0, <1>13, <2>2 DEF Drain, Least, Buffered
    <3>2. Store /\ ~lost /\ bufEnds[b] # "cancelled" => b \in Readable
      BY <1>0, <3>1 DEF RecordInv, Covered, Endings
    <3>3. UNCHANGED <<GuardedOnce, Readable>> /\ (FinalFailure' = FinalFailure)
      BY <2>1 DEF GuardedOnce, Marks, Strict, Readable, FinalFailure, manifest
    <3>4. Promise!Enter(b, bufEnds[b])
      BY <1>0, <2>1, <3>1, <3>2, <3>3 DEF Promise!Enter
    <3> QED
      BY <1>0, <3>1, <3>4 DEF Promise!Next, Endings
  <2> QED
    BY <1>1, <2>1, <2>2
<1>14. ASSUME NEW b \in Branches,
              Begin(b) \/ ThreadReturns(b) \/ ThreadFails(b) \/ ZombieEnds(b)
       PROVE  UNCHANGED <<manifest, lost, runs, record, ends, snapshots, result>>
  BY <1>14 DEF Begin, ThreadReturns, ThreadFails, ZombieEnds, Thread, Untouched, Fault, store,
    ledger, world, budget
<1>15. ASSUME NEW b \in Branches, Effect(b) \/ ZombieActs(b)
       PROVE  Promise!Next
  <2>1. /\ runs' = [runs EXCEPT ![b] = @ + 1]
        /\ UNCHANGED <<manifest, lost, record, ends, snapshots, result>>
    BY <1>15 DEF Effect, ZombieActs, Thread, Untouched, store, ledger, budget
  <2> QED
    BY <2>1, SeesRun DEF Promise!Next
<1>16. CASE UNCHANGED vars
  BY <1>1, <1>16 DEF vars, store, ledger, world, budget
<1> QED
  BY <1>1, <1>2, <1>3, <1>4, <1>5, <1>6, <1>7, <1>8, <1>9, <1>10, <1>11, <1>12, <1>13, <1>14,
     <1>15, <1>16
  DEF Next, Loop, Threads, Faulty

(* However a run is driven, again after crashes and from pauses, and with  *)
(* threads that outlive their drives, its caller sees a run of FanOutRun   *)
(* (_execute_parallelization, the crash gates, the branch journals).       *)
THEOREM FanOutRunThm == Spec => ImplementsFanOutRun
<1>1. Init => Promise!Init /\ RecordInv /\ DrivingInv /\ FinalInv /\ CascadeInv
  <2> SUFFICES ASSUME Init
               PROVE  Promise!Init /\ RecordInv /\ DrivingInv /\ FinalInv /\ CascadeInv
    OBVIOUS
  <2>1. /\ pc = "idle" /\ result = "none" /\ verdict = "none" /\ snapshots = {}
        /\ runs = [b \in Branches |-> 0] /\ ends = [b \in Branches |-> "none"]
        /\ lost = FALSE
        /\ \A b \in Branches :
             /\ record[b] = "absent" /\ place[b] = "off" /\ fate[b] = "absent"
             /\ ends[b] = "none" /\ bufEnds[b] = "none"
    BY DEF Init, All
  <2>2. RecordInv /\ DrivingInv /\ FinalInv
    BY <2>1 DEF RecordInv, Covered, DrivingInv, FinalInv
  <2>3. CascadeInv
    BY <2>1 DEF CascadeInv, FailureSeen, ErrorRecorded
  <2>4. GuardedOnce \subseteq Branches /\ Readable = {} /\ FinalFailure = FALSE
        /\ (Store /\ ~lost) \in BOOLEAN /\ (snapshots # {}) = FALSE
    BY <2>1 DEF GuardedOnce, Readable, FinalFailure
  <2> QED
    BY <2>1, <2>2, <2>3, <2>4 DEF Promise!Init
<1>2. TypeOK /\ [Next]_vars /\ EffectAtMostOnce' /\ RecordInv /\ WholeInv /\ SuccessIsWhole'
      /\ FailureSticks' /\ CascadeInv /\ DrivingInv /\ FinalInv
      => [Promise!Next]_(Promise!vars)
  BY PromiseNext
<1> QED
  BY <1>1, <1>2, TypeCorrect, EffectOnceThm, RecordStep, WholeInit, EffectStep, WholeStep,
     SuccessThm, FailureThm, CascadeStep, DrivingStep, FinalStep, PTL
  DEF Spec, ImplementsFanOutRun, Promise!Spec

-----------------------------------------------------------------------------
(* An orchestrator in front of the barrier: inductive invariants.          *)

Untried == orchRuns = 0 /\ orchZombie = 0

(* Whoever may still run the effect is alone, and nobody has.              *)
OnceInv ==
  /\ orchKind \in {"safe", "fenced", "opaque"}
  /\ held => orchKind = "fenced"
  /\ phase = "idle" => orchDirective = "none"
  /\ orchKind # "safe" =>
       /\ orchRuns \in {0, 1}
       /\ phase = "called" => Untried
       /\ orchZombie # 0 => orchRuns = 0
  /\ orchKind = "fenced" =>
       /\ orchFence = "none" => Untried /\ phase # "called"
       /\ orchDirective = "re_fire" /\ phase \in {"stamp", "mark", "call"} => Untried
  /\ orchKind = "opaque" =>
       /\ orchMarker = "absent" \/ phase \in {"stamp", "mark", "call"} => Untried
       /\ phase \in {"call", "called"} => orchMarker # "absent"

Dispatching == {"stamp", "mark", "call", "called", "acted", "returned"}
Working == {"workers", "composed", "captured", "synthesised"}

(* What dispatches workers, or lets a snapshot carry an output, has the    *)
(* one that is recorded.  A tool that is dispatched again over its record, *)
(* which a pause older than the record can do, returns what was captured.  *)
PlanInv ==
  /\ phase \in {"idle"} \cup Dispatching \cup Working
  /\ pc # "idle" => phase \in Working
  /\ phase \in Dispatching => orchRecord = "absent" \/ orchKind = "fenced"
  /\ phase \in Working => orchRecord = "set" /\ plan = orchOutput
  /\ plans \subseteq {orchOutput} /\ carried \subseteq {orchOutput}
  /\ orchRecord # "set" => plans = {} /\ carried = {}
  /\ orchKind = "fenced" =>
       /\ phase \in {"called", "acted"} => orchFence # "captured"
       /\ phase = "acted" \/ orchFence = "captured" => orchRuns # 0
       /\ orchRecord # "absent" \/ phase = "returned" => orchFence = "captured"
       /\ phase = "returned" => plan = capture
       /\ orchRecord = "set" => orchOutput = capture

(* A drive that is about to report a synthesis has the one that is         *)
(* recorded.                                                               *)
AnswerInv ==
  /\ answers # {} => synthRecord = "set" /\ answers = {synthOutput}
  /\ phase \in {"captured", "synthesised"} => synthRecord = "set" /\ answer = synthOutput
  /\ phase = "composed" => synthRecord = "absent"

-----------------------------------------------------------------------------
(* The orchestrator's effect.                                              *)

(* The drive goes where nothing is dispatched, or ends.                    *)
LEMMA OnceAside ==
  ASSUME OnceInv, UNCHANGED <<orchKind, orchRuns, orchFence, orchMarker, held>>,
         orchZombie' \in {0, orchZombie},
         \/ UNCHANGED <<phase, orchDirective>>
         \/ phase' = "idle" /\ orchDirective' = "none"
         \/ phase' \in Working /\ UNCHANGED orchDirective
  PROVE  OnceInv'
BY DEF OnceInv, Untried, Working

LEMMA OnceStep ==
  ASSUME OnceInv, OrchNext
  PROVE  OnceInv'
<1>1. CASE OrchRefuse \/ WorkersStep \/ ThreadsStep \/ Rebuild
  BY <1>1, OnceAside
  DEF OrchRefuse, WorkersStep, ThreadsStep, Rebuild, orchVars, orchManifest, orchStore,
    orchWorld, orchPauses, orchDrive
<1>2. CASE OrchLaunch \/ OrchDecide \/ DrainOrchestrator
  BY <1>2, OnceAside
  DEF OrchLaunch, OrchDecide, DrainOrchestrator, orchManifest, orchStore, orchWorld,
    orchPauses, orchDrive
<1>3. CASE Redrive \/ \E s \in snapshots : OrchResume(s)
  BY <1>3, OnceAside
  DEF Redrive, OrchResume, orchManifest, orchStore, orchWorld, orchPauses, Working
<1>4. CASE Synthesise \/ Replay \/ RecordSynthesis \/ LogSynthesis
  BY <1>4, OnceAside
  DEF Synthesise, Replay, RecordSynthesis, LogSynthesis, SynthesisStep, orchManifest,
    orchStore, orchWorld, orchPauses, Working
<1>5. CASE SynthesisFails \/ OrchReturn \/ OrchRaises
  BY <1>5, OnceAside
  DEF SynthesisFails, OrchReturn, OrchRaises, Ends, OrchReset, orchManifest, orchStore,
    orchWorld, orchPauses
<1>6. CASE OrchStart
  BY <1>6
  DEF OnceInv, Untried, OrchStart, Idle, MayDispatch, orchManifest, orchStore, orchWorld,
    orchPauses
<1>7. CASE ResumeHeld
  <2>1. /\ held /\ UNCHANGED <<orchKind, orchRuns, orchZombie, orchFence, orchMarker, held>>
        /\ \/ phase' = "idle" /\ orchDirective' = "none"
           \/ phase' = "stamp" /\ (orchDirective' = "re_fire" => Untried)
    BY <1>7
    DEF ResumeHeld, OrchEnds, OrchReset, orchManifest, orchStore, orchWorld, orchPauses, Untried
  <2>2. QED  BY <2>1 DEF OnceInv, Untried
<1>8. CASE Stamp \/ MarkOrchestrator
  BY <1>8
  DEF OnceInv, Untried, Stamp, MarkOrchestrator, To, orchManifest, orchStore, orchWorld,
    orchPauses
<1>9. CASE CallOrchestrator
  BY <1>9 DEF OnceInv, Untried, CallOrchestrator, To, orchManifest, orchStore, orchPauses
<1>10. CASE Refuses
  <2>1. /\ UNCHANGED <<orchKind, orchRuns, orchZombie, orchFence, orchMarker>>
        /\ phase' = "idle" /\ orchDirective' = "none"
        /\ held' => held \/ orchKind = "fenced"
    BY <1>10
    DEF Refuses, Unanswered, OrchEnds, OrchReset, orchManifest, orchStore, orchWorld
  <2>2. QED  BY <2>1 DEF OnceInv, Untried
<1>11. CASE OrchActs
  BY <1>11 DEF OnceInv, Untried, OrchActs, To, orchManifest, orchStore, orchPauses
<1>12. CASE OrchReturns
  BY <1>12 DEF OnceInv, Untried, OrchReturns, To, orchManifest, orchStore, orchPauses
<1>13. CASE OrchFails
  <2>1. /\ UNCHANGED <<orchKind, orchRuns, orchFence, orchMarker, held>>
        /\ orchZombie' = orchZombie \/ phase = "called"
        /\ phase \in {"called", "acted"} /\ phase' = "idle" /\ orchDirective' = "none"
    BY <1>13 DEF OrchFails, OrchEnds, OrchReset, orchManifest, orchStore, orchPauses
  <2>2. QED  BY <2>1 DEF OnceInv, Untried
<1>14. CASE OrchZombieActs
  BY <1>14
  DEF OnceInv, Untried, OrchZombieActs, orchManifest, orchStore, orchPauses, orchDrive
<1>15. CASE RecordOrchestrator
  BY <1>15, OnceAside DEF RecordOrchestrator, orchManifest, orchWorld, orchPauses, Working
<1>16. CASE OrchStoreFails
  <2>1. /\ UNCHANGED <<orchKind, orchRuns, orchFence, orchZombie, held>>
        /\ orchMarker' \in {orchMarker, "torn"}
        /\ phase' = "idle" /\ orchDirective' = "none"
    BY <1>16 DEF OrchStoreFails, OrchEnds, OrchReset, orchManifest, orchWorld, orchPauses
  <2>2. QED  BY <2>1 DEF OnceInv, Untried
<1>17. CASE OrchCrash
  <2>1. /\ UNCHANGED <<orchKind, orchRuns, orchFence, held>> /\ orchZombie' = 0
        /\ orchMarker' \in {orchMarker, "torn"}
        /\ phase' = "idle" /\ orchDirective' = "none"
    BY <1>17 DEF OrchCrash, OrchReset, orchManifest, orchPauses
  <2>2. QED  BY <2>1 DEF OnceInv, Untried
<1>18. QED
  BY <1>1, <1>2, <1>3, <1>4, <1>5, <1>6, <1>7, <1>8, <1>9, <1>10, <1>11, <1>12, <1>13, <1>14,
    <1>15, <1>16, <1>17
  DEF OrchNext

LEMMA Once == OrchSpec => []OnceInv
<1>1. OrchInit => OnceInv  BY OrchestratorAssumption DEF OrchInit, OnceInv, Untried
<1>2. OnceInv /\ [OrchNext]_<<vars, orchVars>> => OnceInv'
  <2>1. CASE UNCHANGED <<vars, orchVars>>
    BY <2>1 DEF OnceInv, Untried, orchVars, orchManifest, orchStore, orchWorld, orchPauses,
      orchDrive
  <2>2. QED  BY <2>1, OnceStep
<1>3. QED  BY <1>1, <1>2, PTL DEF OrchSpec

(* The orchestrator's effect runs at most once, whatever crashes, fails    *)
(* late or is resumed: its marker, and for a tool its fence, keep a second *)
(* drive from dispatching it again (_execute_orchestrator_workers).        *)
THEOREM OrchestratorOnceThm == OrchSpec => []OrchestratorAtMostOnce
<1>1. OnceInv => OrchestratorAtMostOnce  BY DEF OnceInv, OrchestratorAtMostOnce
<1>2. QED  BY <1>1, Once, PTL

-----------------------------------------------------------------------------
(* The decomposition.                                                      *)

(* The workers' steps start no drive.                                      *)
LEMMA WorkersBusy ==
  ASSUME WorkersStep \/ ThreadsStep \/ Rebuild \/ DrainOrchestrator, pc = "idle"
  PROVE  pc' = "idle"
<1>1. CASE WorkersStep
  BY <1>1
  DEF WorkersStep, WriteCardinality, WriteInstrumented, Deadline, WriteScoped, Mark, Settle,
    SettleFence, Fill, MarkFails, SettleFails, Drain
<1>2. CASE ThreadsStep
  BY <1>2
  DEF ThreadsStep, Threads, Begin, Effect, ThreadReturns, ThreadFails, ZombieActs, ZombieEnds,
    Thread, KeepLocal, local
<1>3. CASE Rebuild \/ DrainOrchestrator
  BY <1>3 DEF Rebuild, DrainOrchestrator
<1>4. QED  BY <1>1, <1>2, <1>3

LEMMA PlanAside ==
  ASSUME PlanInv, UNCHANGED <<orchKind, orchRecord, orchOutput, orchFence, capture,
                              orchRuns, plans, carried>>,
         \/ UNCHANGED <<phase, plan>> /\ (pc = "idle" => pc' = "idle")
         \/ phase' = "idle" /\ pc' = "idle"
         \/ phase \in Working /\ phase' \in Working /\ UNCHANGED plan
  PROVE  PlanInv'
BY DEF PlanInv, Working, Dispatching

LEMMA PlanStep ==
  ASSUME OnceInv, PlanInv, OrchNext
  PROVE  PlanInv'
<1>1. CASE OrchRefuse \/ WorkersStep \/ ThreadsStep \/ Rebuild \/ DrainOrchestrator
  <2>1. pc = "idle" => pc' = "idle"
    BY <1>1, WorkersBusy DEF OrchRefuse, local
  <2>2. UNCHANGED <<orchKind, orchRecord, orchOutput, orchFence, capture, orchRuns, plans,
                    carried, phase, plan>>
    BY <1>1
    DEF OrchRefuse, WorkersStep, ThreadsStep, Rebuild, DrainOrchestrator, orchVars,
      orchManifest, orchStore, orchWorld, orchPauses, orchDrive, history
  <2>3. QED  BY <2>1, <2>2, PlanAside
<1>2. CASE OrchLaunch
  <2>1. /\ pc = "mark" /\ plans' \in {plans, plans \cup {plan}}
        /\ UNCHANGED <<orchKind, orchRecord, orchOutput, orchFence, capture, orchRuns,
                       carried, phase, plan>>
    BY <1>2
    DEF OrchLaunch, Launch, orchManifest, orchStore, orchWorld, orchPauses, orchDrive
  <2>2. QED  BY <2>1 DEF PlanInv, Working, Dispatching
<1>3. CASE OrchDecide
  <2>1. /\ pc = "run" /\ carried' \in {carried, carried \cup {plan}}
        /\ UNCHANGED <<orchKind, orchRecord, orchOutput, orchFence, capture, orchRuns,
                       plans, phase, plan>>
    BY <1>3
    DEF OrchDecide, Decide, orchManifest, orchStore, orchWorld, orchDrive, history
  <2>2. QED  BY <2>1 DEF PlanInv, Working, Dispatching
<1>4. CASE Redrive
  <2>1. /\ orchRecord = "set" /\ plan' = orchOutput /\ phase' = "workers"
        /\ UNCHANGED <<orchKind, orchRecord, orchOutput, orchFence, capture, orchRuns,
                       plans, carried>>
    BY <1>4
    DEF Redrive, MayRedrive, orchManifest, orchStore, orchWorld, orchPauses, history
  <2>2. QED  BY <2>1 DEF PlanInv, Working, Dispatching
<1>5. CASE \E s \in snapshots : OrchResume(s)
  <2>1. /\ plan' \in carried /\ phase' = "workers"
        /\ UNCHANGED <<orchKind, orchRecord, orchOutput, orchFence, capture, orchRuns,
                       plans, carried>>
    BY <1>5 DEF OrchResume, orchManifest, orchStore, orchWorld, orchPauses, history
  <2>2. QED  BY <2>1 DEF PlanInv, Working, Dispatching
<1>6. CASE Synthesise \/ Replay \/ RecordSynthesis \/ LogSynthesis
  BY <1>6, PlanAside
  DEF Synthesise, Replay, RecordSynthesis, LogSynthesis, SynthesisStep, Drained, orchManifest,
    orchStore, orchWorld, orchPauses, Working
<1>7. CASE SynthesisFails \/ OrchReturn \/ OrchRaises
  BY <1>7, PlanAside
  DEF SynthesisFails, OrchReturn, OrchRaises, StoreRaises, DrainRaises, Raise, Ends, Reset,
    OrchReset, orchManifest, orchStore, orchWorld, orchPauses, history
<1>8. CASE OrchStart \/ ResumeHeld
  <2>1. /\ UNCHANGED <<orchKind, orchRecord, orchOutput, orchFence, capture, orchRuns, plans,
                       carried, pc>>
        /\ pc = "idle"
        /\ phase' = "idle" \/ (phase' = "stamp" /\ (orchRecord = "absent" \/ held))
    BY <1>8
    DEF OrchStart, ResumeHeld, Idle, MayDispatch, OrchEnds, OrchReset, FanOutRests, local,
      orchManifest, orchStore, orchWorld, orchPauses, history
  <2>2. held => orchKind = "fenced"  BY DEF OnceInv
  <2>3. QED  BY <2>1, <2>2 DEF PlanInv, Working, Dispatching
<1>9. CASE Stamp \/ MarkOrchestrator
  BY <1>9
  DEF PlanInv, Working, Dispatching, Stamp, MarkOrchestrator, To, local, orchManifest,
    orchStore, orchWorld, orchPauses, history
<1>10. CASE CallOrchestrator
  BY <1>10
  DEF PlanInv, Working, Dispatching, CallOrchestrator, To, local, orchManifest, orchStore,
    orchPauses
<1>11. CASE Refuses \/ OrchFails
  <2>1. /\ UNCHANGED <<orchKind, orchRecord, orchOutput, orchFence, capture, orchRuns,
                       plans, carried, pc>>
        /\ phase \in Dispatching /\ phase' = "idle"
    BY <1>11
    DEF Refuses, OrchFails, OrchEnds, OrchReset, FanOutRests, local, orchManifest, orchStore,
      orchWorld, orchPauses, history, Dispatching
  <2>2. QED  BY <2>1 DEF PlanInv, Working, Dispatching
<1>12. CASE OrchActs
  <2>1. /\ UNCHANGED <<orchKind, orchRecord, orchOutput, orchFence, capture, plans,
                       carried, pc, plan>>
        /\ phase = "called" /\ phase' = "acted" /\ orchRuns' = orchRuns + 1
    BY <1>12 DEF OrchActs, To, local, orchManifest, orchStore, orchPauses, history
  <2>2. orchKind = "fenced" => orchRuns' # 0  BY <2>1 DEF OnceInv
  <2>3. QED  BY <2>1, <2>2 DEF PlanInv, Working, Dispatching
<1>13. CASE OrchReturns
  BY <1>13
  DEF PlanInv, Working, Dispatching, OrchReturns, To, local, orchManifest, orchStore,
    orchPauses, history
<1>14. CASE OrchZombieActs
  <2>1. /\ UNCHANGED <<orchKind, orchRecord, orchOutput, plans, carried, pc, phase, plan>>
        /\ orchRuns' = orchRuns + 1
    BY <1>14
    DEF OrchZombieActs, FanOutRests, local, orchManifest, orchStore, orchPauses, orchDrive,
      history
  <2>2. orchKind = "fenced" => orchRuns = 0 /\ phase # "called"
    BY <1>14 DEF OrchZombieActs, OnceInv, Untried
  <2>3. orchKind = "fenced" =>
          /\ phase \notin {"called", "acted", "returned"} /\ orchRecord = "absent"
          /\ orchRuns' # 0
    BY <2>1, <2>2 DEF PlanInv
  <2>4. QED  BY <2>1, <2>3 DEF PlanInv
<1>15. CASE RecordOrchestrator
  <2>1. /\ phase = "returned" /\ phase' = "workers" /\ orchRecord' = "set" /\ orchOutput' = plan
        /\ UNCHANGED <<orchKind, orchFence, capture, orchRuns, plans, carried, plan>>
    BY <1>15 DEF RecordOrchestrator, orchManifest, orchWorld, orchPauses, history
  <2>2. QED  BY <2>1 DEF PlanInv, Working, Dispatching
<1>16. CASE OrchStoreFails \/ OrchCrash
  <2>1. /\ UNCHANGED <<orchKind, orchOutput, orchFence, capture, orchRuns, plans, carried>>
        /\ phase' = "idle" /\ (pc = "idle" => pc' = "idle")
        /\ pc # "idle" => pc' = "idle" \/ phase \in Dispatching
        /\ \/ UNCHANGED orchRecord
           \/ phase = "returned" /\ orchRecord = "absent" /\ orchRecord' = "torn"
    BY <1>16
    DEF OrchStoreFails, OrchCrash, OrchEnds, OrchReset, FanOutRests, Crash, Reset, local,
      orchManifest, orchWorld, orchPauses, history, Dispatching
  <2>2. QED  BY <2>1 DEF PlanInv, Working, Dispatching
<1>17. QED
  BY <1>1, <1>2, <1>3, <1>4, <1>5, <1>6, <1>7, <1>8, <1>9, <1>10, <1>11, <1>12, <1>13, <1>14,
    <1>15, <1>16
  DEF OrchNext

LEMMA Plan == OrchSpec => []PlanInv
<1>1. OrchInit => PlanInv  BY DEF OrchInit, Init, PlanInv, Working, Dispatching
<1>2. OnceInv /\ PlanInv /\ [OrchNext]_<<vars, orchVars>> => PlanInv'
  <2>1. CASE UNCHANGED <<vars, orchVars>>
    BY <2>1 DEF PlanInv, vars, local, orchVars, orchManifest, orchStore, orchWorld, orchPauses,
      orchDrive, history
  <2>2. QED  BY <2>1, PlanStep
<1>3. QED  BY <1>1, <1>2, Once, PTL DEF OrchSpec

(* All workers of a run are dispatched under one output of the             *)
(* orchestrator: no drive mixes workers of two decompositions              *)
(* (_execute_orchestrator_workers over _determine_fanout_resume).          *)
THEOREM OnePlanThm == OrchSpec => []OnePlan
<1>1. PlanInv => OnePlan
  <2> SUFFICES ASSUME PlanInv PROVE OnePlan
    OBVIOUS
  <2>1. IsFiniteSet({orchOutput}) /\ Cardinality({orchOutput}) = 1  BY FS_Singleton
  <2>2. plans \in SUBSET {orchOutput}  BY DEF PlanInv
  <2>3. Cardinality(plans) <= 1  BY <2>1, <2>2, FS_Subset
  <2>4. phase = "workers" => plans \subseteq {plan}  BY <2>2 DEF PlanInv, Working
  <2>5. QED  BY <2>3, <2>4 DEF OnePlan
<1>2. QED  BY <1>1, Plan, PTL

-----------------------------------------------------------------------------
(* The synthesis.                                                          *)

LEMMA AnswerStep ==
  ASSUME AnswerInv, OrchNext
  PROVE  AnswerInv'
<1>1. CASE /\ UNCHANGED <<synthRecord, synthOutput, answers>>
           /\ \/ UNCHANGED <<phase, answer>>
              \/ phase' \notin {"composed", "captured", "synthesised"}
  BY <1>1 DEF AnswerInv
<1>2. CASE \/ OrchRefuse \/ WorkersStep \/ ThreadsStep \/ Rebuild \/ DrainOrchestrator
           \/ OrchLaunch \/ OrchDecide \/ OrchZombieActs
  BY <1>1, <1>2
  DEF OrchRefuse, WorkersStep, ThreadsStep, Rebuild, DrainOrchestrator, OrchLaunch, OrchDecide,
    OrchZombieActs, orchVars, synthStore, orchDrive, history
<1>3. CASE OrchStart \/ Redrive \/ ResumeHeld \/ \E s \in snapshots : OrchResume(s)
  BY <1>1, <1>3
  DEF OrchStart, Redrive, ResumeHeld, OrchResume, OrchEnds, OrchReset, synthStore, history
<1>4. CASE Stamp \/ MarkOrchestrator \/ CallOrchestrator \/ OrchActs \/ OrchReturns
  BY <1>1, <1>4
  DEF Stamp, MarkOrchestrator, CallOrchestrator, OrchActs, OrchReturns, To, synthStore, history
<1>5. CASE Refuses \/ OrchFails \/ RecordOrchestrator \/ OrchStoreFails
  BY <1>1, <1>5
  DEF Refuses, OrchFails, RecordOrchestrator, OrchStoreFails, OrchEnds, OrchReset, synthStore,
    history
<1>6. CASE Replay
  BY <1>6 DEF AnswerInv, Replay, SynthesisStep, synthStore
<1>7. CASE Synthesise
  BY <1>7 DEF AnswerInv, Synthesise, SynthesisStep, synthStore
<1>8. CASE RecordSynthesis
  BY <1>8 DEF AnswerInv, RecordSynthesis, SynthesisStep
<1>9. CASE LogSynthesis
  BY <1>9 DEF AnswerInv, LogSynthesis, SynthesisStep, synthStore
<1>10. CASE OrchReturn
  BY <1>10 DEF AnswerInv, OrchReturn, Ends, OrchReset, synthStore
<1>11. CASE SynthesisFails
  <2>1. /\ UNCHANGED <<synthOutput, answers>> /\ phase' = "idle"
        /\ UNCHANGED synthRecord \/ (phase = "composed" /\ synthRecord' = "torn")
    BY <1>11 DEF SynthesisFails, Ends, OrchReset, history
  <2>2. QED  BY <2>1 DEF AnswerInv
<1>12. CASE OrchRaises
  BY <1>1, <1>12 DEF OrchRaises, OrchReset, synthStore, history
<1>13. CASE OrchCrash
  <2>1. /\ UNCHANGED <<synthOutput, answers>> /\ phase' = "idle"
        /\ UNCHANGED synthRecord \/ (phase = "composed" /\ synthRecord' = "torn")
    BY <1>13 DEF OrchCrash, OrchReset, history
  <2>2. QED  BY <2>1 DEF AnswerInv
<1>14. QED
  BY <1>2, <1>3, <1>4, <1>5, <1>6, <1>7, <1>8, <1>9, <1>10, <1>11, <1>12, <1>13 DEF OrchNext

LEMMA Answer == OrchSpec => []AnswerInv
<1>1. OrchInit => AnswerInv  BY DEF OrchInit, AnswerInv
<1>2. AnswerInv /\ [OrchNext]_<<vars, orchVars>> => AnswerInv'
  <2>1. CASE UNCHANGED <<vars, orchVars>>
    BY <2>1 DEF AnswerInv, orchVars, synthStore, orchDrive, history
  <2>2. QED  BY <2>1, AnswerStep
<1>3. QED  BY <1>1, <1>2, PTL DEF OrchSpec

(* All drives that report a synthesis report the same one, even if the     *)
(* first of them failed after it was computed, or died: it is recorded     *)
(* before it is used, and replayed (_maybe_post_join_synthesis).           *)
THEOREM OneAnswerThm == OrchSpec => []OneAnswer
<1>1. AnswerInv => OneAnswer
  BY FS_EmptySet, FS_Singleton DEF AnswerInv, OneAnswer
<1>2. QED  BY <1>1, Answer, PTL

-----------------------------------------------------------------------------
(* A success of the whole run.                                             *)

(* What the drive does beside its workers leaves them alone.               *)
Beside ==
  /\ UNCHANGED <<manifest, cardinality, marker, record, ledger, world, snapshots, local>>
  /\ instrumented' \in BOOLEAN /\ BudgetOK'
  /\ result' \in {result, "none", "FAILED", "PAUSED", "RAISED"}

(* The decision over a plan that was empty.                                *)
DecideEmpty ==
  /\ EmptyPlan /\ pc = "run" /\ verdict' = Status /\ pc' = "drain"
  /\ UNCHANGED <<manifest, store, ledger, world, snapshots, result, drives, budget,
                 origin, place, directive, fate, buffers, failed, struck>>

(* Every step is one of FanOut's, or one of a few that replace them.       *)
LEMMA Splits ==
  ASSUME TypeOK, OrchNext
  PROVE  \/ Next /\ result' \in {result, "none", "RAISED"}
         \/ Beside
         \/ Redrive \/ RecordOrchestrator \/ DecideEmpty \/ Rebuild
         \/ Ends("FAILED") /\ BudgetOK'
         \/ OrchReturn
<1>1. /\ drives \in 0 .. MaxDrives /\ faults \in 0 .. MaxFaults /\ lost \in BOOLEAN
      /\ instrumented \in BOOLEAN /\ MaxDrives \in Nat /\ MaxFaults \in Nat
  BY FanOutAssumption DEF TypeOK, BudgetOK, StoreOK
<1>2. (UNCHANGED <<drives, budget>>) => BudgetOK'
  BY <1>1 DEF BudgetOK, budget
<1>3. (UNCHANGED drives /\ (Fault \/ WriteFails)) => BudgetOK'
  <2>1. ASSUME UNCHANGED drives, Fault PROVE BudgetOK'
    BY <1>1, <2>1 DEF BudgetOK, Fault
  <2>2. ASSUME UNCHANGED drives, WriteFails PROVE BudgetOK'
    <3>1. faults' \in 0 .. MaxFaults /\ drives' \in 0 .. MaxDrives /\ lost' = TRUE
      BY <1>1, <2>2 DEF WriteFails
    <3>2. lost' \in BOOLEAN
      BY <3>1
    <3>3. QED  BY <3>1, <3>2 DEF BudgetOK
  <2>3. QED  BY <2>1, <2>2
<1>4. CASE WorkersStep \/ ThreadsStep
  <2>1. CASE WorkersStep
    <3>1. CASE WriteCardinality \/ WriteInstrumented \/ Deadline
      BY <3>1 DEF WriteCardinality, WriteInstrumented, Deadline, Untouched, Next, Loop
    <3>2. ASSUME NEW b \in Branches, WriteScoped(b) \/ Mark(b) \/ MarkFails(b)
          PROVE  Next /\ UNCHANGED result
      BY <3>2 DEF WriteScoped, Mark, MarkFails, Untouched, Next, Loop, Faulty
    <3>3. ASSUME NEW b \in Branches, Settle(b) \/ SettleFence(b) \/ SettleFails(b)
          PROVE  Next /\ UNCHANGED result
      BY <3>3 DEF Settle, SettleFence, SettleFails, Untouched, Next, Loop, Faulty
    <3>4. ASSUME NEW b \in Branches, Fill(b) \/ Drain(b)
          PROVE  Next /\ UNCHANGED result
      BY <3>4 DEF Fill, Drain, Untouched, Next, Loop
    <3>5. QED  BY <2>1, <3>1, <3>2, <3>3, <3>4 DEF WorkersStep
  <2>2. CASE ThreadsStep
    BY <2>2
    DEF ThreadsStep, Threads, Begin, Effect, ThreadReturns, ThreadFails, ZombieActs,
      ZombieEnds, Thread, Untouched, Next
  <2>3. QED  BY <1>4, <2>1, <2>2
<1>5. CASE OrchLaunch \/ OrchDecide
  <2>1. CASE OrchLaunch
    BY <2>1 DEF OrchLaunch, Launch, Untouched, Next, Loop
  <2>2. CASE OrchDecide
    <3>1. CASE Decide
      BY <3>1 DEF Decide, Next, Loop
    <3>2. CASE ~Decide
      BY <2>2, <3>2 DEF OrchDecide, DecideEmpty
    <3>3. QED  BY <3>1, <3>2
  <2>3. QED  BY <1>5, <2>1, <2>2
<1>6. CASE \E s \in snapshots : OrchResume(s)
  BY <1>6 DEF OrchResume, Resume, Next
<1>7. CASE OrchRaises
  BY <1>7 DEF OrchRaises, StoreRaises, DrainRaises, Raise, Next, Faulty
<1>8. CASE OrchCrash
  <2>1. CASE Crash
    BY <2>1 DEF Crash, Next, Faulty
  <2>2. CASE ~Crash
    <3>1. Fault /\ FanOutRests /\ result' \in {result, "none"}
      BY <1>8, <2>2 DEF OrchCrash
    <3>2. QED  BY <1>1, <1>3, <3>1 DEF FanOutRests, Beside, store
  <2>3. QED  BY <2>1, <2>2
<1>9. CASE OrchRefuse
  <2>1. BudgetOK'
    BY <1>1, <1>9 DEF OrchRefuse, Idle, BudgetOK, budget
  <2>2. QED  BY <1>1, <1>9, <2>1 DEF OrchRefuse, Beside, store
<1>10. CASE OrchStart \/ ResumeHeld
  BY <1>1, <1>2, <1>10 DEF OrchStart, ResumeHeld, OrchEnds, FanOutRests, Beside, store
<1>11. CASE Stamp \/ MarkOrchestrator \/ CallOrchestrator \/ OrchActs \/ OrchReturns
  <2>1. /\ UNCHANGED <<manifest, cardinality, marker, record, ledger, world, snapshots, local,
                       drives, result, budget>>
        /\ instrumented' \in {instrumented, instrumented \/ Strict}
    BY <1>11
    DEF Stamp, MarkOrchestrator, CallOrchestrator, OrchActs, OrchReturns, To
  <2>2. instrumented' \in BOOLEAN
    BY <1>1, <2>1
  <2>3. QED  BY <1>2, <2>1, <2>2 DEF Beside
<1>12. CASE Refuses
  BY <1>1, <1>2, <1>12 DEF Refuses, OrchEnds, FanOutRests, Beside, store
<1>13. CASE OrchFails \/ OrchStoreFails
  <2>1. /\ FanOutRests /\ result' \in {"FAILED", "RAISED"}
        /\ Fault \/ WriteFails
    BY <1>13 DEF OrchFails, OrchStoreFails, OrchEnds
  <2>2. QED  BY <1>1, <1>3, <2>1 DEF FanOutRests, Beside, store
<1>14. CASE OrchZombieActs
  BY <1>1, <1>2, <1>14 DEF OrchZombieActs, FanOutRests, Beside, store
<1>15. CASE DrainOrchestrator \/ Synthesise \/ Replay \/ RecordSynthesis \/ LogSynthesis
  BY <1>1, <1>2, <1>15
  DEF DrainOrchestrator, Synthesise, Replay, RecordSynthesis, LogSynthesis, SynthesisStep,
    Beside, store
<1>16. CASE SynthesisFails
  <2>1. Ends("FAILED") /\ (Fault \/ WriteFails \/ UNCHANGED budget)
    BY <1>16 DEF SynthesisFails
  <2>2. QED  BY <1>2, <1>3, <2>1 DEF Ends
<1>17. QED
  BY <1>4, <1>5, <1>6, <1>7, <1>8, <1>9, <1>10, <1>11, <1>12, <1>13, <1>14, <1>15, <1>16
  DEF OrchNext

(* FanOut's invariants hold with an orchestrator in front of the barrier.  *)
WorkersInv == TypeOK /\ EffectInv /\ WholeInv

LEMMA BesideStep == ASSUME WorkersInv, Beside PROVE WorkersInv'
<1>1. TypeOK'
  BY DEF WorkersInv, Beside, TypeOK, ManifestOK, StoreOK, LedgerOK, WorldOK, PlanOK, OutcomeOK,
    manifest, ledger, world, buffers, local
<1>2. EffectInv'
  BY DEF WorkersInv, Beside, EffectInv, HasRun, world, local
<1>3. WholeInv'
  BY DEF WorkersInv, Beside, WholeInv, UnknownFails, SuccessIsWhole, world, local
<1>4. QED  BY <1>1, <1>2, <1>3 DEF WorkersInv

(* A drive that prepares its workers knows of the branches that it leaves  *)
(* off what the store knows.                                               *)
LEMMA PrepareStep ==
  ASSUME WorkersInv, Redrive \/ RecordOrchestrator
  PROVE  WorkersInv'
<1>0. /\ pc = "idle" /\ verdict = "none" /\ drives' = drives + 1 /\ drives < MaxDrives
      /\ UNCHANGED <<manifest, store, ledger, world, snapshots, budget,
                     failed, struck, verdict>>
      /\ \A b \in Branches : directive'[b] = "none"
      /\ directive' \in [Branches -> {"none"}] /\ result' \in {result, "none"}
      /\ pc' \in {"cardinality", "mark"} /\ origin' \in {"crash", "fresh"}
  BY DEF Redrive, RecordOrchestrator, Prepare, All, WorkersInv, WholeInv
<1>1. drives' \in 0 .. MaxDrives
  BY <1>0, FanOutAssumption DEF WorkersInv, TypeOK, BudgetOK
<1>2. CASE Redrive
  <2>1. /\ place' \in [Branches -> {"off", "planned"}] /\ fate' \in [Branches -> Fates]
        /\ \A b \in Branches :
             /\ place'[b] = IF b \in Recovered \/ Reconstruct THEN "off" ELSE "planned"
             /\ fate'[b] = IF b \in Recovered THEN record[b] ELSE "absent"
    <3>1. \A b \in Recovered : b \in Branches /\ record[b] \in Fates
      BY DEF Recovered, Readable, TimedOut, WorkersInv, TypeOK, StoreOK, Fates
    <3>2. QED  BY <1>2, <3>1 DEF Redrive, Prepare, Fates
  <2>2. bufSteps' \subseteq Branches /\ bufEnds' \in [Branches -> Endings]
    BY <1>2 DEF Redrive, Recovered, Readable, TimedOut, Endings
  <2>3. TypeOK'
    BY <1>1, <1>0, <2>1, <2>2
    DEF WorkersInv, TypeOK, ManifestOK, StoreOK, LedgerOK, WorldOK, PlanOK, OutcomeOK,
      BudgetOK, Places, manifest, store, ledger, world, budget
  <2>4. EffectInv'
    BY <1>0, <2>1 DEF WorkersInv, EffectInv, HasRun, store, world
  <2>5. UnknownFails'
    <3>1. \A b \in Recovered : record[b] # "absent"
      BY DEF Recovered, Readable, TimedOut
    <3>2. ASSUME Reconstruct
          PROVE  \E c \in Branches : c \in Recovered /\ record[c] = "error"
      BY <3>2 DEF Reconstruct, Recovered, Readable, TimedOut
    <3>3. QED  BY <1>0, <2>1, <3>1, <3>2 DEF UnknownFails
  <2>6. WholeInv'
    BY <1>0, <2>5 DEF WorkersInv, WholeInv, SuccessIsWhole, world
  <2>7. QED  BY <2>3, <2>4, <2>6 DEF WorkersInv
<1>3. CASE RecordOrchestrator
  <2>1. /\ place' = All("planned") /\ fate' = All("absent")
        /\ bufSteps' = {} /\ bufEnds' = All("none")
    BY <1>3 DEF RecordOrchestrator, Prepare
  <2>2. TypeOK'
    BY <1>1, <1>0, <2>1
    DEF WorkersInv, TypeOK, ManifestOK, StoreOK, LedgerOK, WorldOK, PlanOK, OutcomeOK,
      BudgetOK, Places, Fates, Endings, All, manifest, store, ledger, world, budget
  <2>3. EffectInv'
    BY <1>0, <2>1 DEF WorkersInv, EffectInv, HasRun, All, store, world
  <2>4. WholeInv'
    BY <1>0, <2>1 DEF WorkersInv, WholeInv, UnknownFails, SuccessIsWhole, All, world
  <2>5. QED  BY <2>2, <2>3, <2>4 DEF WorkersInv
<1>4. QED  BY <1>2, <1>3

LEMMA DecideEmptyStep == ASSUME WorkersInv, DecideEmpty PROVE WorkersInv'
<1>1. Settled
  BY DEF DecideEmpty, EmptyPlan, Settled, At
<1>2. Status \in {"SUCCESS", "PARTIAL", "FAILED", "PAUSED"}
  BY FanOutAssumption DEF WorkersInv, TypeOK, ManifestOK, Status
<1>3. TypeOK'
  BY <1>2
  DEF DecideEmpty, WorkersInv, TypeOK, ManifestOK, StoreOK, LedgerOK, WorldOK, PlanOK,
    OutcomeOK, BudgetOK, manifest, store, ledger, world, buffers, budget
<1>4. EffectInv'
  BY DEF DecideEmpty, WorkersInv, EffectInv, HasRun, store, world
<1>5. Status = "SUCCESS" => \A b \in Branches : fate[b] = "output"
  BY <1>1, SuccessNeedsAll DEF DecideEmpty, WorkersInv, WholeInv
<1>6. WholeInv'
  BY <1>5 DEF DecideEmpty, WorkersInv, WholeInv, UnknownFails, SuccessIsWhole, world
<1>7. QED  BY <1>3, <1>4, <1>6 DEF WorkersInv

LEMMA RebuildStep == ASSUME WorkersInv, Rebuild PROVE WorkersInv'
<1>1. Snapshot \in [Branches -> Fates \cup {"held"}]
  BY DEF Snapshot, WorkersInv, TypeOK, PlanOK
<1>2. TypeOK'
  BY <1>1
  DEF Rebuild, WorkersInv, TypeOK, ManifestOK, StoreOK, LedgerOK, WorldOK, PlanOK,
    OutcomeOK, BudgetOK, manifest, store, ledger, world, buffers, local, budget
<1>3. \A b \in Branches : Snapshot[b] = "output" => fate[b] = "output"
  BY DEF Snapshot
<1>4. EffectInv'
  BY <1>3 DEF Rebuild, WorkersInv, EffectInv, HasRun, store, world, local
<1>5. WholeInv'
  BY DEF Rebuild, WorkersInv, WholeInv, UnknownFails, SuccessIsWhole, world, local
<1>6. QED  BY <1>2, <1>4, <1>5 DEF WorkersInv

LEMMA EndsStep ==
  ASSUME WorkersInv, NEW status \in {"FAILED", verdict}, Ends(status), BudgetOK'
  PROVE  WorkersInv'
<1>1. /\ Reset /\ result' = status
      /\ UNCHANGED <<manifest, store, ledger, world, snapshots, drives>>
  BY DEF Ends
<1>2. status \in {"none", "SUCCESS", "PARTIAL", "FAILED", "PAUSED"}
  BY DEF WorkersInv, TypeOK, OutcomeOK
<1>3. TypeOK'
  BY <1>1, <1>2, ResetTyped
  DEF WorkersInv, TypeOK, ManifestOK, StoreOK, LedgerOK, WorldOK, OutcomeOK, manifest, store,
    ledger, world
<1>4. /\ pc' = "idle" /\ verdict' = "none"
      /\ \A b \in Branches :
           place'[b] = "off" /\ directive'[b] = "none" /\ fate'[b] = "absent"
  BY <1>1 DEF Reset, All
<1>5. EffectInv'
  BY <1>1, <1>4 DEF WorkersInv, EffectInv, HasRun, store, world
<1>6. verdict = "SUCCESS" => \A b \in Branches : runs[b] > 0
  BY DEF WorkersInv, WholeInv, SuccessIsWhole, EffectInv, HasRun
<1>7. WholeInv'
  BY <1>1, <1>4, <1>6 DEF WorkersInv, WholeInv, UnknownFails, SuccessIsWhole, world
<1>8. QED  BY <1>3, <1>5, <1>7 DEF WorkersInv

LEMMA WorkersStepInv == WorkersInv /\ [OrchNext]_<<vars, orchVars>> => WorkersInv'
<1> SUFFICES ASSUME WorkersInv, [OrchNext]_<<vars, orchVars>> PROVE WorkersInv'
  OBVIOUS
<1>1. CASE [Next]_vars
  BY <1>1, TypeNext, EffectStep, WholeStep DEF WorkersInv
<1>2. CASE Beside
  BY <1>2, BesideStep
<1>3. CASE Redrive \/ RecordOrchestrator
  BY <1>3, PrepareStep
<1>4. CASE DecideEmpty
  BY <1>4, DecideEmptyStep
<1>5. CASE Rebuild
  BY <1>5, RebuildStep
<1>6. CASE Ends("FAILED") /\ BudgetOK'
  BY <1>6, EndsStep
<1>7. CASE OrchReturn
  <2>1. Ends(verdict) /\ BudgetOK'
    BY <1>7 DEF OrchReturn, Ends, WorkersInv, TypeOK, BudgetOK, budget
  <2>2. QED  BY <2>1, EndsStep
<1>8. CASE OrchNext
  BY <1>1, <1>2, <1>3, <1>4, <1>5, <1>6, <1>7, <1>8, Splits DEF WorkersInv
<1>9. QED  BY <1>1, <1>8

LEMMA Workers == OrchSpec => []WorkersInv
<1>1. OrchInit => WorkersInv
  <2> SUFFICES ASSUME Init PROVE WorkersInv
    BY DEF OrchInit
  <2>1. TypeOK
    BY TypeInit
  <2>2. EffectInv /\ WholeInv
    BY WholeInit
  <2>3. QED  BY <2>1, <2>2 DEF WorkersInv
<1>2. QED  BY <1>1, WorkersStepInv, PTL DEF OrchSpec

(* A success has the orchestrator's record, and the synthesis recorded and *)
(* in the ledger, behind it; neither is ever taken back.                   *)
SuccessInv ==
  /\ phase = "synthesised" => synthEntry
  /\ result = "SUCCESS" =>
       orchRecord = "set" /\ (synthesis => synthRecord = "set" /\ synthEntry)

(* What is behind a success stays: a record or an entry, once it is there. *)
Behind ==
  /\ UNCHANGED synthesis /\ (synthEntry => synthEntry')
  /\ orchRecord = "set" => orchRecord' = "set"
  /\ synthRecord = "set" => synthRecord' = "set"
  /\ phase' = "synthesised" => phase = "synthesised" \/ synthEntry'

LEMMA BehindStep == ASSUME AnswerInv, OrchNext PROVE Behind
<1>1. CASE OrchRefuse \/ OrchStart \/ Redrive \/ ResumeHeld
           \/ \E s \in snapshots : OrchResume(s)
  BY <1>1 DEF OrchRefuse, OrchStart, Redrive, ResumeHeld, OrchResume, OrchEnds, OrchReset,
    orchVars, orchManifest, orchStore, synthStore, orchLedger, orchDrive, Behind
<1>2. CASE Stamp \/ MarkOrchestrator \/ CallOrchestrator \/ OrchActs \/ OrchReturns
  BY <1>2 DEF Stamp, MarkOrchestrator, CallOrchestrator, OrchActs, OrchReturns, To,
    orchManifest, orchStore, synthStore, orchLedger, Behind
<1>3. CASE Refuses \/ OrchFails \/ OrchZombieActs
  BY <1>3 DEF Refuses, OrchFails, OrchZombieActs, OrchEnds, OrchReset, orchManifest, orchStore,
    synthStore, orchLedger, orchDrive, Behind
<1>4. CASE RecordOrchestrator \/ OrchStoreFails
  BY <1>4 DEF RecordOrchestrator, OrchStoreFails, OrchEnds, OrchReset, orchManifest,
    synthStore, orchLedger, Behind
<1>5. CASE WorkersStep \/ ThreadsStep
  BY <1>5 DEF WorkersStep, ThreadsStep, orchVars, orchManifest, orchStore, synthStore,
    orchLedger, orchDrive, Behind
<1>6. CASE OrchLaunch \/ OrchDecide \/ DrainOrchestrator \/ Rebuild
  BY <1>6 DEF OrchLaunch, OrchDecide, DrainOrchestrator, Rebuild, orchVars, orchManifest,
    orchStore, synthStore, orchLedger, orchDrive, Behind
<1>7. CASE Synthesise \/ Replay \/ RecordSynthesis \/ LogSynthesis
  BY <1>7 DEF Synthesise, Replay, RecordSynthesis, LogSynthesis, SynthesisStep, orchManifest,
    orchStore, synthStore, Behind
<1>8. CASE SynthesisFails
  <2>1. synthRecord = "set" => UNCHANGED synthRecord
    BY <1>8 DEF SynthesisFails, Unreadable, AnswerInv
  <2>2. QED
    BY <1>8, <2>1 DEF SynthesisFails, Ends, OrchReset, orchManifest, orchStore, orchLedger,
      Behind
<1>9. CASE OrchReturn \/ OrchRaises
  BY <1>9 DEF OrchReturn, OrchRaises, Ends, OrchReset, orchManifest, orchStore, synthStore,
    orchLedger, Behind
<1>10. CASE OrchCrash
  BY <1>10 DEF OrchCrash, OrchReset, AnswerInv, PlanInv, orchManifest, orchLedger, Behind
<1>11. QED
  BY <1>1, <1>2, <1>3, <1>4, <1>5, <1>6, <1>7, <1>8, <1>9, <1>10 DEF OrchNext

LEMMA SuccessStep ==
  ASSUME WorkersInv, PlanInv, AnswerInv, SuccessInv, OrchNext
  PROVE  SuccessInv'
<1>1. UNCHANGED synthesis /\ (synthEntry => synthEntry')
  BY BehindStep DEF Behind
<1>2. orchRecord = "set" => orchRecord' = "set"
  BY BehindStep DEF Behind
<1>3. synthRecord = "set" => synthRecord' = "set"
  BY BehindStep DEF Behind
<1>4. phase' = "synthesised" => phase = "synthesised" \/ synthEntry'
  BY BehindStep DEF Behind
<1>5. CASE OrchReturn
  <2>1. /\ result' = verdict /\ phase \in Working
        /\ UNCHANGED <<orchRecord, synthesis, synthRecord, synthEntry>>
        /\ phase = "synthesised" \/ ~(synthesis /\ verdict = "SUCCESS")
        /\ phase' = "idle"
    BY <1>5
    DEF OrchReturn, Ends, OrchReset, Drained, Synthesises, Working, orchManifest, orchStore,
      synthStore, orchLedger
  <2>2. orchRecord = "set"
    BY <2>1 DEF PlanInv
  <2>3. QED  BY <2>1, <2>2 DEF SuccessInv, AnswerInv
<1>6. CASE ~OrchReturn
  <2>1. result' = "SUCCESS" => result = "SUCCESS"
    BY <1>6, Splits
    DEF WorkersInv, Beside, Redrive, RecordOrchestrator, DecideEmpty, Rebuild, Ends
  <2>2. QED  BY <1>1, <1>2, <1>3, <1>4, <2>1 DEF SuccessInv
<1>7. QED  BY <1>5, <1>6

(* A run that was reported a success has its orchestrator and its workers  *)
(* behind it, and the synthesis its manifest asks for in the store and the *)
(* ledger (_execute_orchestrator_workers, _maybe_post_join_synthesis).     *)
THEOREM OrchestratedSuccessThm == OrchSpec => []OrchestratedSuccess
<1>1. OrchInit => SuccessInv  BY DEF OrchInit, Init, SuccessInv
<1>2. WorkersInv /\ PlanInv /\ AnswerInv /\ SuccessInv /\ [OrchNext]_<<vars, orchVars>>
        => SuccessInv'
  <2>1. CASE UNCHANGED <<vars, orchVars>>
    BY <2>1 DEF SuccessInv, vars, orchVars, orchManifest, orchStore, synthStore, orchLedger,
      orchDrive
  <2>2. QED  BY <2>1, SuccessStep
<1>3. WorkersInv /\ SuccessInv => OrchestratedSuccess
  BY DEF WorkersInv, WholeInv, SuccessIsWhole, SuccessInv, OrchestratedSuccess
<1>4. QED  BY <1>1, <1>2, <1>3, Workers, Plan, Answer, PTL DEF OrchSpec
=============================================================================
