--------------------------- MODULE Memory_proofs ---------------------------
(***************************************************************************)
(* Proofs about Memory, for every number of processes, records, steps and  *)
(* routes, and any number of jobs and crashes: type correctness, that      *)
(* nothing hidden is shown, that the ledger knows what is stored and what  *)
(* is called, and that a re-drive by the same route goes on.               *)
(***************************************************************************)
EXTENDS Memory, FiniteSetTheorems, TLAPS

-----------------------------------------------------------------------------
(* Inductive invariants.                                                   *)

(* What a process can be doing where it is.                                *)
Doing(p) ==
  /\ pc[p] \in {"index", "scan"} => job[p].kind \in {"boot", "dispatch"}
  /\ pc[p] \in {"read", "retrieve", "inject", "start", "run", "call", "turn", "line"} =>
       job[p].kind = "dispatch"
  /\ pc[p] \in {"show", "promote"} => job[p].kind = "promote"
  /\ pc[p] \in {"transition", "hide"} => job[p].kind = "transition"
  /\ pc[p] = "mark" => job[p].kind \in {"dispatch", "promote", "transition"}
  /\ pc[p] \in {"index", "scan", "read", "retrieve", "inject", "start", "run", "call"} =>
       job[p].answer = None
  /\ pc[p] \in {"turn", "line"} => job[p].answer \in Answers
  /\ ready[p] => pc[p] \in Logging

TypeInv == TypeOK /\ \A p \in Procs : Doing(p)

(* Whoever retrieves has been there when an active record became active,   *)
(* or found it so.                                                         *)
Selecting(p) ==
  /\ packet[p] \subseteq during[p] \ Proposed
  /\ pc[p] = "idle" => packet[p] = {}
  /\ pc[p] = "read" => left[p] \subseteq Records \ Proposed
  /\ Retrieving(p) => \A r \in Records : store[r] = "active" => r \in during[p]

PacketInv == \A p \in Procs : Selecting(p)

(* The operations in the ledger.                                           *)
Entry(what, of, with, by) == [what |-> what, of |-> of, with |-> with, by |-> by]
Logged == {ledger[i] : i \in DOMAIN ledger}

(* Whoever is about to write a record has its operation in the ledger.     *)
Writing(p) ==
  /\ pc[p] = "run" => Entry("start", job[p].of, None, job[p].arg) \in Logged
  /\ pc[p] = "line" =>
       \E x \in Routes : Entry("turn", job[p].of, job[p].answer, x) \in Logged
  /\ pc[p] = "hide" => Entry("transition", job[p].of, job[p].arg, None) \in Logged

Kept ==
  /\ \A r \in Records : store[r] \in Hidden =>
       \E x \in Hidden \X Nat : x[1] = store[r] /\ Entry("transition", r, x, None) \in Logged
  /\ \A s \in Steps : runs[s] # None => Entry("start", s, None, runs[s]) \in Logged
  /\ \A t \in turns : \E x \in Routes : Entry("turn", t[1], t[2], x) \in Logged

RecordInv == Kept /\ \A p \in Procs : Writing(p)

(* Between the injection and the call, and between the call and the end.   *)
Marking(p) == pc[p] = "mark" /\ job[p].kind = "dispatch"

Calling(p) ==
  /\ pc[p] \in {"start", "run", "call"} \/ (Marking(p) /\ job[p].answer = None) =>
       Entry("inject", job[p].of, <<job[p].arg, packet[p]>>, None) \in Logged
  /\ pc[p] = "call" \/ (Marking(p) /\ job[p].answer = None) => runs[job[p].of] # None
  /\ Marking(p) /\ job[p].answer # None => <<job[p].of, job[p].answer>> \in turns
  /\ \A s \in started[p] : runs[s] # None

CallInv == answered \subseteq turns /\ \A p \in Procs : Calling(p)

(* Who has made an entry, and who can be refused.                          *)
Tried(e) ==
  /\ e.what \in {"start", "turn"} => e.by \in Routes /\ <<e.of, e.by>> \in tried
  /\ e.what \in {"retrieve", "inject"} => e.by = None

RouteInv ==
  /\ \A e \in Logged : Tried(e)
  /\ \A p \in Procs : job[p].kind = "dispatch" => <<job[p].of, job[p].arg>> \in tried
  /\ SameRouteGoesOn

-----------------------------------------------------------------------------
(* Jobs and operations.                                                    *)

LEMMA JobIs ==
  ASSUME TypeOK, NEW p \in Procs
  PROVE  /\ job[p].kind \in {"none", "boot", "dispatch", "promote", "transition"}
         /\ job[p].kind = "dispatch" =>
              /\ job[p].of \in Steps /\ job[p].arg \in Routes
              /\ job[p].answer \in Answers \cup {None}
         /\ job[p].kind = "promote" => job[p].of \in Records /\ job[p].answer = None
         /\ job[p].kind = "transition" =>
              job[p].of \in Records /\ job[p].arg \in Hidden \X Nat /\ job[p].answer = None
         /\ job[p].kind = "boot" => job[p].answer = None
<1>1. job[p] \in Asked \cup {NoJob}  BY DEF TypeOK
<1>2. QED  BY <1>1 DEF Asked, NoJob

LEMMA OperationIs ==
  ASSUME NEW p \in Procs
  PROVE  /\ Operation(p).what = pc[p]
         /\ Operation(p).of = job[p].of
         /\ pc[p] \in {"retrieve", "inject"} =>
              Operation(p).with = <<job[p].arg, packet[p]>> /\ Operation(p).by = None
         /\ pc[p] = "start" => Operation(p).with = None /\ Operation(p).by = job[p].arg
         /\ pc[p] = "turn" =>
              Operation(p).with = job[p].answer /\ Operation(p).by = job[p].arg
         /\ pc[p] = "transition" => Operation(p).with = job[p].arg /\ Operation(p).by = None
         /\ pc[p] = "promote" => Operation(p).with = None /\ Operation(p).by = p
BY DEF Operation

LEMMA OperationType ==
  ASSUME TypeInv, NEW p \in Procs, pc[p] \in Logging
  PROVE  Operation(p) \in Operations
<1>1. /\ pc[p] \in {"retrieve", "inject", "start", "turn"} => job[p].kind = "dispatch"
      /\ pc[p] = "promote" => job[p].kind = "promote"
      /\ pc[p] = "transition" => job[p].kind = "transition"
      /\ pc[p] = "turn" => job[p].answer \in Answers
      /\ packet[p] \in SUBSET Records
  BY DEF TypeInv, Doing, TypeOK
<1>2. /\ job[p].kind = "dispatch" => job[p].of \in Steps /\ job[p].arg \in Routes
      /\ job[p].kind = "promote" => job[p].of \in Records
      /\ job[p].kind = "transition" => job[p].of \in Records /\ job[p].arg \in Hidden \X Nat
  BY JobIs DEF TypeInv
<1>r. CASE pc[p] \in {"retrieve", "inject"}
  <2>1. <<job[p].arg, packet[p]>> \in Routes \X SUBSET Records  BY <1>r, <1>1, <1>2
  <2>2. QED  BY <1>r, <1>1, <1>2, <2>1 DEF Operation, Operations, Logging
<1>s. CASE pc[p] = "start"
  BY <1>s, <1>1, <1>2 DEF Operation, Operations, Logging
<1>t. CASE pc[p] = "turn"
  BY <1>t, <1>1, <1>2 DEF Operation, Operations, Logging
<1>x. CASE pc[p] = "transition"
  BY <1>x, <1>1, <1>2 DEF Operation, Operations, Logging
<1>m. CASE pc[p] = "promote"
  BY <1>m, <1>1, <1>2 DEF Operation, Operations, Logging
<1>q. QED  BY <1>r, <1>s, <1>t, <1>x, <1>m DEF Logging

(* Where a recorded operation leads.                                       *)
LEMMA RecordedIs ==
  ASSUME NEW p \in Procs, pc[p] \in Logging
  PROVE  /\ pc[p] = "retrieve" => Recorded(p) = "inject"
         /\ pc[p] = "inject" =>
              \/ Recorded(p) = "call" /\ job[p].of \in started[p]
              \/ Recorded(p) = "start"
         /\ pc[p] = "start" => Recorded(p) = "run"
         /\ pc[p] = "turn" => Recorded(p) = "line"
         /\ pc[p] = "transition" => Recorded(p) = "hide"
         /\ pc[p] = "promote" => Recorded(p) = "done"
BY DEF Recorded

(* Where a snapshot leads.                                                 *)
LEMMA UseIs ==
  ASSUME TypeOK, NEW p \in Procs, NEW snapshot, Use(p, snapshot)
  PROVE  /\ left' \in [Procs -> SUBSET Records] /\ pc' \in [Procs -> Places]
         /\ \A q \in Procs \ {p} : left'[q] = left[q] /\ pc'[q] = pc[q]
         /\ left'[p] \subseteq Eligible(snapshot)
         /\ pc'[p] = "done" \/ (pc'[p] \in {"retrieve", "read"} /\ job[p].kind # "boot")
<1> DEFINE todo == IF job[p].kind = "boot" THEN {} ELSE Eligible(snapshot)
<1>1. todo \in SUBSET Records /\ todo \subseteq Eligible(snapshot)  BY DEF Eligible
<1>2. left' = [left EXCEPT ![p] = todo]  BY DEF Use
<1>3. CASE job[p].kind = "boot"
  BY <1>1, <1>2, <1>3 DEF Use, TypeOK, Places, Logging
<1>4. CASE job[p].kind # "boot" /\ todo = {}
  BY <1>1, <1>2, <1>4 DEF Use, TypeOK, Places, Logging
<1>5. CASE job[p].kind # "boot" /\ todo # {}
  BY <1>1, <1>2, <1>5 DEF Use, TypeOK, Places, Logging
<1>6. QED  BY <1>3, <1>4, <1>5

(* The ledger grows by the operation.                                      *)
LEMMA LogIs ==
  ASSUME TypeInv, NEW p \in Procs, Log(p)
  PROVE  /\ pc[p] \in Logging
         /\ ledger' \in Seq(Operations)
         /\ DOMAIN ledger' = DOMAIN ledger \cup {Len(ledger) + 1}
         /\ \A i \in DOMAIN ledger : ledger'[i] = ledger[i]
         /\ ledger'[Len(ledger) + 1] = Operation(p)
<1>1. pc[p] \in Logging /\ ledger \in Seq(Operations)
  BY DEF Log, TypeInv, TypeOK, Doing
<1>2. Operation(p) \in Operations  BY <1>1, OperationType
<1>3. ledger' = Append(ledger, Operation(p))  BY DEF Log
<1>4. QED  BY <1>1, <1>2, <1>3

(* Where a mark leads.                                                     *)
LEMMA MarkIs ==
  ASSUME TypeOK, NEW p \in Procs, Mark(p)
  PROVE  /\ \A q \in Procs \ {p} : pc'[q] = pc[q]
         /\ pc' \in [Procs -> Places] /\ pc'[p] \in {"promote", "call", "done"}
         /\ pc'[p] = "call" <=> job[p].kind = "dispatch" /\ job[p].answer = None
         /\ pc'[p] = "promote" <=> job[p].kind = "promote"
<1>1. CASE job[p].kind = "promote"
  BY <1>1 DEF Mark, TypeOK, Places, Logging
<1>2. CASE job[p].kind = "dispatch" /\ job[p].answer = None
  BY <1>2 DEF Mark, TypeOK, Places, Logging
<1>3. CASE job[p].kind # "promote" /\ ~(job[p].kind = "dispatch" /\ job[p].answer = None)
  BY <1>3 DEF Mark, TypeOK, Places, Logging
<1>4. QED  BY <1>1, <1>2, <1>3

(* A finite set as a sequence.                                        *)
LEMMA SequenceOf ==
  ASSUME NEW S, IsFiniteSet(S)
  PROVE  SetToSeq(S) \in Seq(S)
<1>1. Cardinality(S) \in Nat /\ ExistsBijection(1..Cardinality(S), S)
  BY FS_CardinalityType
<1>2. PICK f : f \in Bijection(1..Cardinality(S), S)  BY <1>1 DEF ExistsBijection
<1>3. f \in [1..Cardinality(S) -> S] /\ IsInjective(f)
  BY <1>2 DEF Bijection, Injection
<1>4. SetToSeq(S) \in [1..Cardinality(S) -> S]  BY <1>3 DEF SetToSeq
<1>5. QED  BY <1>1, <1>4

-----------------------------------------------------------------------------
(* Type correctness.                                                       *)

LEMMA InitLedger ==
  ASSUME Init
  PROVE  /\ ledger \in Seq(Operations)
         /\ \A i \in DOMAIN ledger : ledger[i].what = "promote"
<1> DEFINE Op(r) == [what |-> "promote", of |-> r, with |-> None, by |-> None]
           Ops == {Op(r) : r \in Promoted}
           f == [r \in Promoted |-> Op(r)]
<1>1. IsFiniteSet(Promoted)  BY MemoryAssumption, FS_Subset
<1>a. f \in Surjection(Promoted, Ops)  BY DEF Surjection
<1>2. IsFiniteSet(Ops)  BY <1>1, <1>a, FS_Surjection
<1>3. SetToSeq(Ops) \in Seq(Ops)  BY <1>2, SequenceOf
<1>4. Ops \subseteq Operations  BY MemoryAssumption DEF Operations, Logging
<1>5. ledger = SetToSeq(Ops)  BY DEF Init
<1>6. \A o \in Ops : o.what = "promote"  OBVIOUS
<1> HIDE DEF Ops
<1>7. ledger \in Seq(Ops)  BY <1>3, <1>5
<1>8. \A i \in DOMAIN ledger : ledger[i] \in Ops  BY <1>7
<1>9. ledger \in Seq(Operations)  BY <1>4, <1>7, <1>8
<1>10. QED  BY <1>6, <1>8, <1>9

LEMMA InitType ==
  ASSUME Init
  PROVE  TypeInv
<1>1. ledger \in Seq(Operations)  BY InitLedger
<1>2. NoJob \in Asked \cup {NoJob}  OBVIOUS
<1>3. Nothing \in [Records -> States]  BY DEF Nothing, States
<1>4. store \in [Records -> States]  BY DEF Init, States
<1>5. TypeOK
  BY <1>1, <1>2, <1>3, <1>4 DEF Init, TypeOK, Places
<1>6. \A p \in Procs : Doing(p)
  BY DEF Init, Doing
<1>7. QED  BY <1>5, <1>6 DEF TypeInv

LEMMA BeginType ==
  ASSUME TypeInv, NEW p \in Procs, NEW kind, NEW of, NEW arg,
         NEW at \in {"index", "inject", "show", "transition"},
         Begin(p, kind, of, arg, at),
         [kind |-> kind, of |-> of, arg |-> arg, answer |-> None] \in Asked,
         at = "index" => kind \in {"boot", "dispatch"},
         at = "inject" => kind = "dispatch",
         at = "show" => kind = "promote",
         at = "transition" => kind = "transition",
         during' \in [Procs -> SUBSET Records], tried' \subseteq Steps \X Routes,
         dispatches' \in Nat
  PROVE  TypeInv'
<1>1. pc' \in [Procs -> Places]  BY DEF TypeInv, TypeOK, Begin, Places, Logging
<1>2. job' \in [Procs -> Asked \cup {NoJob}]  BY DEF TypeInv, TypeOK, Begin
<1>3. TypeOK'
  BY <1>1, <1>2 DEF TypeInv, TypeOK, Begin, files, local
<1>4. ASSUME NEW q \in Procs PROVE Doing(q)'
  <2>1. CASE q = p
    <3>1. ~ready[p]  BY DEF TypeInv, Doing, Begin, Logging
    <3>2. QED  BY <2>1, <3>1 DEF TypeInv, TypeOK, Begin, Doing
  <2>2. CASE q # p
    BY <2>2 DEF TypeInv, TypeOK, Begin, Doing
  <2>3. QED  BY <2>1, <2>2
<1>5. QED  BY <1>3, <1>4 DEF TypeInv

LEMMA TypeStep ==
  ASSUME TypeInv, [Next]_vars
  PROVE  TypeInv'
<1>1. TypeOK /\ \A p \in Procs : Doing(p)  BY DEF TypeInv
<1>s. CASE UNCHANGED vars
  BY <1>s, <1>1 DEF vars, files, local, history, counts, TypeInv, TypeOK, Doing
<1> SUFFICES ASSUME NEW p \in Procs,
                    \/ Boot(p) \/ Dispatch(p) \/ Promote(p) \/ Transition(p) \/ Crash(p)
                    \/ ReadIndex(p) \/ Scan(p) \/ Rebuilt(p) \/ Read(p)
                    \/ Look(p) \/ Log(p) \/ Write(p) \/ Mark(p) \/ Call(p) \/ Return(p)
             PROVE  TypeInv'
  BY <1>s DEF Next
<1>2. Doing(p)  BY <1>1
<1>b. CASE Boot(p)
  <2>1. Begin(p, "boot", None, None, "index") /\ UNCHANGED <<during, tried, dispatches>>
    BY <1>b DEF Boot, Edit
  <2>2. [kind |-> "boot", of |-> None, arg |-> None, answer |-> None] \in Asked
    BY DEF Asked
  <2>3. QED  BY <2>1, <2>2, <1>1, BeginType DEF TypeOK
<1>d. CASE Dispatch(p)
  <2>1. PICK s \in Steps, t \in Routes, at \in {"index", "inject"} :
          /\ Begin(p, "dispatch", s, t, at)
          /\ during' = [during EXCEPT ![p] = {r \in Records : store[r] = "active"}]
          /\ tried' = tried \cup {<<s, t>>}
          /\ dispatches' = dispatches + 1
    BY <1>d DEF Dispatch
  <2>2. [kind |-> "dispatch", of |-> s, arg |-> t, answer |-> None] \in Asked
    BY DEF Asked
  <2>3. /\ during' \in [Procs -> SUBSET Records] /\ tried' \subseteq Steps \X Routes
        /\ dispatches' \in Nat
    BY <2>1, <1>1 DEF TypeOK
  <2>4. QED  BY <2>1, <2>2, <2>3, BeginType
<1>p. CASE Promote(p)
  <2>1. PICK r \in Records :
          Begin(p, "promote", r, None, "show") /\ UNCHANGED <<during, tried, dispatches>>
    BY <1>p DEF Promote, Edit
  <2>2. [kind |-> "promote", of |-> r, arg |-> None, answer |-> None] \in Asked
    BY DEF Asked
  <2>3. QED  BY <2>1, <2>2, <1>1, BeginType DEF TypeOK
<1>t. CASE Transition(p)
  <2>1. PICK r \in Records, x \in Hidden :
          /\ Begin(p, "transition", r, <<x, jobs>>, "transition")
          /\ UNCHANGED <<during, tried, dispatches>>
    BY <1>t DEF Transition, Edit
  <2>2. <<x, jobs>> \in Hidden \X Nat  BY <1>1 DEF TypeOK
  <2>3. [kind |-> "transition", of |-> r, arg |-> <<x, jobs>>, answer |-> None] \in Asked
    BY <2>2 DEF Asked
  <2>4. QED  BY <2>1, <2>3, <1>1, BeginType DEF TypeOK
<1>c. CASE Crash(p)
  <2>1. TypeOK'
    BY <1>c, <1>1 DEF Crash, Forget, TypeOK, files, Nothing, States, Places
  <2>2. ASSUME NEW q \in Procs PROVE Doing(q)'
    BY <1>c, <1>1 DEF Crash, Forget, TypeOK, Doing
  <2>3. QED  BY <2>1, <2>2 DEF TypeInv
<1>r. CASE Return(p)
  <2>1. TypeOK'
    BY <1>r, <1>1 DEF Return, Forget, TypeOK, files, counts, Places
  <2>2. ASSUME NEW q \in Procs PROVE Doing(q)'
    BY <1>r, <1>1, <1>2 DEF Return, Forget, TypeOK, Doing, Logging
  <2>3. QED  BY <2>1, <2>2 DEF TypeInv
<1>i. CASE ReadIndex(p)
  <2>1. TypeOK'
    <3>1. CASE stale
      BY <3>1, <1>i, <1>1 DEF ReadIndex, TypeOK, files, history, counts, Places
    <3>2. CASE ~stale
      <4>1. Use(p, index)  BY <3>2, <1>i DEF ReadIndex
      <4>2. QED  BY <4>1, <1>i, <1>1, UseIs DEF ReadIndex, TypeOK, files, history, counts
    <3>3. QED  BY <3>1, <3>2
  <2>2. ASSUME NEW q \in Procs PROVE Doing(q)'
    <3>1. CASE stale
      BY <3>1, <1>i, <1>1, <1>2
      DEF ReadIndex, TypeOK, Doing, files, history, counts, Logging
    <3>2. CASE ~stale
      <4>1. Use(p, index)  BY <3>2, <1>i DEF ReadIndex
      <4>2. QED
        BY <4>1, <1>i, <1>1, <1>2, UseIs DEF ReadIndex, Doing, files, history, counts, Logging
    <3>3. QED  BY <3>1, <3>2
  <2>3. QED  BY <2>1, <2>2 DEF TypeInv
<1>n. CASE Scan(p)
  <2>1. TypeOK'  BY <1>n, <1>1 DEF Scan, TypeOK, files, history, counts
  <2>2. \A q \in Procs : Doing(q)'  BY <1>n, <1>1 DEF Scan, Doing, files, history, counts
  <2>3. QED  BY <2>1, <2>2 DEF TypeInv
<1>u. CASE Rebuilt(p)
  <2>0. Use(p, seen[p])  BY <1>u DEF Rebuilt
  <2>1. TypeOK'
    BY <2>0, <1>u, <1>1, UseIs DEF Rebuilt, TypeOK, history, counts, Nothing, States
  <2>2. ASSUME NEW q \in Procs PROVE Doing(q)'
    BY <2>0, <1>u, <1>1, <1>2, UseIs DEF Rebuilt, Doing, history, counts, Logging
  <2>3. QED  BY <2>1, <2>2 DEF TypeInv
<1>e. CASE Read(p)
  <2>0. /\ packet' \in [Procs -> SUBSET Records] /\ left' \in [Procs -> SUBSET Records]
        /\ pc' \in [Procs -> Places]
    <3>1. PICK r \in left[p] :
            /\ packet' = [packet EXCEPT ![p] = @ \cup {r}] \/ packet' = packet
            /\ left' = [left EXCEPT ![p] = @ \ {r}]
            /\ pc' = [pc EXCEPT ![p] = IF left'[p] = {} THEN "retrieve" ELSE "read"]
      BY <1>e DEF Read
    <3>2. r \in Records  BY <1>1 DEF TypeOK
    <3>3. packet' \in [Procs -> SUBSET Records]
      <4>1. packet[p] \cup {r} \in SUBSET Records  BY <3>2, <1>1 DEF TypeOK
      <4>2. QED  BY <4>1, <3>1, <1>1 DEF TypeOK
    <3>4. left' \in [Procs -> SUBSET Records]  BY <3>1, <1>1 DEF TypeOK
    <3>5. pc' \in [Procs -> Places]
      <4>1. CASE left'[p] = {}  BY <4>1, <3>1, <1>1 DEF TypeOK, Places, Logging
      <4>2. CASE left'[p] # {}  BY <4>2, <3>1, <1>1 DEF TypeOK, Places, Logging
      <4>3. QED  BY <4>1, <4>2
    <3>6. QED  BY <3>3, <3>4, <3>5
  <2>1. TypeOK'
    BY <2>0, <1>e, <1>1 DEF Read, TypeOK, files, history, counts
  <2>2. ASSUME NEW q \in Procs PROVE Doing(q)'
    BY <1>e, <1>1, <1>2 DEF Read, TypeOK, Doing, files, history, counts, Logging
  <2>3. QED  BY <2>1, <2>2 DEF TypeInv
<1>k. CASE Look(p)
  <2>0. /\ pc[p] \in Logging /\ ~ready[p]
        /\ \/ ready' = [ready EXCEPT ![p] = TRUE] /\ UNCHANGED pc
           \/ /\ UNCHANGED ready
              /\ \/ pc' = [pc EXCEPT ![p] = Recorded(p)]
                 \/ pc' = [pc EXCEPT ![p] = "refused"]
        /\ UNCHANGED <<files, job, local, started, history, counts>>
    BY <1>k DEF Look, RecordedBefore, Conflict
  <2>1. TypeOK'
    <3>1. Recorded(p) \in Places  BY <2>0, RecordedIs DEF Places, Logging
    <3>2. pc' \in [Procs -> Places] /\ ready' \in [Procs -> BOOLEAN]
      BY <3>1, <2>0, <1>1 DEF TypeOK, Places
    <3>3. QED  BY <3>2, <2>0, <1>1 DEF TypeOK, files, local, history, counts
  <2>2. ASSUME NEW q \in Procs PROVE Doing(q)'
    <3>1. UNCHANGED job /\ Doing(q) /\ (q # p => pc'[q] = pc[q] /\ ready'[q] = ready[q])
      BY <2>0, <1>1, <1>2 DEF TypeOK
    <3>2. CASE q # p
      BY <2>0, <3>1, <3>2 DEF Doing, Logging
    <3>3. CASE q = p /\ UNCHANGED pc
      BY <2>0, <3>1, <3>3, <1>1 DEF TypeOK, Doing, Logging
    <3>4. CASE q = p /\ UNCHANGED ready /\ pc'[p] = "refused"
      BY <2>0, <3>1, <3>4, <1>1 DEF TypeOK, Doing
    <3>5. CASE q = p /\ UNCHANGED ready /\ pc'[p] = Recorded(p)
      BY <2>0, <3>1, <3>5, <1>1, RecordedIs DEF TypeOK, Doing, Logging
    <3>6. QED  BY <2>0, <3>2, <3>3, <3>4, <3>5, <1>1 DEF TypeOK
  <2>3. QED  BY <2>1, <2>2 DEF TypeInv
<1>l. CASE Log(p)
  <2>0. pc[p] \in Logging /\ ledger' \in Seq(Operations)  BY <1>l, LogIs
  <2>1. TypeOK'
    <3>1. Recorded(p) \in Places  BY <2>0, RecordedIs DEF Places, Logging
    <3>2. pc' \in [Procs -> Places] /\ ready' \in [Procs -> BOOLEAN]
      BY <3>1, <1>l, <1>1 DEF Log, TypeOK
    <3>3. QED  BY <3>2, <2>0, <1>l, <1>1 DEF Log, TypeOK, local, history, counts
  <2>2. ASSUME NEW q \in Procs PROVE Doing(q)'
    <3>1. /\ UNCHANGED job /\ Doing(q) /\ (q # p => pc'[q] = pc[q] /\ ready'[q] = ready[q])
          /\ pc'[p] = Recorded(p) /\ ~ready'[p]
      BY <1>l, <1>1, <1>2 DEF Log, TypeOK
    <3>2. CASE q # p  BY <2>0, <3>1, <3>2 DEF Doing, Logging
    <3>3. CASE q = p  BY <2>0, <3>1, <3>3, RecordedIs DEF Doing, Logging
    <3>4. QED  BY <3>2, <3>3
  <2>3. QED  BY <2>1, <2>2 DEF TypeInv
<1>w. CASE Write(p)
  <2>0. /\ pc[p] = "run" => job[p].of \in Steps /\ job[p].arg \in Routes
        /\ pc[p] = "line" => job[p].of \in Steps /\ job[p].answer \in Answers
        /\ pc[p] = "show" => job[p].of \in Records
        /\ pc[p] = "hide" => job[p].of \in Records /\ job[p].arg[1] \in Hidden
    BY <1>1, <1>2, JobIs DEF Doing
  <2>1. runs' \in [Steps -> Routes \cup {None}] /\ turns' \subseteq Steps \X Answers
    BY <2>0, <1>w, <1>1 DEF Write, TypeOK
  <2>2. store' \in [Records -> States]
    <3>1. CASE pc[p] = "show"  BY <3>1, <2>0, <1>w, <1>1 DEF Write, TypeOK, States
    <3>2. CASE pc[p] = "hide"  BY <3>2, <2>0, <1>w, <1>1 DEF Write, TypeOK, States
    <3>3. CASE pc[p] \notin {"show", "hide"}  BY <3>3, <1>w, <1>1 DEF Write, TypeOK
    <3>4. QED  BY <3>1, <3>2, <3>3
  <2>3. during' \in [Procs -> SUBSET Records]
    BY <2>0, <1>w, <1>1 DEF Write, TypeOK
  <2>4. pc' \in [Procs -> Places]  BY <1>w, <1>1 DEF Write, TypeOK, Places
  <2>5. TypeOK'
    BY <2>1, <2>2, <2>3, <2>4, <1>w, <1>1 DEF Write, TypeOK, local, counts
  <2>6. ASSUME NEW q \in Procs PROVE Doing(q)'
    BY <1>w, <1>1, <1>2 DEF Write, TypeOK, Doing, Logging
  <2>7. QED  BY <2>5, <2>6 DEF TypeInv
<1>m. CASE Mark(p)
  <2>0. /\ job[p].kind \in {"dispatch", "promote", "transition"}
        /\ job[p].kind = "dispatch" =>
             job[p].of \in Steps /\ job[p].answer \in Answers \cup {None}
        /\ job[p].kind # "dispatch" => job[p].answer = None
    BY <1>m, <1>1, <1>2, JobIs DEF Mark, Doing
  <2>1. /\ pc' \in [Procs -> Places] /\ pc'[p] \in {"promote", "call", "done"}
        /\ pc'[p] = "call" <=> job[p].kind = "dispatch" /\ job[p].answer = None
        /\ pc'[p] = "promote" <=> job[p].kind = "promote"
        /\ \A q \in Procs \ {p} : pc'[q] = pc[q]
    BY <1>m, <1>1, MarkIs
  <2>2. started' \in [Procs -> SUBSET Steps] /\ answered' \subseteq Steps \X Answers
    BY <2>0, <2>1, <1>m, <1>1 DEF Mark, TypeOK
  <2>3. TypeOK'
    BY <2>1, <2>2, <1>m, <1>1 DEF Mark, TypeOK, local, counts
  <2>4. ASSUME NEW q \in Procs PROVE Doing(q)'
    BY <2>1, <1>m, <1>1, <1>2 DEF Mark, TypeOK, Doing, Logging
  <2>5. QED  BY <2>3, <2>4 DEF TypeInv
<1>a. CASE Call(p)
  <2>1. job[p].kind = "dispatch" /\ job[p].of \in Steps /\ job[p].arg \in Routes
    BY <1>a, <1>1, <1>2, JobIs DEF Call, Doing
  <2>2. CASE pc' = [pc EXCEPT ![p] = "done"] /\ UNCHANGED job
    BY <2>2, <1>a, <1>1, <1>2
    DEF Call, TypeInv, TypeOK, Doing, files, local, history, counts, Places, Logging
  <2>3. CASE \E a \in Answers :
               /\ pc' = [pc EXCEPT ![p] = "turn"]
               /\ job' = [job EXCEPT ![p].answer = a]
    <3>1. PICK a \in Answers : /\ pc' = [pc EXCEPT ![p] = "turn"]
                               /\ job' = [job EXCEPT ![p].answer = a]
      BY <2>3
    <3>2. [job[p] EXCEPT !.answer = a] \in Asked
      <4>1. job[p] \in Asked \cup {NoJob}  BY <1>1 DEF TypeOK
      <4>2. job[p] \in [kind : {"dispatch"}, of : Steps, arg : Routes,
                        answer : Answers \cup {None}]
        BY <4>1, <2>1 DEF Asked, NoJob
      <4>3. QED  BY <4>2 DEF Asked
    <3>3. TypeOK'
      BY <3>1, <3>2, <1>a, <1>1 DEF Call, TypeOK, files, local, history, counts, Places,
        Logging
    <3>4. job'[p].kind = "dispatch" /\ job'[p].answer = a
      BY <3>1, <2>1, <1>1 DEF TypeOK
    <3>5. ASSUME NEW q \in Procs PROVE Doing(q)'
      BY <3>1, <3>4, <1>a, <1>1, <1>2
      DEF Call, TypeOK, Doing, files, local, history, counts, Logging
    <3>6. QED  BY <3>3, <3>5 DEF TypeInv
  <2>4. QED  BY <2>2, <2>3, <1>a DEF Call
<1>q. QED
  BY <1>b, <1>d, <1>p, <1>t, <1>c, <1>r, <1>i, <1>n, <1>u, <1>e, <1>k, <1>l, <1>w, <1>m, <1>a

(* Every variable stays in its type, wherever a process is the job fits    *)
(* the place (the fields of _MemoryOperationPayload and of the store).     *)
THEOREM TypeCorrect == Spec => []TypeOK
<1>1. Spec => []TypeInv
  BY InitType, TypeStep, PTL DEF Spec
<1>2. TypeInv => TypeOK  BY DEF TypeInv
<1>3. QED  BY <1>1, <1>2, PTL
-----------------------------------------------------------------------------
(* Nothing hidden is shown.                                                *)

LEMMA PacketStep ==
  ASSUME TypeInv, PacketInv, [Next]_vars
  PROVE  PacketInv'
<1>1. TypeOK /\ \A p \in Procs : Doing(p)  BY DEF TypeInv
<1>2. \A p \in Procs : Selecting(p)  BY DEF PacketInv
<1>s. CASE UNCHANGED vars
  BY <1>s, <1>2 DEF vars, files, local, history, PacketInv, Selecting, Retrieving
<1> SUFFICES ASSUME NEW p \in Procs,
                    \/ Boot(p) \/ Dispatch(p) \/ Promote(p) \/ Transition(p) \/ Crash(p)
                    \/ ReadIndex(p) \/ Scan(p) \/ Rebuilt(p) \/ Read(p)
                    \/ Look(p) \/ Log(p) \/ Write(p) \/ Mark(p) \/ Call(p) \/ Return(p),
                    NEW q \in Procs
             PROVE  Selecting(q)'
  BY <1>s DEF Next, PacketInv
<1>3. Selecting(q) /\ Doing(p) /\ Doing(q)  BY <1>1, <1>2
<1>b. CASE Boot(p) \/ Promote(p) \/ Transition(p)
  <2>1. /\ pc[p] = "idle" /\ UNCHANGED <<store, left, packet, during>>
        /\ \A x \in Procs \ {p} : pc'[x] = pc[x] /\ job'[x] = job[x]
        /\ pc'[p] \in {"index", "show", "transition"} /\ job'[p].kind # "dispatch"
    <3>1. CASE Boot(p)
      BY <3>1, <1>1 DEF Boot, Edit, Begin, TypeOK, files, local
    <3>2. CASE Promote(p)
      BY <3>2, <1>1 DEF Promote, Edit, Begin, TypeOK, files, local
    <3>3. CASE Transition(p)
      BY <3>3, <1>1 DEF Transition, Edit, Begin, TypeOK, files, local
    <3>4. QED  BY <1>b, <3>1, <3>2, <3>3
  <2>2. QED  BY <2>1, <1>3 DEF Selecting, Retrieving
<1>d. CASE Dispatch(p)
  <2>1. PICK s \in Steps, t \in Routes, at \in {"index", "inject"} :
          /\ Begin(p, "dispatch", s, t, at)
          /\ during' = [during EXCEPT ![p] = {r \in Records : store[r] = "active"}]
    BY <1>d DEF Dispatch
  <2>2. QED
    BY <2>1, <1>1, <1>3 DEF Begin, TypeOK, Selecting, Retrieving, files, local
<1>c. CASE Crash(p)
  BY <1>c, <1>1, <1>3 DEF Crash, Forget, TypeOK, Selecting, Retrieving, files
<1>r. CASE Return(p)
  BY <1>r, <1>1, <1>3 DEF Return, Forget, TypeOK, Selecting, Retrieving, files
<1>i. CASE ReadIndex(p)
  <2>1. CASE stale
    BY <2>1, <1>i, <1>1, <1>3
    DEF ReadIndex, TypeOK, Selecting, Retrieving, files, history
  <2>2. CASE ~stale
    <3>1. Use(p, index)  BY <2>2, <1>i DEF ReadIndex
    <3>2. QED
      BY <3>1, <1>i, <1>1, <1>3, UseIs
      DEF ReadIndex, Eligible, Selecting, Retrieving, files, history
  <2>3. QED  BY <2>1, <2>2
<1>n. CASE Scan(p)
  BY <1>n, <1>1, <1>3 DEF Scan, TypeOK, Selecting, Retrieving, files, history
<1>u. CASE Rebuilt(p)
  <2>1. Use(p, seen[p])  BY <1>u DEF Rebuilt
  <2>2. QED
    BY <2>1, <1>u, <1>1, <1>3, UseIs
    DEF Rebuilt, Eligible, Selecting, Retrieving, history
<1>e. CASE Read(p)
  <2>1. CASE q # p
    BY <2>1, <1>e, <1>1, <1>3 DEF Read, TypeOK, Selecting, Retrieving, files, history
  <2>2. CASE q = p
    <3>1. PICK r \in left[p] :
            /\ (Readable(r) /\ packet' = [packet EXCEPT ![p] = @ \cup {r}])
                  \/ packet' = packet
            /\ left' = [left EXCEPT ![p] = @ \ {r}]
            /\ pc' = [pc EXCEPT ![p] = IF left'[p] = {} THEN "retrieve" ELSE "read"]
      BY <1>e DEF Read
    <3>2. r \in Records \ Proposed /\ left[p] \subseteq Records \ Proposed
      BY <3>1, <2>2, <1>e, <1>3 DEF Read, Selecting
    <3>3. job[p].kind = "dispatch"  BY <1>e, <1>3 DEF Read, Doing
    <3>4. Readable(r) => r \in during[p]
      BY <3>2, <3>3, <2>2, <1>e, <1>3 DEF Read, Selecting, Retrieving, Readable
    <3>5. packet'[p] \subseteq during[p] \ Proposed
      BY <3>1, <3>2, <3>4, <2>2, <1>1, <1>3 DEF TypeOK, Selecting
    <3>6. UNCHANGED <<store, during, job>> /\ pc[p] = "read"
      BY <1>e DEF Read, files, history
    <3>7. left'[p] \subseteq Records \ Proposed  BY <3>1, <3>2, <1>1 DEF TypeOK
    <3>8. pc'[p] \in {"retrieve", "read"}  BY <3>1, <1>1 DEF TypeOK
    <3>9. QED
      BY <3>3, <3>5, <3>6, <3>7, <3>8, <2>2, <1>3 DEF Selecting, Retrieving
  <2>3. QED  BY <2>1, <2>2
<1>k. CASE Look(p)
  <2>1. /\ pc[p] \in Logging /\ UNCHANGED <<store, left, packet, during, job>>
        /\ \/ UNCHANGED pc
           \/ pc' = [pc EXCEPT ![p] = Recorded(p)]
           \/ pc' = [pc EXCEPT ![p] = "refused"]
    BY <1>k DEF Look, RecordedBefore, Conflict, files, local, history
  <2>2. QED  BY <2>1, <1>1, <1>3, RecordedIs DEF TypeOK, Selecting, Retrieving, Logging
<1>l. CASE Log(p)
  <2>1. /\ pc[p] \in Logging /\ UNCHANGED <<store, left, packet, during, job>>
        /\ pc' = [pc EXCEPT ![p] = Recorded(p)]
    BY <1>l, LogIs DEF Log, local, history
  <2>2. QED  BY <2>1, <1>1, <1>3, RecordedIs DEF TypeOK, Selecting, Retrieving, Logging
<1>w. CASE Write(p)
  <2>1. /\ UNCHANGED <<left, packet, job>>
        /\ pc' = [pc EXCEPT ![p] = "mark"]
        /\ pc[p] \in {"run", "line", "show", "hide"}
    BY <1>w DEF Write, local
  <2>2. during'[q] = IF pc[p] = "show" /\ Retrieving(q)
                     THEN during[q] \cup {job[p].of} ELSE during[q]
    BY <1>w DEF Write
  <2>3. ASSUME NEW r \in Records, store'[r] = "active", store[r] # "active"
        PROVE  pc[p] = "show" /\ r = job[p].of
    <3>1. CASE pc[p] = "show"  BY <3>1, <2>3, <1>w, <1>1 DEF Write, TypeOK
    <3>2. CASE pc[p] = "hide"
      <4>1. job[p].arg[1] \in Hidden  BY <3>2, <1>1, <1>3, JobIs DEF Doing
      <4>2. QED  BY <4>1, <3>2, <2>3, <1>w, <1>1 DEF Write, TypeOK, Hidden
    <3>3. CASE pc[p] \notin {"show", "hide"}  BY <3>3, <2>3, <1>w DEF Write
    <3>4. QED  BY <3>1, <3>2, <3>3
  <2>4. QED
    BY <2>1, <2>2, <2>3, <1>1, <1>3 DEF TypeOK, Selecting, Retrieving
<1>m. CASE Mark(p)
  <2>1. UNCHANGED <<store, left, packet, during, job>> /\ pc[p] = "mark"
    BY <1>m DEF Mark, local
  <2>2. /\ \A x \in Procs \ {p} : pc'[x] = pc[x]
        /\ pc'[p] \in {"promote", "call", "done"}
    BY <1>m, <1>1, MarkIs
  <2>3. QED  BY <2>1, <2>2, <1>3 DEF Selecting, Retrieving
<1>a. CASE Call(p)
  <2>1. UNCHANGED <<store, left, packet, during>> /\ pc[p] = "call"
    BY <1>a DEF Call, files, local, history
  <2>2. /\ \A x \in Procs \ {p} : pc'[x] = pc[x] /\ job'[x] = job[x]
        /\ pc'[p] \in {"turn", "done"}
    BY <1>a, <1>1 DEF Call, TypeOK
  <2>3. QED  BY <2>1, <2>2, <1>3 DEF Selecting, Retrieving
<1>q. QED
  BY <1>b, <1>d, <1>c, <1>r, <1>i, <1>n, <1>u, <1>e, <1>k, <1>l, <1>w, <1>m, <1>a

(* However stale the index is, a packet holds only records that were       *)
(* active, and not only proposed, at some moment of its retrieval          *)
(* (read_record, _static_exclusion_reason).                                *)
THEOREM PacketThm == Spec => []PacketWasActive
<1>1. Init => PacketInv
  BY DEF Init, PacketInv, Selecting, Retrieving
<1>2. Spec => []TypeInv
  BY InitType, TypeStep, PTL DEF Spec
<1>3. PacketInv => PacketWasActive  BY DEF PacketInv, Selecting, PacketWasActive
<1>4. QED  BY <1>1, <1>2, <1>3, PacketStep, PTL DEF Spec
-----------------------------------------------------------------------------
(* What is in the ledger.                                                  *)

LEMMA OnRecordIs ==
  ASSUME TypeOK, NEW what, NEW of, NEW with, NEW by
  PROVE  OnRecord(what, of, with, by) <=> Entry(what, of, with, by) \in Logged
<1>1. \A i \in DOMAIN ledger : ledger[i] \in Operations  BY DEF TypeOK
<1>2. ASSUME NEW i \in DOMAIN ledger
      PROVE  ledger[i] = Entry(what, of, with, by) <=>
               /\ ledger[i].what = what /\ ledger[i].of = of
               /\ ledger[i].with = with /\ ledger[i].by = by
  BY <1>1 DEF Operations, Entry
<1>3. QED  BY <1>2 DEF OnRecord, Logged

LEMMA OperationEntry ==
  ASSUME TypeInv, NEW p \in Procs, pc[p] \in Logging
  PROVE  Operation(p) = Entry(pc[p], job[p].of, Operation(p).with, Operation(p).by)
<1>1. Operation(p) \in Operations  BY OperationType
<1>2. Operation(p).what = pc[p] /\ Operation(p).of = job[p].of  BY OperationIs
<1>3. QED  BY <1>1, <1>2 DEF Operations, Entry

LEMMA LoggedBy ==
  ASSUME TypeInv, NEW p \in Procs, Log(p)
  PROVE  Logged' = Logged \cup {Operation(p)}
<1>1. TypeOK  BY DEF TypeInv
<1>2. QED  BY <1>1, LogIs DEF Logged, TypeOK

(* Who writes the files, the ledger, and the answers that were returned.   *)
LEMMA WhoWrites ==
  ASSUME [Next]_vars
  PROVE  /\ UNCHANGED <<store, runs, turns>> \/ \E p \in Procs : Write(p)
         /\ UNCHANGED ledger \/ \E p \in Procs : Log(p)
         /\ UNCHANGED answered \/ \E p \in Procs : Mark(p)
         /\ tried \subseteq tried'
<1>1. CASE UNCHANGED vars  BY <1>1 DEF vars, files, history
<1>2. ASSUME NEW p \in Procs, Boot(p) \/ Dispatch(p) \/ Promote(p) \/ Transition(p)
      PROVE  UNCHANGED <<store, runs, turns, ledger, answered>> /\ tried \subseteq tried'
  BY <1>2 DEF Boot, Dispatch, Promote, Transition, Edit, Begin, files
<1>3. ASSUME NEW p \in Procs, Crash(p) \/ ReadIndex(p) \/ Scan(p) \/ Rebuilt(p) \/ Read(p)
      PROVE  UNCHANGED <<store, runs, turns, ledger, answered, tried>>
  BY <1>3 DEF Crash, ReadIndex, Scan, Rebuilt, Read, files, history
<1>4. ASSUME NEW p \in Procs, Look(p) \/ Call(p) \/ Return(p)
      PROVE  UNCHANGED <<store, runs, turns, ledger, answered, tried>>
  BY <1>4 DEF Look, Call, Return, files, history
<1>5. ASSUME NEW p \in Procs, Write(p) PROVE UNCHANGED <<ledger, answered, tried>>
  BY <1>5 DEF Write
<1>6. ASSUME NEW p \in Procs, Log(p) PROVE UNCHANGED <<store, runs, turns, answered, tried>>
  BY <1>6 DEF Log, history
<1>7. ASSUME NEW p \in Procs, Mark(p) PROVE UNCHANGED <<store, runs, turns, ledger, tried>>
  BY <1>7 DEF Mark
<1>8. QED  BY <1>1, <1>2, <1>3, <1>4, <1>5, <1>6, <1>7 DEF Next

(* No entry is ever lost.                                                  *)
LEMMA LoggedStays ==
  ASSUME TypeInv, [Next]_vars
  PROVE  Logged \subseteq Logged'
<1>1. CASE UNCHANGED ledger  BY <1>1 DEF Logged
<1>2. ASSUME NEW p \in Procs, Log(p) PROVE Logged \subseteq Logged'
  BY <1>2, LoggedBy
<1>3. QED  BY <1>1, <1>2, WhoWrites

(* A look finds nothing, its own operation, or another with the same key.  *)
LEMMA LookIs ==
  ASSUME TypeInv, NEW p \in Procs, Look(p)
  PROVE  /\ pc[p] \in Logging
         /\ UNCHANGED <<files, job, local, started, history, counts>>
         /\ \/ UNCHANGED pc
            \/ pc' = [pc EXCEPT ![p] = Recorded(p)] /\ Operation(p) \in Logged
            \/ /\ pc' = [pc EXCEPT ![p] = "refused"]
               /\ \E e \in Logged : SameKey(e, Operation(p)) /\ e.by # Operation(p).by
<1>1. pc[p] \in Logging /\ UNCHANGED <<files, job, local, started, history, counts>>
  BY DEF Look
<1>2. CASE UNCHANGED pc  BY <1>1, <1>2
<1>3. CASE ~UNCHANGED pc
  <2>1. PICK i \in DOMAIN ledger :
          /\ SameKey(ledger[i], Operation(p))
          /\ pc' = [pc EXCEPT ![p] =
                IF ledger[i].by = Operation(p).by THEN Recorded(p) ELSE "refused"]
    BY <1>3 DEF Look, RecordedBefore, Conflict, Repeats
  <2>2. ledger[i] \in Logged  BY DEF Logged
  <2>3. CASE ledger[i].by = Operation(p).by
    <3>1. ledger[i] \in Operations /\ Operation(p) \in Operations
      BY <1>1, OperationType DEF TypeInv, TypeOK
    <3>2. ledger[i] = Operation(p)  BY <2>1, <2>3, <3>1 DEF SameKey, Operations
    <3>3. QED  BY <1>1, <2>1, <2>2, <2>3, <3>2
  <2>4. CASE ledger[i].by # Operation(p).by
    BY <1>1, <2>1, <2>2, <2>4
  <2>5. QED  BY <2>3, <2>4
<1>4. QED  BY <1>2, <1>3

(* Either way the operation that leads on is in the ledger.                *)
LEMMA Advances ==
  ASSUME TypeInv, NEW p \in Procs, Look(p) \/ Log(p)
  PROVE  /\ pc[p] \in Logging
         /\ UNCHANGED <<store, runs, turns, job, local, started, history, counts>>
         /\ \/ UNCHANGED pc
            \/ pc' = [pc EXCEPT ![p] = Recorded(p)] /\ Operation(p) \in Logged'
            \/ pc' = [pc EXCEPT ![p] = "refused"]
<1>1. CASE Look(p)
  <2>1. UNCHANGED ledger  BY <1>1, LookIs DEF files
  <2>2. Logged' = Logged  BY <2>1 DEF Logged
  <2>3. QED  BY <1>1, <2>2, LookIs DEF files
<1>2. CASE Log(p)
  BY <1>2, LogIs, LoggedBy DEF Log
<1>3. QED  BY <1>1, <1>2

-----------------------------------------------------------------------------
(* What is stored is in the ledger.                                        *)

LEMMA KeptStep ==
  ASSUME TypeInv, RecordInv, [Next]_vars
  PROVE  Kept'
<1>1. TypeOK /\ \A p \in Procs : Doing(p)  BY DEF TypeInv
<1>2. Kept /\ \A p \in Procs : Writing(p)  BY DEF RecordInv
<1>3. Logged \subseteq Logged'  BY LoggedStays
<1>4. CASE UNCHANGED <<store, runs, turns>>
  BY <1>2, <1>3, <1>4 DEF Kept
<1>5. ASSUME NEW p \in Procs, Write(p) PROVE Kept'
  <2>1. Writing(p) /\ Doing(p)  BY <1>1, <1>2
  <2>2. ASSUME NEW r \in Records, store'[r] \in Hidden
        PROVE  \E x \in Hidden \X Nat :
                 x[1] = store'[r] /\ Entry("transition", r, x, None) \in Logged'
    <3>1. CASE store'[r] = store[r]  BY <3>1, <2>2, <1>2, <1>3 DEF Kept
    <3>2. CASE store'[r] # store[r]
      <4>1. pc[p] = "hide" /\ r = job[p].of /\ store'[r] = job[p].arg[1]
        <5>1. CASE pc[p] = "show"  BY <5>1, <3>2, <2>2, <1>5, <1>1 DEF Write, TypeOK, Hidden
        <5>2. CASE pc[p] = "hide"  BY <5>2, <3>2, <1>5, <1>1 DEF Write, TypeOK
        <5>3. CASE pc[p] \notin {"show", "hide"}  BY <5>3, <3>2, <1>5 DEF Write
        <5>4. QED  BY <5>1, <5>2, <5>3
      <4>2. job[p].arg \in Hidden \X Nat  BY <4>1, <2>1, <1>1, JobIs DEF Doing
      <4>3. Entry("transition", r, job[p].arg, None) \in Logged'
        BY <4>1, <2>1, <1>3 DEF Writing
      <4>4. QED  BY <4>1, <4>2, <4>3
    <3>3. QED  BY <3>1, <3>2
  <2>3. ASSUME NEW s \in Steps, runs'[s] # None
        PROVE  Entry("start", s, None, runs'[s]) \in Logged'
    <3>1. CASE runs'[s] = runs[s]  BY <3>1, <2>3, <1>2, <1>3 DEF Kept
    <3>2. CASE runs'[s] # runs[s]
      <4>1. pc[p] = "run" /\ s = job[p].of /\ runs'[s] = job[p].arg
        BY <3>2, <1>5, <1>1 DEF Write, TypeOK
      <4>2. QED  BY <4>1, <2>1, <1>3 DEF Writing
    <3>3. QED  BY <3>1, <3>2
  <2>4. ASSUME NEW t \in turns'
        PROVE  \E x \in Routes : Entry("turn", t[1], t[2], x) \in Logged'
    <3>1. CASE t \in turns  BY <3>1, <1>2, <1>3 DEF Kept
    <3>2. CASE t \notin turns
      <4>1. pc[p] = "line" /\ t = <<job[p].of, job[p].answer>>
        BY <3>2, <1>5 DEF Write
      <4>2. QED  BY <4>1, <2>1, <1>3 DEF Writing
    <3>3. QED  BY <3>1, <3>2
  <2>5. QED  BY <2>2, <2>3, <2>4 DEF Kept
<1>6. QED  BY <1>4, <1>5, WhoWrites

LEMMA WritingStep ==
  ASSUME TypeInv, RecordInv, [Next]_vars, NEW q \in Procs
  PROVE  Writing(q)'
<1>1. TypeOK  BY DEF TypeInv
<1>2. Writing(q)  BY DEF RecordInv
<1>3. Logged \subseteq Logged'  BY LoggedStays
<1>4. CASE pc'[q] = pc[q] /\ job'[q] = job[q]
  BY <1>2, <1>3, <1>4 DEF Writing
<1>5. CASE pc'[q] \notin {"run", "line", "hide"}
  BY <1>5 DEF Writing
<1>6. ASSUME NEW p \in Procs, Look(p) \/ Log(p) PROVE Writing(q)'
  <2>1. /\ pc[p] \in Logging /\ UNCHANGED job
        /\ \/ UNCHANGED pc
           \/ pc' = [pc EXCEPT ![p] = Recorded(p)] /\ Operation(p) \in Logged'
           \/ pc' = [pc EXCEPT ![p] = "refused"]
    BY <1>6, Advances
  <2>2. CASE q # p  BY <2>1, <2>2, <1>4, <1>1 DEF TypeOK
  <2>3. CASE UNCHANGED pc  BY <2>1, <2>3, <1>4
  <2>4. CASE q = p /\ pc' = [pc EXCEPT ![p] = "refused"]
    BY <2>4, <1>5, <1>1 DEF TypeOK
  <2>5. CASE q = p /\ pc' = [pc EXCEPT ![p] = Recorded(p)] /\ Operation(p) \in Logged'
    <3>1. pc'[p] = Recorded(p) /\ job'[p] = job[p]  BY <2>1, <2>5, <1>1 DEF TypeOK
    <3>2. Entry(pc[p], job[p].of, Operation(p).with, Operation(p).by) \in Logged'
      BY <2>1, <2>5, OperationEntry
    <3>3. CASE pc[p] = "turn"
      <4>1. job[p].arg \in Routes  BY <3>3, <1>1, JobIs DEF TypeInv, Doing
      <4>2. pc'[p] = "line"  BY <3>1, <3>3, RecordedIs, <2>1
      <4>3. Entry("turn", job[p].of, job[p].answer, job[p].arg) \in Logged'
        BY <3>2, <3>3, OperationIs
      <4>4. QED  BY <4>1, <4>2, <4>3, <3>1, <2>5 DEF Writing
    <3>4. CASE pc[p] = "start"
      <4>1. pc'[p] = "run"  BY <3>1, <3>4, RecordedIs, <2>1
      <4>2. Entry("start", job[p].of, None, job[p].arg) \in Logged'
        BY <3>2, <3>4, OperationIs
      <4>3. QED  BY <4>1, <4>2, <3>1, <2>5 DEF Writing
    <3>5. CASE pc[p] = "transition"
      <4>1. pc'[p] = "hide"  BY <3>1, <3>5, RecordedIs, <2>1
      <4>2. Entry("transition", job[p].of, job[p].arg, None) \in Logged'
        BY <3>2, <3>5, OperationIs
      <4>3. QED  BY <4>1, <4>2, <3>1, <2>5 DEF Writing
    <3>6. CASE pc[p] \notin {"turn", "start", "transition"}
      BY <3>1, <3>6, RecordedIs, <2>1, <1>5, <2>5 DEF Logging
    <3>7. QED  BY <3>3, <3>4, <3>5, <3>6
  <2>6. QED  BY <2>1, <2>2, <2>3, <2>4, <2>5
<1>7. ASSUME NEW p \in Procs,
             \/ Boot(p) \/ Dispatch(p) \/ Promote(p) \/ Transition(p) \/ Crash(p)
             \/ ReadIndex(p) \/ Scan(p) \/ Rebuilt(p) \/ Read(p)
             \/ Write(p) \/ Mark(p) \/ Call(p) \/ Return(p)
      PROVE  (pc'[q] = pc[q] /\ job'[q] = job[q]) \/ pc'[q] \notin {"run", "line", "hide"}
  <2>1. CASE Boot(p) \/ Dispatch(p) \/ Promote(p) \/ Transition(p)
    BY <2>1, <1>1 DEF Boot, Dispatch, Promote, Transition, Edit, Begin, TypeOK
  <2>2. CASE Crash(p) \/ Return(p)
    BY <2>2, <1>1 DEF Crash, Return, Forget, TypeOK
  <2>3. CASE ReadIndex(p)
    <3>1. CASE stale  BY <3>1, <2>3, <1>1 DEF ReadIndex, TypeOK
    <3>2. CASE ~stale  BY <3>2, <2>3, <1>1, UseIs DEF ReadIndex
    <3>3. QED  BY <3>1, <3>2
  <2>4. CASE Rebuilt(p)  BY <2>4, <1>1, UseIs DEF Rebuilt
  <2>5. CASE Scan(p)  BY <2>5 DEF Scan
  <2>6. CASE Read(p)  BY <2>6, <1>1 DEF Read, TypeOK
  <2>7. CASE Write(p)  BY <2>7, <1>1 DEF Write, TypeOK
  <2>8. CASE Mark(p)  BY <2>8, <1>1, MarkIs DEF Mark
  <2>9. CASE Call(p)  BY <2>9, <1>1 DEF Call, TypeOK
  <2>10. QED  BY <1>7, <2>1, <2>2, <2>3, <2>4, <2>5, <2>6, <2>7, <2>8, <2>9
<1>8. CASE UNCHANGED vars  BY <1>8, <1>4 DEF vars
<1>9. QED  BY <1>4, <1>5, <1>6, <1>7, <1>8 DEF Next

(* Wherever a process dies, what is hidden, started or answered in the     *)
(* records has its operation in the ledger (_transition, _capture).        *)
THEOREM LedgeredThm == Spec => []RecordsAreLedgered
<1>1. Init => RecordInv
  BY DEF Init, RecordInv, Kept, Writing, Hidden
<1>2. TypeInv /\ RecordInv /\ [Next]_vars => RecordInv'
  BY KeptStep, WritingStep DEF RecordInv
<1>3. Spec => []TypeInv
  BY InitType, TypeStep, PTL DEF Spec
<1>4. TypeInv /\ RecordInv => RecordsAreLedgered
  <2> SUFFICES ASSUME TypeOK, Kept PROVE RecordsAreLedgered
    BY DEF TypeInv, RecordInv
  <2>1. ASSUME NEW r \in Records, store[r] \in Hidden
        PROVE  \E i \in DOMAIN ledger :
                 /\ ledger[i].what = "transition" /\ ledger[i].of = r
                 /\ ledger[i].with[1] = store[r]
    <3>1. PICK x \in Hidden \X Nat :
            x[1] = store[r] /\ Entry("transition", r, x, None) \in Logged
      BY <2>1 DEF Kept
    <3>2. OnRecord("transition", r, x, None)  BY <3>1, OnRecordIs
    <3>3. QED  BY <3>1, <3>2 DEF OnRecord
  <2>2. ASSUME NEW s \in Steps, runs[s] # None PROVE OnRecord("start", s, None, runs[s])
    BY <2>2, OnRecordIs DEF Kept
  <2>3. ASSUME NEW t \in turns PROVE \E x \in Routes : OnRecord("turn", t[1], t[2], x)
    BY <2>3, OnRecordIs DEF Kept
  <2>4. QED  BY <2>1, <2>2, <2>3 DEF RecordsAreLedgered
<1>5. QED  BY <1>1, <1>2, <1>3, <1>4, PTL DEF Spec
-----------------------------------------------------------------------------
(* What is called is in the ledger.                                        *)

(* Starts and turns are never taken back.                                  *)
LEMMA StartsStay ==
  ASSUME TypeInv, [Next]_vars
  PROVE  turns \subseteq turns' /\ \A s \in Steps : runs[s] # None => runs'[s] # None
<1>1. TypeOK /\ \A p \in Procs : Doing(p)  BY DEF TypeInv
<1>2. CASE UNCHANGED <<runs, turns>>  BY <1>2
<1>3. ASSUME NEW p \in Procs, Write(p)
      PROVE  turns \subseteq turns' /\ \A s \in Steps : runs[s] # None => runs'[s] # None
  <2>1. pc[p] = "run" => job[p].arg # None
    BY <1>1, JobIs, MemoryAssumption DEF Doing
  <2>2. QED  BY <2>1, <1>3, <1>1 DEF Write, TypeOK
<1>4. QED  BY <1>2, <1>3, WhoWrites

LEMMA CallingStep ==
  ASSUME TypeInv, CallInv, [Next]_vars, NEW q \in Procs
  PROVE  Calling(q)'
<1>1. TypeOK /\ \A p \in Procs : Doing(p)  BY DEF TypeInv
<1>2. Calling(q) /\ Doing(q)  BY <1>1 DEF CallInv
<1>3. Logged \subseteq Logged'  BY LoggedStays
<1>4. turns \subseteq turns' /\ \A s \in Steps : runs[s] # None => runs'[s] # None
  BY StartsStay
<1>5. started[q] \subseteq Steps  BY <1>1 DEF TypeOK
<1>6. job[q].kind = "dispatch" => job[q].of \in Steps /\ job[q].arg \in Routes
  BY <1>1, JobIs
<1>7. CASE pc'[q] = pc[q] /\ job'[q] = job[q] /\ packet'[q] = packet[q] /\ started'[q] = started[q]
  BY <1>7, <1>2, <1>3, <1>4, <1>5, <1>6 DEF Calling, Marking, Doing
<1>8. CASE pc'[q] \notin {"start", "run", "call", "mark"} /\ started'[q] \subseteq started[q]
  BY <1>8, <1>2, <1>4, <1>5 DEF Calling, Marking
<1>k. ASSUME NEW p \in Procs, Look(p) \/ Log(p) PROVE Calling(q)'
  <2>1. /\ pc[p] \in Logging /\ UNCHANGED <<runs, turns, job, packet, started>>
        /\ \/ UNCHANGED pc
           \/ pc' = [pc EXCEPT ![p] = Recorded(p)] /\ Operation(p) \in Logged'
           \/ pc' = [pc EXCEPT ![p] = "refused"]
    BY <1>k, Advances DEF local
  <2>2. CASE q # p  BY <2>1, <2>2, <1>7, <1>1 DEF TypeOK
  <2>3. CASE UNCHANGED pc  BY <2>1, <2>3, <1>7
  <2>4. CASE q = p /\ pc' = [pc EXCEPT ![p] = "refused"]
    BY <2>1, <2>4, <1>8, <1>1 DEF TypeOK
  <2>5. CASE q = p /\ pc' = [pc EXCEPT ![p] = Recorded(p)] /\ Operation(p) \in Logged'
    <3>1. pc'[p] = Recorded(p)  BY <2>5, <1>1 DEF TypeOK
    <3>2. CASE pc[p] = "inject"
      <4>1. Entry("inject", job[p].of, <<job[p].arg, packet[p]>>, None) \in Logged'
        BY <2>1, <2>5, <3>2, OperationEntry, OperationIs
      <4>2. pc'[p] = "start" \/ (pc'[p] = "call" /\ job[p].of \in started[p])
        BY <2>1, <3>1, <3>2, RecordedIs
      <4>3. QED
        BY <4>1, <4>2, <2>1, <2>5, <1>2, <1>5 DEF Calling, Marking
    <3>3. CASE pc[p] = "start"
      <4>1. pc'[p] = "run"  BY <2>1, <3>1, <3>3, RecordedIs
      <4>2. QED
        BY <4>1, <3>3, <2>1, <2>5, <1>2, <1>3 DEF Calling, Marking
    <3>4. CASE pc[p] \notin {"inject", "start"}
      BY <2>1, <2>5, <3>1, <3>4, <1>8, RecordedIs DEF Logging
    <3>5. QED  BY <3>2, <3>3, <3>4
  <2>6. QED  BY <2>1, <2>2, <2>3, <2>4, <2>5
<1>w. ASSUME NEW p \in Procs, Write(p) PROVE Calling(q)'
  <2>1. /\ UNCHANGED <<job, packet, started>> /\ pc' = [pc EXCEPT ![p] = "mark"]
        /\ pc[p] \in {"run", "line", "show", "hide"}
    BY <1>w DEF Write, local
  <2>2. CASE q # p  BY <2>1, <2>2, <1>7, <1>1 DEF TypeOK
  <2>3. CASE q = p
    <3>1. pc[q] = "run" => runs'[job[q].of] = job[q].arg /\ job[q].arg # None
      BY <2>3, <1>w, <1>1, <1>2, <1>6, MemoryAssumption DEF Write, TypeOK, Doing
    <3>2. pc[q] = "line" => <<job[q].of, job[q].answer>> \in turns'
      BY <2>3, <1>w DEF Write
    <3>3. pc[q] = "line" => job[q].answer # None  BY <1>2, MemoryAssumption DEF Doing
    <3>4. pc'[q] = "mark"  BY <2>1, <2>3, <1>1 DEF TypeOK
    <3>5. QED
      BY <2>1, <2>3, <3>1, <3>2, <3>3, <3>4, <1>2, <1>3, <1>4, <1>5
      DEF Calling, Marking, Doing
  <2>4. QED  BY <2>2, <2>3
<1>m. ASSUME NEW p \in Procs, Mark(p) PROVE Calling(q)'
  <2>1. /\ UNCHANGED <<runs, turns, ledger, job, packet>> /\ pc[p] = "mark"
        /\ started' = IF pc'[p] = "call"
                      THEN [started EXCEPT ![p] = @ \cup {job[p].of}] ELSE started
    BY <1>m DEF Mark, local
  <2>2. /\ \A x \in Procs \ {p} : pc'[x] = pc[x]
        /\ pc'[p] \in {"promote", "call", "done"}
        /\ pc'[p] = "call" => job[p].kind = "dispatch" /\ job[p].answer = None
    BY <1>m, <1>1, MarkIs
  <2>3. CASE q # p  BY <2>1, <2>2, <2>3, <1>7, <1>1 DEF TypeOK
  <2>4. CASE q = p /\ pc'[p] # "call"  BY <2>1, <2>2, <2>4, <1>8
  <2>5. CASE q = p /\ pc'[p] = "call"
    <3>1. started'[q] = started[q] \cup {job[q].of}  BY <2>1, <2>5, <1>1 DEF TypeOK
    <3>2. QED
      BY <2>1, <2>2, <2>5, <3>1, <1>2, <1>3 DEF Calling, Marking
  <2>6. QED  BY <2>3, <2>4, <2>5
<1>a. ASSUME NEW p \in Procs,
             \/ Boot(p) \/ Dispatch(p) \/ Promote(p) \/ Transition(p) \/ Crash(p)
             \/ ReadIndex(p) \/ Scan(p) \/ Rebuilt(p) \/ Read(p) \/ Call(p) \/ Return(p)
      PROVE  \/ pc'[q] = pc[q] /\ job'[q] = job[q] /\ packet'[q] = packet[q] /\ started'[q] = started[q]
             \/ /\ pc'[q] \notin {"start", "run", "call", "mark"}
                /\ started'[q] \subseteq started[q]
  <2>1. CASE Boot(p) \/ Dispatch(p) \/ Promote(p) \/ Transition(p)
    BY <2>1, <1>1 DEF Boot, Dispatch, Promote, Transition, Edit, Begin, TypeOK, local
  <2>2. CASE Crash(p) \/ Return(p)
    BY <2>2, <1>1 DEF Crash, Return, Forget, TypeOK
  <2>3. CASE ReadIndex(p)
    <3>1. CASE stale  BY <3>1, <2>3, <1>1 DEF ReadIndex, TypeOK
    <3>2. CASE ~stale  BY <3>2, <2>3, <1>1, UseIs DEF ReadIndex
    <3>3. QED  BY <3>1, <3>2
  <2>4. CASE Rebuilt(p)  BY <2>4, <1>1, UseIs DEF Rebuilt
  <2>5. CASE Scan(p)  BY <2>5 DEF Scan
  <2>6. CASE Read(p)  BY <2>6, <1>1 DEF Read, TypeOK
  <2>7. CASE Call(p)  BY <2>7, <1>1 DEF Call, TypeOK, local
  <2>8. QED  BY <1>a, <2>1, <2>2, <2>3, <2>4, <2>5, <2>6, <2>7
<1>s. CASE UNCHANGED vars  BY <1>s, <1>7 DEF vars, local
<1>q. QED  BY <1>7, <1>8, <1>k, <1>w, <1>m, <1>a, <1>s DEF Next

LEMMA AnsweredStep ==
  ASSUME TypeInv, CallInv, [Next]_vars
  PROVE  (answered \subseteq turns)'
<1>1. answered \subseteq turns /\ \A p \in Procs : Calling(p) /\ Doing(p)
  BY DEF CallInv, TypeInv
<1>2. turns \subseteq turns'  BY StartsStay
<1>3. CASE UNCHANGED answered  BY <1>1, <1>2, <1>3
<1>4. ASSUME NEW p \in Procs, Mark(p) PROVE (answered \subseteq turns)'
  <2>1. pc[p] = "mark"
        /\ answered' = IF job[p].answer # None
                       THEN answered \cup {<<job[p].of, job[p].answer>>} ELSE answered
    BY <1>4 DEF Mark
  <2>2. job[p].answer # None => job[p].kind = "dispatch"
    BY <2>1, <1>1, JobIs DEF Doing, TypeInv
  <2>3. QED  BY <2>1, <2>2, <1>1, <1>2 DEF Calling, Marking
<1>5. QED  BY <1>3, <1>4, WhoWrites

(* A provider is called only with what the ledger says was injected, after *)
(* the start of its step was stored; an answer that was returned is stored *)
(* (compose_run_start, _capture_run_start_once, capture_turn_completion).  *)
THEOREM CallThm == Spec => []CallIsRecorded
<1>1. Init => CallInv
  BY DEF Init, CallInv, Calling, Marking
<1>2. TypeInv /\ CallInv /\ [Next]_vars => CallInv'
  BY CallingStep, AnsweredStep DEF CallInv
<1>3. Spec => []TypeInv
  BY InitType, TypeStep, PTL DEF Spec
<1>4. TypeInv /\ CallInv => CallIsRecorded
  BY OnRecordIs DEF TypeInv, CallInv, Calling, CallIsRecorded
<1>5. QED  BY <1>1, <1>2, <1>3, <1>4, PTL DEF Spec

-----------------------------------------------------------------------------
(* A re-drive by the same route goes on.                                   *)

LEMMA EntriesStep ==
  ASSUME TypeInv, RouteInv, [Next]_vars
  PROVE  \A e \in Logged' : Tried(e)'
<1>1. TypeOK /\ \A p \in Procs : Doing(p)  BY DEF TypeInv
<1>2. tried \subseteq tried' /\ \A e \in Logged : Tried(e)  BY WhoWrites DEF RouteInv
<1>3. CASE UNCHANGED ledger
  <2>1. Logged' = Logged  BY <1>3 DEF Logged
  <2>2. QED  BY <2>1, <1>2 DEF Tried
<1>4. ASSUME NEW p \in Procs, Log(p) PROVE \A e \in Logged' : Tried(e)'
  <2>1. Logged' = Logged \cup {Operation(p)} /\ pc[p] \in Logging  BY <1>4, LoggedBy, LogIs
  <2>2. pc[p] \in {"start", "turn"} => <<job[p].of, job[p].arg>> \in tried /\ job[p].arg \in Routes
    BY <1>1, JobIs DEF Doing, RouteInv
  <2>3. /\ Operation(p).what = pc[p] /\ Operation(p).of = job[p].of
        /\ pc[p] \in {"start", "turn"} => Operation(p).by = job[p].arg
        /\ pc[p] \in {"retrieve", "inject"} => Operation(p).by = None
    BY OperationIs
  <2>4. QED  BY <2>1, <2>2, <2>3, <1>2 DEF Tried
<1>5. QED  BY <1>3, <1>4, WhoWrites

(* A job is as it was, or is begun, or has its answer, or is no dispatch.  *)
LEMMA JobsStep ==
  ASSUME TypeInv, RouteInv, [Next]_vars, NEW q \in Procs, job'[q].kind = "dispatch"
  PROVE  <<job'[q].of, job'[q].arg>> \in tried'
<1>1. TypeOK  BY DEF TypeInv
<1>2. tried \subseteq tried'  BY WhoWrites
<1>3. CASE job'[q].kind = job[q].kind /\ job'[q].of = job[q].of /\ job'[q].arg = job[q].arg
  BY <1>2, <1>3 DEF RouteInv
<1>4. ASSUME NEW p \in Procs, Dispatch(p) PROVE <<job'[q].of, job'[q].arg>> \in tried'
  <2>1. CASE q # p  BY <2>1, <1>4, <1>3, <1>1 DEF Dispatch, Begin, TypeOK
  <2>2. CASE q = p  BY <2>2, <1>4, <1>1 DEF Dispatch, Begin, TypeOK
  <2>3. QED  BY <2>1, <2>2
<1>5. ASSUME NEW p \in Procs, Boot(p) \/ Promote(p) \/ Transition(p) PROVE job'[q] = job[q]
  BY <1>5, <1>1 DEF Boot, Promote, Transition, Edit, Begin, TypeOK
<1>6. ASSUME NEW p \in Procs, Crash(p) \/ Return(p) PROVE job'[q] = job[q]
  BY <1>6, <1>1 DEF Crash, Return, Forget, TypeOK, NoJob
<1>7. ASSUME NEW p \in Procs, Call(p)
      PROVE job'[q].kind = job[q].kind /\ job'[q].of = job[q].of /\ job'[q].arg = job[q].arg
  <2>1. job[q] \in Asked \cup {NoJob}  BY <1>1 DEF TypeOK
  <2>2. CASE UNCHANGED job  BY <2>2
  <2>3. ASSUME NEW a \in Answers, job' = [job EXCEPT ![p].answer = a]
        PROVE job'[q].kind = job[q].kind /\ job'[q].of = job[q].of /\ job'[q].arg = job[q].arg
    <3>1. CASE q # p  BY <3>1, <2>3, <1>1 DEF TypeOK
    <3>2. CASE q = p  BY <3>2, <2>1, <2>3, <1>1 DEF TypeOK, Asked, NoJob
    <3>3. QED  BY <3>1, <3>2
  <2>4. QED  BY <2>2, <2>3, <1>7 DEF Call
<1>8. CASE UNCHANGED job  BY <1>8, <1>3
<1>9. QED
  BY <1>3, <1>4, <1>5, <1>6, <1>7, <1>8
  DEF Next, vars, ReadIndex, Scan, Rebuilt, Read, Look, Log, Write, Mark

LEMMA RefusedStep ==
  ASSUME TypeInv, RouteInv, [Next]_vars, NEW q \in Procs,
         pc'[q] = "refused", job'[q].kind = "dispatch"
  PROVE  \E x \in Routes \ {job'[q].arg} : <<job'[q].of, x>> \in tried'
<1>1. TypeOK /\ \A p \in Procs : Doing(p)  BY DEF TypeInv
<1>2. tried \subseteq tried'  BY WhoWrites
<1>3. CASE pc'[q] = pc[q] /\ job'[q] = job[q]
  BY <1>2, <1>3 DEF RouteInv, SameRouteGoesOn
<1>4. ASSUME NEW p \in Procs, Look(p)
      PROVE  \E x \in Routes \ {job'[q].arg} : <<job'[q].of, x>> \in tried'
  <2>1. UNCHANGED job /\ pc[p] \in Logging  BY <1>4, LookIs
  <2>2. CASE q # p  BY <2>1, <2>2, <1>3, <1>4, <1>1, LookIs DEF TypeOK
  <2>3. CASE UNCHANGED pc  BY <2>1, <2>3, <1>3
  <2>4. CASE q = p /\ ~UNCHANGED pc
    <3>1. pc[p] # "refused"  BY <2>1 DEF Logging
    <3>2. Recorded(p) # "refused"  BY <2>1, RecordedIs DEF Logging
    <3>3. PICK e \in Logged : SameKey(e, Operation(p)) /\ e.by # Operation(p).by
      BY <2>4, <3>2, <1>4, <1>1, LookIs DEF TypeOK
    <3>4. e.what = pc[p] /\ e.of = job[p].of  BY <3>3, OperationIs DEF SameKey
    <3>5. job[p].kind = "dispatch"  BY <2>1, <2>4
    <3>6. pc[p] \in {"retrieve", "inject", "start", "turn"}
      BY <2>1, <3>5, <1>1 DEF Doing, Logging
    <3>7. Tried(e)  BY <3>3 DEF RouteInv
    <3>8. pc[p] \in {"start", "turn"} /\ Operation(p).by = job[p].arg
      BY <3>3, <3>4, <3>6, <3>7, OperationIs DEF Tried
    <3>9. e.by \in Routes \ {job[p].arg} /\ <<job[p].of, e.by>> \in tried
      BY <3>3, <3>4, <3>7, <3>8 DEF Tried
    <3>10. QED  BY <3>9, <2>1, <2>4, <1>2
  <2>5. QED  BY <2>2, <2>3, <2>4
<1>5. ASSUME NEW p \in Procs,
             \/ Boot(p) \/ Dispatch(p) \/ Promote(p) \/ Transition(p) \/ Crash(p)
             \/ ReadIndex(p) \/ Scan(p) \/ Rebuilt(p) \/ Read(p) \/ Call(p) \/ Return(p)
             \/ Log(p) \/ Write(p) \/ Mark(p)
      PROVE  pc'[q] = pc[q] /\ job'[q] = job[q]
  <2>1. CASE Boot(p) \/ Dispatch(p) \/ Promote(p) \/ Transition(p)
    BY <2>1, <1>1 DEF Boot, Dispatch, Promote, Transition, Edit, Begin, TypeOK
  <2>2. CASE Crash(p) \/ Return(p)
    BY <2>2, <1>1 DEF Crash, Return, Forget, TypeOK
  <2>3. CASE ReadIndex(p)
    <3>1. CASE stale  BY <3>1, <2>3, <1>1 DEF ReadIndex, TypeOK
    <3>2. CASE ~stale  BY <3>2, <2>3, <1>1, UseIs DEF ReadIndex
    <3>3. QED  BY <3>1, <3>2
  <2>4. CASE Rebuilt(p)  BY <2>4, <1>1, UseIs DEF Rebuilt
  <2>5. CASE Scan(p)  BY <2>5 DEF Scan
  <2>6. CASE Read(p)  BY <2>6, <1>1 DEF Read, TypeOK
  <2>7. CASE Call(p)  BY <2>7, <1>1 DEF Call, TypeOK
  <2>8. CASE Log(p)
    <3>1. pc[p] \in Logging  BY <2>8, LogIs
    <3>2. Recorded(p) # "refused"  BY <3>1, RecordedIs DEF Logging
    <3>3. QED  BY <3>2, <2>8, <1>1 DEF Log, TypeOK
  <2>9. CASE Write(p)  BY <2>9, <1>1 DEF Write, TypeOK
  <2>10. CASE Mark(p)  BY <2>10, <1>1, MarkIs DEF Mark
  <2>11. QED
    BY <1>5, <2>1, <2>2, <2>3, <2>4, <2>5, <2>6, <2>7, <2>8, <2>9, <2>10
<1>6. CASE UNCHANGED vars  BY <1>6, <1>3 DEF vars
<1>7. QED  BY <1>3, <1>4, <1>5, <1>6 DEF Next

(* Memory refuses a dispatch only if another route was tried for its step: *)
(* what a drive recorded before it died does not stop the next one         *)
(* (append_memory_operation).                                              *)
THEOREM RouteThm == Spec => []SameRouteGoesOn
<1>1. Init => RouteInv
  <2> SUFFICES ASSUME Init PROVE RouteInv  OBVIOUS
  <2>1. \A e \in Logged : e.what = "promote"  BY InitLedger DEF Logged
  <2>2. QED  BY <2>1 DEF Init, NoJob, RouteInv, Tried, SameRouteGoesOn
<1>2. TypeInv /\ RouteInv /\ [Next]_vars => RouteInv'
  <2> SUFFICES ASSUME TypeInv, RouteInv, [Next]_vars PROVE RouteInv'  OBVIOUS
  <2>1. \A p \in Procs : job'[p].kind = "dispatch" => <<job'[p].of, job'[p].arg>> \in tried'
    BY JobsStep
  <2>2. SameRouteGoesOn'  BY RefusedStep DEF SameRouteGoesOn
  <2>3. QED  BY <2>1, <2>2, EntriesStep DEF RouteInv
<1>3. Spec => []TypeInv
  BY InitType, TypeStep, PTL DEF Spec
<1>4. RouteInv => SameRouteGoesOn  BY DEF RouteInv
<1>5. QED  BY <1>1, <1>2, <1>3, <1>4, PTL DEF Spec
=============================================================================
