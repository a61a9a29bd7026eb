------------------------- MODULE StateLedger_proofs -------------------------
(***************************************************************************)
(* Proofs about the state ledger, for any number of writers, processes,    *)
(* keys and batches:                                                       *)
(*                                                                         *)
(*   TypeCorrect        TypeOK is invariant                                *)
(*   DetectionThm       a file that passes the bootstrap check is serial,  *)
(*                      however many processes race on it                  *)
(*   OneProcessThm      the writers of one process never leave a readable  *)
(*                      file that fails the check                          *)
(*   LandedThm          what they were told has landed is in it            *)
(*   LogThm             and to them it is the log of EventLog, though an   *)
(*                      append is three steps and may stop between them    *)
(***************************************************************************)
EXTENDS StateLedger, TLAPS, SequenceTheorems

USE DEF writer

LEMMA HashInLine ==
  ASSUME NEW f \in Seq(Line), NEW n \in 0..Len(f)
  PROVE  PriorHash(f, n) \in Seq((Keys \cup {NoKey}) \X Nat)
<1>1. CASE n = 0
  BY <1>1 DEF PriorHash
<1>2. CASE n # 0
  <2>1. f[n] \in Line
    BY <1>2
  <2> QED
    BY <1>2, <2>1 DEF PriorHash, Hash, Line
<1> QED
  BY <1>1, <1>2

LEMMA TornIsLine == Torn \in Line
BY DEF Torn, Line

LEMMA WrittenType ==
  ASSUME NEW f \in Seq(Line), NEW e \in BOOLEAN, NEW d \in Line,
         f = <<>> => e
  PROVE  Written(f, e, d) \in Seq(Line) /\ Written(f, e, d) # <<>>
BY TornIsLine DEF Written

LEMMA HeadTail ==
  ASSUME NEW s \in Seq(Keys), s # <<>>
  PROVE  /\ Head(s) \in Keys /\ Tail(s) \in Seq(Keys)
         /\ Tail(s) = <<>> <=> Len(s) = 1
<1>1. /\ Head(s) \in Keys /\ Tail(s) \in Seq(Keys)
      /\ Len(Tail(s)) = Len(s) - 1 /\ Len(s) \in Nat
  BY HeadTailProperties
<1>2. Len(Tail(s)) = 0 <=> Tail(s) = <<>>
  BY <1>1, EmptySeq
<1> QED
  BY <1>1, <1>2

LEMMA TypeInit == Init => TypeOK
BY LedgerAssumption DEF Init, TypeOK, Results, Torn, Line

LEMMA TypeStep == TypeOK /\ [Next]_vars => TypeOK'
<1> SUFFICES ASSUME TypeOK, [Next]_vars
             PROVE  TypeOK'
  OBVIOUS
<1> USE LedgerAssumption DEF TypeOK, Results, Release
<1>1. CASE Tick
  BY <1>1 DEF Tick
<1>2. ASSUME NEW p \in Processes, Bootstrap(p) \/ Crash(p)
      PROVE  TypeOK'
  <2>1. CASE Bootstrap(p)
    BY <2>1 DEF Bootstrap
  <2>2. CASE Crash(p)
    <3>1. pc' \in [Writers -> {"idle", "waiting", "locked", "writing"}]
      BY <2>2 DEF Crash
    <3>2. todo' \in [Writers -> Seq(Keys)]
      BY <2>2 DEF Crash
    <3>3. \A w \in Writers : todo'[w] = <<>> <=> pc'[w] = "idle"
      BY <2>2 DEF Crash
    <3> QED
      BY <2>2, <3>1, <3>2, <3>3 DEF Crash
  <2> QED
    BY <1>2, <2>1, <2>2
<1>3. ASSUME NEW w \in Writers, NEW b \in Batches, Compose(w, b)
      PROVE  TypeOK'
  <2>1. b \in Seq(Keys) /\ b # <<>>
    BY LedgerAssumption
  <2> QED
    BY <1>3, <2>1 DEF Compose
<1>4. ASSUME NEW w \in Writers, Acquire(w)
      PROVE  TypeOK'
  BY <1>4 DEF Acquire
<1>5. ASSUME NEW w \in Writers, ReadPrior(w)
      PROVE  TypeOK'
  <2>1. PriorHash(file, Len(file)) \in Seq((Keys \cup {NoKey}) \X Nat)
    BY HashInLine
  <2>2. todo[w] \in Seq(Keys) /\ todo[w] # <<>>
    BY <1>5 DEF ReadPrior
  <2>3. Head(todo[w]) \in Keys /\ Tail(todo[w]) \in Seq(Keys)
        /\ (Tail(todo[w]) = <<>> <=> Len(todo[w]) = 1)
    BY <2>2, HeadTail
  <2>4. [key |-> Head(todo[w]), ts |-> stamp[w],
         prior |-> PriorHash(file, Len(file))] \in Line
    BY <2>1, <2>3 DEF Line
  <2>5. draft' \in [Writers -> Line]
    <3>1. \/ UNCHANGED draft
          \/ draft' = [draft EXCEPT ![w] =
               [key |-> Head(todo[w]), ts |-> stamp[w],
                prior |-> PriorHash(file, Len(file))]]
      BY <1>5 DEF ReadPrior
    <3> QED
      BY <2>4, <3>1
  <2>6. ASSUME NEW why \in Results, Fail(w, why), UNCHANGED landed
        PROVE  TypeOK'
    <3>1. /\ todo' \in [Writers -> Seq(Keys)]
          /\ \A v \in Writers : todo'[v] = <<>> <=> pc'[v] = "idle"
      BY <2>6 DEF Fail
    <3>2. UNCHANGED <<file, ended, clock, up, stamp, batches>>
      BY <1>5 DEF ReadPrior
    <3> QED
      BY <2>5, <2>6, <3>1, <3>2 DEF Fail
  <2>7. CASE Land(w)
    BY <1>5, <2>3, <2>5, <2>7 DEF ReadPrior, Land
  <2>8. CASE pc' = [pc EXCEPT ![w] = "writing"]
             /\ UNCHANGED <<lock, todo, result, landed>>
    BY <1>5, <2>2, <2>5, <2>8 DEF ReadPrior
  <2> QED
    BY <1>5, <2>6, <2>7, <2>8 DEF ReadPrior
<1>6. ASSUME NEW w \in Writers, WriteLine(w)
      PROVE  TypeOK'
  <2>1. todo[w] \in Seq(Keys) /\ todo[w] # <<>>
    BY <1>6 DEF WriteLine
  <2>2. Head(todo[w]) \in Keys /\ Tail(todo[w]) \in Seq(Keys)
        /\ (Tail(todo[w]) = <<>> <=> Len(todo[w]) = 1)
    BY <2>1, HeadTail
  <2>3. Written(file, ended, draft[w]) \in Seq(Line)
        /\ Written(file, ended, draft[w]) # <<>>
    BY WrittenType
  <2> QED
    BY <1>6, <2>2, <2>3 DEF WriteLine, Land
<1>7. ASSUME NEW w \in Writers, NEW cut \in Cuts, CutShort(w, cut)
      PROVE  TypeOK'
  <2>1. Torn \in Line
    BY DEF Torn, Line
  <2>2. file' \in Seq(Line) /\ file' # <<>>
    <3>1. (IF cut = "line" THEN draft[w] ELSE Torn) \in Line
      BY <2>1
    <3> QED
      BY <1>7, <3>1, WrittenType DEF CutShort
  <2>3. /\ todo' \in [Writers -> Seq(Keys)]
        /\ \A v \in Writers : todo'[v] = <<>> <=> pc'[v] = "idle"
    BY <1>7 DEF CutShort, Fail
  <2> QED
    BY <1>7, <2>2, <2>3 DEF CutShort, Fail
<1>8. ASSUME NEW n \in 0..Len(file), NEW cut \in Cuts \cup {"none"},
             PowerLoss(n, cut)
      PROVE  TypeOK'
  <2>1. Torn \in Line
    BY DEF Torn, Line
  <2>2. file' \in Seq(Line) /\ (file' = <<>> => cut = "none")
    <3>1. SubSeq(file, 1, n) \in Seq(Line)
          /\ SubSeq(file, 1, n + 1) \in Seq(Line)
          /\ Len(SubSeq(file, 1, n + 1)) = n + 1
      BY <1>8, SubSeqProperties DEF PowerLoss
    <3> QED
      BY <1>8, <2>1, <3>1, EmptySeq DEF PowerLoss
  <2> QED
    BY <1>8, <2>2 DEF PowerLoss
<1>9. CASE UNCHANGED vars
  BY <1>9 DEF vars
<1> QED
  BY <1>1, <1>2, <1>3, <1>4, <1>5, <1>6, <1>7, <1>8, <1>9 DEF Next, Append_

(* Every behaviour of the ledger is well typed; in particular a writer is  *)
(* idle exactly when nothing of its batch is left.                         *)
THEOREM TypeCorrect == Spec => []TypeOK
BY TypeInit, TypeStep, PTL DEF Spec

-----------------------------------------------------------------------------
(* Facts about chains.  A power loss can bring any prefix of the file back, *)
(* so everything is said of the first n lines.                             *)

GoodTo(f, n) ==
  \A i \in 1..n : f[i].key # NoKey /\ f[i].prior = PriorHash(f, i - 1)

SerialTo(f, n) ==
  \A i, j \in 1..n : i < j => f[i].key # f[j].key /\ f[i].ts <= f[j].ts

SerialPrefixes(f) == \A n \in 0..Len(f) : GoodTo(f, n) => SerialTo(f, n)

LEMMA WholeFile ==
  ASSUME NEW f \in Seq(Line)
  PROVE  /\ Readable(f) /\ ValidChain(f) <=> GoodTo(f, Len(f))
         /\ Serial(f) <=> SerialTo(f, Len(f))
BY DEF GoodTo, SerialTo, Readable, KeysOf, ValidChain, Serial

LEMMA SamePrefix ==
  ASSUME NEW f \in Seq(Line), NEW g \in Seq(Line), NEW n \in 0..Len(f),
         n <= Len(g), \A i \in 1..n : g[i] = f[i]
  PROVE  /\ GoodTo(f, n) <=> GoodTo(g, n)
         /\ SerialTo(f, n) <=> SerialTo(g, n)
         /\ PriorHash(f, n) = PriorHash(g, n)
<1>1. \A i \in 0..n : PriorHash(f, i) = PriorHash(g, i)
  BY DEF PriorHash
<1>2. GoodTo(f, n) <=> GoodTo(g, n)
  <2>1. \A i \in 1..n : PriorHash(f, i - 1) = PriorHash(g, i - 1)
    BY <1>1
  <2> QED
    BY <2>1 DEF GoodTo
<1>3. SerialTo(f, n) <=> SerialTo(g, n)
  BY DEF SerialTo
<1> QED
  BY <1>1, <1>2, <1>3

(* A hash names the key it was made of, and is never the sentinel.         *)
LEMMA HashDistinct ==
  ASSUME NEW a \in Line, NEW b \in Line
  PROVE  /\ Hash(a) = Hash(b) => a.key = b.key
         /\ Hash(a) # <<>>
<1> DEFINE S == (Keys \cup {NoKey}) \X Nat
<1>1. /\ a.prior \in Seq(S) /\ <<a.key, a.ts>> \in S
      /\ b.prior \in Seq(S) /\ <<b.key, b.ts>> \in S
  BY DEF Line
<1> HIDE DEF S
<1>2. Append(a.prior, <<a.key, a.ts>>) = Append(b.prior, <<b.key, b.ts>>)
      => <<a.key, a.ts>> = <<b.key, b.ts>>
  BY <1>1, AppendInjective
<1>3. Append(a.prior, <<a.key, a.ts>>) # <<>>
  BY <1>1, AppendProperties
<1> QED
  BY <1>2, <1>3 DEF Hash

(* The links of a serial chain are all different.                          *)
LEMMA LinksDistinct ==
  ASSUME NEW f \in Seq(Line), SerialTo(f, Len(f)), NEW n \in 0..Len(f),
         PriorHash(f, n) = PriorHash(f, Len(f))
  PROVE  n = Len(f)
<1> SUFFICES ASSUME n < Len(f) PROVE FALSE
  OBVIOUS
<1>1. f[Len(f)] \in Line
  OBVIOUS
<1>2. CASE n = 0
  BY <1>1, <1>2, HashDistinct DEF PriorHash
<1>3. CASE n > 0
  <2>1. f[n] \in Line
    BY <1>3
  <2>2. f[n].key = f[Len(f)].key
    BY <1>1, <1>3, <2>1, HashDistinct DEF PriorHash
  <2> QED
    BY <1>3, <2>2 DEF SerialTo
<1> QED
  BY <1>2, <1>3

(* What a writer knows of the entry it drafted: it extends a prefix of the *)
(* file, maybe not all of it any more.                                     *)
Extends(f, d) ==
  \E n \in 0..Len(f) :
    /\ d.prior = PriorHash(f, n)
    /\ \A i \in 1..n : f[i].key # d.key /\ f[i].ts <= d.ts

(* Writing such an entry keeps the prefixes serial: the chain goes on      *)
(* verifying only when the extended prefix is still the whole file.        *)
LEMMA SerialAppend ==
  ASSUME NEW f \in Seq(Line), NEW d \in Line, SerialPrefixes(f),
         GoodTo(f, Len(f)) => Extends(f, d)
  PROVE  SerialPrefixes(Append(f, d))
<1> DEFINE g == Append(f, d)
<1>1. /\ g \in Seq(Line) /\ Len(g) = Len(f) + 1
      /\ \A i \in 1..Len(f) : g[i] = f[i]
      /\ g[Len(f) + 1] = d
  BY AppendProperties
<1> SUFFICES SerialPrefixes(g)
  OBVIOUS
<1> HIDE DEF g
<1> SUFFICES ASSUME NEW m \in 0..Len(g), GoodTo(g, m)
             PROVE  SerialTo(g, m)
  BY DEF SerialPrefixes
<1>2. CASE m <= Len(f)
  BY <1>1, <1>2, SamePrefix DEF SerialPrefixes
<1>3. CASE m = Len(f) + 1
  <2>1. GoodTo(g, Len(f)) /\ d.prior = PriorHash(g, Len(f))
    BY <1>1, <1>3 DEF GoodTo
  <2>2. GoodTo(f, Len(f)) /\ d.prior = PriorHash(f, Len(f))
    BY <1>1, <2>1, SamePrefix
  <2>3. SerialTo(f, Len(f))
    BY <2>2 DEF SerialPrefixes
  <2>4. PICK n \in 0..Len(f) :
          /\ d.prior = PriorHash(f, n)
          /\ \A i \in 1..n : f[i].key # d.key /\ f[i].ts <= d.ts
    BY <2>2 DEF Extends
  <2>5. n = Len(f)
    BY <2>2, <2>3, <2>4, LinksDistinct
  <2> QED
    BY <1>1, <1>3, <2>3, <2>4, <2>5 DEF SerialTo
<1> QED
  BY <1>1, <1>2, <1>3

(* An entry keeps extending a file that grows.                             *)
LEMMA ExtendsAppend ==
  ASSUME NEW f \in Seq(Line), NEW d \in Line, NEW e \in Line, Extends(f, d)
  PROVE  Extends(Append(f, e), d)
BY AppendProperties DEF Extends, PriorHash

(* A torn last line: no prefix changes but the whole file, which is bad.   *)
LEMMA TornLast ==
  ASSUME NEW f \in Seq(Line), NEW g \in Seq(Line), SerialPrefixes(f),
         Len(g) >= 1, Len(g) <= Len(f) + 1, g[Len(g)] = Torn,
         \A i \in 1..(Len(g) - 1) : g[i] = f[i]
  PROVE  SerialPrefixes(g) /\ ~GoodTo(g, Len(g))
<1>1. ~GoodTo(g, Len(g))
  BY DEF GoodTo, Torn
<1>2. ASSUME NEW n \in 0..Len(g), GoodTo(g, n)
      PROVE  SerialTo(g, n)
  <2>1. n < Len(g)
    BY <1>1, <1>2
  <2>2. GoodTo(f, n)
    BY <1>2, <2>1, SamePrefix
  <2> QED
    BY <2>1, <2>2, SamePrefix DEF SerialPrefixes
<1> QED
  BY <1>1, <1>2 DEF SerialPrefixes

-----------------------------------------------------------------------------
(* Any number of processes.                                                *)

DetectInv ==
  /\ SerialPrefixes(file)
  /\ \A w \in Writers : pc[w] # "idle" => ProcOf[w] \in up
  /\ \A w \in Writers : pc[w] = "writing" /\ GoodTo(file, Len(file))
                        => Extends(file, draft[w])

LEMMA DetectInit == Init => DetectInv
BY DEF Init, DetectInv, SerialPrefixes, SerialTo

(* Writing a drafted line, or a part of one.                               *)
LEMMA DetectWritten ==
  ASSUME TypeOK, DetectInv, NEW w \in Writers, pc[w] = "writing",
         NEW d \in {draft[w], Torn},
         file' = Written(file, ended, d), UNCHANGED draft,
         \A v \in Writers : pc'[v] = "writing" => pc[v] = "writing"
  PROVE  /\ SerialPrefixes(file')
         /\ \A v \in Writers : pc'[v] = "writing" /\ GoodTo(file', Len(file'))
                               => Extends(file', draft'[v])
<1>1. /\ d \in Line /\ file \in Seq(Line) /\ SerialPrefixes(file)
      /\ Torn \in Line
  BY TornIsLine DEF TypeOK, DetectInv
<1>2. file' \in Seq(Line)
  BY <1>1, WrittenType DEF TypeOK
<1>3. CASE ~ended
  <2>1. file' = [file EXCEPT ![Len(file)] = Torn] /\ file # <<>>
    BY <1>3 DEF Written, TypeOK
  <2>2. /\ Len(file') = Len(file) /\ Len(file') >= 1
        /\ file'[Len(file')] = Torn
        /\ \A i \in 1..(Len(file') - 1) : file'[i] = file[i]
    BY <1>1, <2>1
  <2> QED
    BY <1>1, <1>2, <2>2, TornLast
<1>4. CASE ended /\ d = Torn
  <2>1. file' = Append(file, Torn)
    BY <1>4 DEF Written
  <2>2. /\ Len(file') = Len(file) + 1
        /\ file'[Len(file')] = Torn
        /\ \A i \in 1..(Len(file') - 1) : file'[i] = file[i]
    BY <1>1, <2>1, AppendProperties
  <2> QED
    BY <1>1, <1>2, <2>2, TornLast
<1>5. CASE ended /\ d = draft[w]
  <2>1. file' = Append(file, d)
    BY <1>5 DEF Written
  <2>2. SerialPrefixes(file')
    BY <1>1, <1>5, <2>1, SerialAppend DEF DetectInv
  <2>3. GoodTo(file', Len(file')) => GoodTo(file, Len(file))
    <3>1. /\ Len(file') = Len(file) + 1
          /\ \A i \in 1..Len(file) : file'[i] = file[i]
      BY <1>1, <2>1, AppendProperties
    <3>2. GoodTo(file', Len(file')) => GoodTo(file', Len(file))
      BY <1>1, <3>1 DEF GoodTo
    <3> QED
      BY <1>1, <1>2, <3>1, <3>2, SamePrefix
  <2>4. ASSUME NEW v \in Writers, pc'[v] = "writing", GoodTo(file', Len(file'))
        PROVE  Extends(file', draft'[v])
    <3>1. Extends(file, draft[v]) /\ draft[v] \in Line
      BY <2>3, <2>4 DEF DetectInv, TypeOK
    <3>2. Extends(Append(file, d), draft[v])
      BY <1>1, <3>1, ExtendsAppend
    <3> QED
      BY <2>1, <3>2
  <2> QED
    BY <2>2, <2>4
<1> QED
  BY <1>3, <1>4, <1>5

LEMMA DetectStep == TypeOK /\ DetectInv /\ [Next]_vars => DetectInv'
<1> SUFFICES ASSUME TypeOK, DetectInv, [Next]_vars
             PROVE  DetectInv'
  OBVIOUS
<1>t. /\ file \in Seq(Line) /\ pc \in [Writers -> {"idle", "waiting", "locked", "writing"}]
      /\ draft \in [Writers -> Line]
  BY DEF TypeOK
<1>1. CASE Tick
  BY <1>1 DEF Tick, DetectInv
<1>2. ASSUME NEW p \in Processes, Bootstrap(p)
      PROVE  DetectInv'
  BY <1>2 DEF Bootstrap, DetectInv
<1>3. ASSUME NEW p \in Processes, Crash(p)
      PROVE  DetectInv'
  BY <1>3, <1>t, LedgerAssumption DEF Crash, DetectInv
<1>4. ASSUME NEW w \in Writers, NEW b \in Batches, Compose(w, b)
      PROVE  DetectInv'
  BY <1>4, <1>t DEF Compose, DetectInv
<1>5. ASSUME NEW w \in Writers, Acquire(w)
      PROVE  DetectInv'
  BY <1>5, <1>t DEF Acquire, DetectInv
<1>6. ASSUME NEW w \in Writers, ReadPrior(w)
      PROVE  DetectInv'
  <2>1. file' = file /\ up' = up /\ pc[w] = "locked"
    BY <1>6 DEF ReadPrior
  <2>2. CASE pc'[w] # "writing"
    <3>1. draft' = draft /\ \A v \in Writers : v # w => pc'[v] = pc[v]
      BY <1>6, <1>t, <2>2 DEF ReadPrior, Fail, Land
    <3> QED
      BY <1>t, <2>1, <2>2, <3>1 DEF DetectInv
  <2>3. CASE pc'[w] = "writing"
    <3>1. /\ Head(todo[w]) \notin KeysOf(file)
          /\ file # <<>> => stamp[w] >= file[Len(file)].ts
          /\ draft' = [draft EXCEPT ![w] =
               [key |-> Head(todo[w]), ts |-> stamp[w],
                prior |-> PriorHash(file, Len(file))]]
          /\ \A v \in Writers : v # w => pc'[v] = pc[v]
      BY <1>6, <1>t, <2>3 DEF ReadPrior, Fail, Land
    <3>2. /\ draft'[w].key = Head(todo[w]) /\ draft'[w].ts = stamp[w]
          /\ draft'[w].prior = PriorHash(file, Len(file))
      BY <1>t, <3>1
    <3>3. ASSUME GoodTo(file, Len(file)), NEW i \in 1..Len(file)
          PROVE  file[i].ts <= stamp[w]
      <4>1. file[i].ts <= file[Len(file)].ts
        <5>1. SerialTo(file, Len(file)) /\ Len(file) \in 1..Len(file)
          BY <1>t, <3>3 DEF DetectInv, SerialPrefixes
        <5>2. file[i] \in Line
          BY <1>t, <3>3
        <5>3. file[i].ts \in Nat
          BY <5>2 DEF Line
        <5> QED
          BY <1>t, <5>1, <5>3 DEF SerialTo
      <4>2. file[i].ts \in Nat /\ file[Len(file)].ts \in Nat /\ stamp[w] \in Nat
        <5>1. file[i] \in Line /\ file[Len(file)] \in Line
          BY <1>t
        <5> QED
          BY <5>1, LedgerAssumption DEF TypeOK, Line
      <4> QED
        BY <3>1, <3>3, <4>1, <4>2
    <3>4. GoodTo(file, Len(file)) => Extends(file, draft'[w])
      BY <1>t, <3>1, <3>2, <3>3 DEF Extends, KeysOf
    <3> QED
      BY <1>t, <2>1, <3>1, <3>4 DEF DetectInv
  <2> QED
    BY <2>2, <2>3
<1>7. ASSUME NEW w \in Writers, WriteLine(w)
      PROVE  DetectInv'
  <2>1. \A v \in Writers : pc'[v] # "idle" => pc[v] # "idle"
    BY <1>7, <1>t DEF WriteLine, Land
  <2>2. \A v \in Writers : pc'[v] = "writing" => pc[v] = "writing"
    BY <1>7, <1>t DEF WriteLine, Land
  <2>3. /\ pc[w] = "writing" /\ file' = Written(file, ended, draft[w])
        /\ draft' = draft /\ up' = up
    BY <1>7 DEF WriteLine
  <2> QED
    BY <2>1, <2>2, <2>3, DetectWritten DEF DetectInv
<1>8. ASSUME NEW w \in Writers, NEW cut \in Cuts, CutShort(w, cut)
      PROVE  DetectInv'
  <2>1. \A v \in Writers : pc'[v] # "idle" => pc[v] # "idle"
    BY <1>8, <1>t DEF CutShort, Fail
  <2>2. \A v \in Writers : pc'[v] = "writing" => pc[v] = "writing"
    BY <1>8, <1>t DEF CutShort, Fail
  <2>3. /\ pc[w] = "writing" /\ draft' = draft /\ up' = up
        /\ \E d \in {draft[w], Torn} : file' = Written(file, ended, d)
    BY <1>8 DEF CutShort
  <2> QED
    BY <2>1, <2>2, <2>3, DetectWritten DEF DetectInv
<1>9. ASSUME NEW n \in 0..Len(file), NEW cut \in Cuts \cup {"none"},
             PowerLoss(n, cut)
      PROVE  DetectInv'
  <2>1. \A w \in Writers : pc'[w] = "idle"
    BY <1>9, <1>t DEF PowerLoss, DetectInv
  <2>2. SerialPrefixes(file')
    <3>1. CASE cut = "none" \/ cut = "line"
      <4> DEFINE m == IF cut = "none" THEN n ELSE n + 1
      <4>1. file' = SubSeq(file, 1, m) /\ m \in 0..Len(file)
        BY <1>9, <1>t, <3>1 DEF PowerLoss
      <4> HIDE DEF m
      <4>2. /\ file' \in Seq(Line) /\ Len(file') = m
            /\ \A i \in 1..m : file'[i] = file[i]
        BY <1>t, <4>1, SubSeqProperties
      <4>3. ASSUME NEW l \in 0..m, GoodTo(file', l)
            PROVE  SerialTo(file', l)
        <5>1. l \in 0..Len(file) /\ l <= Len(file')
              /\ \A i \in 1..l : file'[i] = file[i]
          BY <1>t, <4>1, <4>2, <4>3
        <5>2. /\ GoodTo(file, l) <=> GoodTo(file', l)
              /\ SerialTo(file, l) <=> SerialTo(file', l)
          BY <1>t, <4>2, <5>1, SamePrefix
        <5> QED
          BY <4>3, <5>1, <5>2 DEF DetectInv, SerialPrefixes
      <4> QED
        BY <4>2, <4>3 DEF SerialPrefixes
    <3>2. CASE cut # "none" /\ cut # "line"
      <4>1. file' = Append(SubSeq(file, 1, n), Torn) /\ n < Len(file)
        BY <1>9, <3>2 DEF PowerLoss
      <4>2. /\ SubSeq(file, 1, n) \in Seq(Line) /\ Torn \in Line
            /\ Len(SubSeq(file, 1, n)) = n
            /\ \A i \in 1..n : SubSeq(file, 1, n)[i] = file[i]
        <5>1. \A i \in 1..n : file[i] \in Line
          BY <1>t, <4>1
        <5> QED
          BY <1>t, <4>1, <5>1, SubSeqProperties, TornIsLine
      <4>3. /\ file' \in Seq(Line) /\ Len(file') = n + 1
            /\ file'[Len(file')] = Torn
            /\ \A i \in 1..n : file'[i] = file[i]
        BY <4>1, <4>2, AppendProperties
      <4> QED
        <5>1. /\ Len(file') >= 1 /\ Len(file') <= Len(file) + 1
              /\ file'[Len(file')] = Torn
              /\ \A i \in 1..(Len(file') - 1) : file'[i] = file[i]
          BY <1>t, <4>1, <4>3
        <5> QED
          BY <1>t, <4>3, <5>1, TornLast DEF DetectInv
    <3> QED
      BY <3>1, <3>2
  <2> QED
    BY <2>1, <2>2 DEF DetectInv
<1>10. CASE UNCHANGED vars
  BY <1>10 DEF vars, DetectInv
<1> QED
  BY <1>1, <1>2, <1>3, <1>4, <1>5, <1>6, <1>7, <1>8, <1>9, <1>10
  DEF Next, Append_

(* However many processes race on the file, whatever is cut, lost or       *)
(* restarted: a file that passes the bootstrap check holds every key once, *)
(* in the order of time.                                                   *)
THEOREM DetectionThm == Spec => []VerifiedMeansSerial
<1>1. TypeOK /\ DetectInv => VerifiedMeansSerial
  BY WholeFile DEF TypeOK, DetectInv, SerialPrefixes, VerifiedMeansSerial
<1> QED
  BY <1>1, TypeInit, TypeStep, DetectInit, DetectStep, PTL DEF Spec

-----------------------------------------------------------------------------
(* The writers of one process.                                             *)

OneProcess == \A v, w \in Writers : ProcOf[v] = ProcOf[w]

ReadableTo(f, n) == \A i \in 1..n : f[i].key # NoKey

SoloInv ==
  /\ \A w \in Writers :
       pc[w] \in {"locked", "writing"} => lock[ProcOf[w]] = w
  /\ \A w \in Writers : pc[w] # "idle" => ProcOf[w] \in up
  /\ \A w \in Writers : pc[w] = "writing" =>
       /\ ReadableTo(file, Len(file))
       /\ draft[w].prior = PriorHash(file, Len(file))
       /\ draft[w].key = Head(todo[w])
  /\ \A n \in 0..Len(file) : ReadableTo(file, n) => GoodTo(file, n)

LEMMA SoloInit == Init => SoloInv
BY DEF Init, SoloInv, ReadableTo, GoodTo

(* Only the holder of the lock writes, so its draft extends the whole file. *)
LEMMA SoloWritten ==
  ASSUME TypeOK, SoloInv, NEW w \in Writers, pc[w] = "writing",
         NEW d \in {draft[w], Torn}, file' = Written(file, ended, d)
  PROVE  \A n \in 0..Len(file') : ReadableTo(file', n) => GoodTo(file', n)
<1>1. /\ d \in Line /\ file \in Seq(Line) /\ Torn \in Line
  BY TornIsLine DEF TypeOK
<1>2. file' \in Seq(Line)
  BY <1>1, WrittenType DEF TypeOK
<1> SUFFICES ASSUME NEW n \in 0..Len(file'), ReadableTo(file', n)
             PROVE  GoodTo(file', n)
  OBVIOUS
<1>3. CASE ~ended
  <2>1. file' = [file EXCEPT ![Len(file)] = Torn] /\ file # <<>>
    BY <1>3 DEF Written, TypeOK
  <2>2. /\ Len(file') = Len(file) /\ Len(file) >= 1
        /\ file'[Len(file)] = Torn
        /\ \A i \in 1..(Len(file) - 1) : file'[i] = file[i]
    BY <1>1, <2>1
  <2>3. n <= Len(file) - 1
    BY <2>2 DEF ReadableTo, Torn
  <2>4. ReadableTo(file, n)
    BY <2>2, <2>3 DEF ReadableTo
  <2> QED
    BY <1>1, <1>2, <2>2, <2>3, <2>4, SamePrefix DEF SoloInv
<1>4. CASE ended
  <2>1. /\ Len(file') = Len(file) + 1
        /\ file'[Len(file) + 1] = d
        /\ \A i \in 1..Len(file) : file'[i] = file[i]
    BY <1>1, <1>4, AppendProperties DEF Written
  <2>2. CASE n <= Len(file)
    <3>1. ReadableTo(file, n)
      BY <2>1, <2>2 DEF ReadableTo
    <3>2. n \in 0..Len(file) /\ GoodTo(file, n)
      BY <1>1, <2>2, <3>1 DEF SoloInv
    <3>3. n <= Len(file') /\ \A i \in 1..n : file'[i] = file[i]
      BY <1>1, <2>1, <2>2
    <3> QED
      BY <1>1, <1>2, <3>2, <3>3, SamePrefix
  <2>3. CASE n = Len(file) + 1
    <3>1. d = draft[w]
      BY <2>1, <2>3 DEF ReadableTo, Torn
    <3>2. GoodTo(file, Len(file)) /\ d.prior = PriorHash(file, Len(file))
      BY <3>1, <1>1 DEF SoloInv
    <3>3. PriorHash(file', Len(file)) = PriorHash(file, Len(file))
          /\ GoodTo(file', Len(file))
      BY <1>1, <1>2, <2>1, <3>2, SamePrefix
    <3> QED
      BY <2>1, <2>3, <3>2, <3>3, <1>1 DEF GoodTo, ReadableTo
  <2> QED
    BY <2>1, <2>2, <2>3
<1> QED
  BY <1>3, <1>4

LEMMA SoloStep ==
  OneProcess /\ TypeOK /\ SoloInv /\ [Next]_vars => SoloInv'
<1> SUFFICES ASSUME OneProcess, TypeOK, SoloInv, [Next]_vars
             PROVE  SoloInv'
  OBVIOUS
<1>t. /\ file \in Seq(Line)
      /\ pc \in [Writers -> {"idle", "waiting", "locked", "writing"}]
      /\ draft \in [Writers -> Line] /\ todo \in [Writers -> Seq(Keys)]
      /\ lock \in [Processes -> Writers \cup {NoWriter}]
      /\ \A w \in Writers : ProcOf[w] \in Processes /\ w # NoWriter
  BY LedgerAssumption DEF TypeOK
<1>u. \A v, w \in Writers :
        /\ pc[v] \in {"locked", "writing"} /\ pc[w] \in {"locked", "writing"}
        => v = w
  BY DEF SoloInv, OneProcess
<1>1. CASE Tick
  BY <1>1 DEF Tick, SoloInv
<1>2. ASSUME NEW p \in Processes, Bootstrap(p)
      PROVE  SoloInv'
  BY <1>2 DEF Bootstrap, SoloInv
<1>3. ASSUME NEW p \in Processes, Crash(p)
      PROVE  SoloInv'
  BY <1>3, <1>t DEF Crash, SoloInv
<1>4. ASSUME NEW w \in Writers, NEW b \in Batches, Compose(w, b)
      PROVE  SoloInv'
  BY <1>4, <1>t DEF Compose, SoloInv
<1>5. ASSUME NEW w \in Writers, Acquire(w)
      PROVE  SoloInv'
  BY <1>5, <1>t DEF Acquire, SoloInv
<1>6. ASSUME NEW w \in Writers, ReadPrior(w)
      PROVE  SoloInv'
  <2>1. /\ file' = file /\ up' = up /\ pc[w] = "locked"
        /\ \A v \in Writers : v # w => pc[v] \notin {"locked", "writing"}
    BY <1>6, <1>u DEF ReadPrior
  <2>2. CASE pc'[w] # "writing"
    <3>1. /\ \A v \in Writers : v # w => pc'[v] = pc[v]
          /\ pc'[w] \in {"idle", "waiting"}
      BY <1>6, <1>t, <2>2 DEF ReadPrior, Fail, Land
    <3> QED
      BY <1>t, <2>1, <2>2, <3>1 DEF SoloInv
  <2>3. CASE pc'[w] = "writing"
    <3>1. /\ Readable(file)
          /\ draft' = [draft EXCEPT ![w] =
               [key |-> Head(todo[w]), ts |-> stamp[w],
                prior |-> PriorHash(file, Len(file))]]
          /\ \A v \in Writers : v # w => pc'[v] = pc[v]
          /\ UNCHANGED <<lock, todo>>
      BY <1>6, <1>t, <2>3 DEF ReadPrior, Fail, Land
    <3>2. /\ draft'[w].key = Head(todo[w])
          /\ draft'[w].prior = PriorHash(file, Len(file))
      BY <1>t, <3>1
    <3>3. ReadableTo(file, Len(file))
      BY <1>t, <3>1 DEF Readable, KeysOf, ReadableTo
    <3>4. \A v \in Writers : pc'[v] = "writing" => v = w
      BY <2>1, <3>1
    <3> QED
      BY <1>t, <2>1, <3>1, <3>2, <3>3, <3>4 DEF SoloInv
  <2> QED
    BY <2>2, <2>3
<1>7. ASSUME NEW w \in Writers, WriteLine(w)
      PROVE  SoloInv'
  <2>1. /\ pc[w] = "writing" /\ file' = Written(file, ended, draft[w])
        /\ up' = up
        /\ \A v \in Writers : pc'[v] \notin {"locked", "writing"}
        /\ \A v \in Writers : pc'[v] # "idle" => pc[v] # "idle"
    BY <1>7, <1>t, <1>u DEF WriteLine, Land
  <2> QED
    BY <2>1, SoloWritten DEF SoloInv
<1>8. ASSUME NEW w \in Writers, NEW cut \in Cuts, CutShort(w, cut)
      PROVE  SoloInv'
  <2>1. /\ pc[w] = "writing" /\ up' = up
        /\ \E d \in {draft[w], Torn} : file' = Written(file, ended, d)
        /\ \A v \in Writers : pc'[v] \notin {"locked", "writing"}
        /\ \A v \in Writers : pc'[v] # "idle" => pc[v] # "idle"
    BY <1>8, <1>t, <1>u DEF CutShort, Fail
  <2> QED
    BY <2>1, SoloWritten DEF SoloInv
<1>9. ASSUME NEW n \in 0..Len(file), NEW cut \in Cuts \cup {"none"},
             PowerLoss(n, cut)
      PROVE  SoloInv'
  <2>1. \A w \in Writers : pc'[w] = "idle"
    BY <1>9, <1>t DEF PowerLoss, SoloInv
  <2>2. PICK m \in 0..Len(file) :
          /\ file' \in Seq(Line) /\ Len(file') \in {m, m + 1}
          /\ \A i \in 1..m : file'[i] = file[i]
          /\ Len(file') = m + 1 => file'[m + 1] = Torn
    <3>1. CASE cut = "none" \/ cut = "line"
      <4> DEFINE m == IF cut = "none" THEN n ELSE n + 1
      <4>1. file' = SubSeq(file, 1, m) /\ m \in 0..Len(file)
        BY <1>9, <1>t, <3>1 DEF PowerLoss
      <4> HIDE DEF m
      <4>2. /\ file' \in Seq(Line) /\ Len(file') = m
            /\ \A i \in 1..m : file'[i] = file[i]
        BY <1>t, <4>1, SubSeqProperties
      <4> QED
        BY <4>1, <4>2
    <3>2. CASE cut # "none" /\ cut # "line"
      <4>1. file' = Append(SubSeq(file, 1, n), Torn) /\ n < Len(file)
        BY <1>9, <3>2 DEF PowerLoss
      <4>2. \A i \in 1..n : file[i] \in Line
        BY <1>t, <4>1
      <4>3. /\ SubSeq(file, 1, n) \in Seq(Line) /\ Torn \in Line
            /\ Len(SubSeq(file, 1, n)) = n
            /\ \A i \in 1..n : SubSeq(file, 1, n)[i] = file[i]
        BY <1>t, <4>1, <4>2, SubSeqProperties, TornIsLine
      <4>4. /\ file' \in Seq(Line) /\ Len(file') = n + 1
            /\ file'[n + 1] = Torn
            /\ \A i \in 1..n : file'[i] = file[i]
        BY <4>1, <4>3, AppendProperties
      <4> QED
        BY <4>4
    <3> QED
      BY <3>1, <3>2
  <2>3. ASSUME NEW l \in 0..Len(file'), ReadableTo(file', l)
        PROVE  GoodTo(file', l)
    <3>1. l <= m /\ ReadableTo(file, l)
      BY <2>2, <2>3 DEF ReadableTo, Torn
    <3>2. l \in 0..Len(file) /\ l <= Len(file') /\ file \in Seq(Line)
      BY <1>t, <2>2, <2>3, <3>1
    <3>3. GoodTo(file, l)
      BY <3>1, <3>2 DEF SoloInv
    <3>4. \A i \in 1..l : file'[i] = file[i]
      BY <2>2, <3>1, <3>2
    <3>5. GoodTo(file, l) <=> GoodTo(file', l)
      <4> HIDE DEF SoloInv
      <4> QED
        BY <2>2, <3>2, <3>4, SamePrefix
    <3> QED
      BY <3>3, <3>5
  <2> QED
    BY <2>1, <2>3 DEF SoloInv
<1>10. CASE UNCHANGED vars
  BY <1>10 DEF vars, SoloInv
<1> QED
  BY <1>1, <1>2, <1>3, <1>4, <1>5, <1>6, <1>7, <1>8, <1>9, <1>10
  DEF Next, Append_

(* One process alone: a readable file always passes the bootstrap check,   *)
(* and is serial.                                                          *)
THEOREM OneProcessThm ==
  ASSUME OneProcess PROVE Spec => []AlwaysVerifies
<1>1. TypeOK /\ SoloInv /\ DetectInv => AlwaysVerifies
  <2> SUFFICES ASSUME TypeOK, SoloInv, DetectInv, Readable(file)
               PROVE  ValidChain(file) /\ Serial(file)
    BY DEF AlwaysVerifies
  <2>1. file \in Seq(Line) /\ ReadableTo(file, Len(file))
    BY DEF TypeOK, Readable, KeysOf, ReadableTo
  <2>2. GoodTo(file, Len(file)) /\ SerialTo(file, Len(file))
    BY <2>1 DEF SoloInv, DetectInv, SerialPrefixes
  <2> QED
    BY <2>1, <2>2, WholeFile
<1>2. TypeOK /\ SoloInv /\ [Next]_vars => SoloInv'
  BY SoloStep
<1> QED
  BY <1>1, <1>2, TypeInit, TypeStep, DetectInit, DetectStep, SoloInit,
     PTL DEF Spec

-----------------------------------------------------------------------------
(* What was reported as written.                                           *)

(* A line that is not terminated does not parse: a write is cut within it, *)
(* never just before its newline.                                          *)
LandedInv ==
  /\ landed \subseteq KeysOf(file)
  /\ ~ended => file # <<>> /\ file[Len(file)].key = NoKey

LEMMA KeysOfAppend ==
  ASSUME NEW f \in Seq(Line), NEW d \in Line
  PROVE  KeysOf(Append(f, d)) = KeysOf(f) \cup {d.key}
<1>1. /\ Append(f, d) \in Seq(Line) /\ Len(Append(f, d)) = Len(f) + 1
      /\ \A i \in 1..Len(f) : Append(f, d)[i] = f[i]
      /\ Append(f, d)[Len(f) + 1] = d
  BY AppendProperties
<1>2. /\ DOMAIN f = 1..Len(f) /\ Len(f) \in Nat
      /\ DOMAIN Append(f, d) = 1..(Len(f) + 1)
  BY <1>1
<1> HIDE DEF Line
<1>3. \A i \in 1..(Len(f) + 1) : i \in 1..Len(f) \/ i = Len(f) + 1
  BY <1>2
<1>4. Len(f) + 1 \in 1..(Len(f) + 1) /\ 1..Len(f) \subseteq 1..(Len(f) + 1)
  BY <1>2
<1> QED
  BY <1>1, <1>2, <1>3, <1>4 DEF KeysOf

LEMMA LandedStep ==
  ASSUME OneProcess, "line" \notin Cuts, TypeOK, SoloInv, LandedInv, [Next]_vars
  PROVE  LandedInv'
<1>t. /\ file \in Seq(Line) /\ Torn \in Line /\ Torn.key = NoKey
      /\ \A w \in Writers : draft[w] \in Line
  BY TornIsLine DEF TypeOK, Torn
<1>1. CASE Tick
  BY <1>1 DEF Tick, LandedInv
<1>2. ASSUME NEW p \in Processes, Bootstrap(p) \/ Crash(p)
      PROVE  LandedInv'
  BY <1>2 DEF Bootstrap, Crash, LandedInv
<1>3. ASSUME NEW w \in Writers, NEW b \in Batches, Compose(w, b)
      PROVE  LandedInv'
  BY <1>3 DEF Compose, LandedInv
<1>4. ASSUME NEW w \in Writers, Acquire(w) \/ ReadPrior(w)
      PROVE  LandedInv'
  BY <1>4 DEF Acquire, ReadPrior, Land, LandedInv
<1>5. ASSUME NEW w \in Writers, pc[w] = "writing"
      PROVE  ended
  <2>1. file # <<>> => Len(file) \in 1..Len(file)
    BY <1>t
  <2> QED
    BY <1>5, <2>1 DEF SoloInv, ReadableTo, LandedInv
<1>6. ASSUME NEW w \in Writers, WriteLine(w)
      PROVE  LandedInv'
  <2>1. /\ file' = Append(file, draft[w]) /\ ended'
        /\ landed' = landed \cup {draft[w].key}
    BY <1>5, <1>6 DEF WriteLine, Written, Land, SoloInv
  <2> QED
    BY <1>t, <2>1, KeysOfAppend DEF LandedInv
<1>7. ASSUME NEW w \in Writers, NEW cut \in Cuts, CutShort(w, cut)
      PROVE  LandedInv'
  <2>1. file' = Append(file, Torn) /\ landed' = landed
    BY <1>5, <1>7 DEF CutShort, Written
  <2>2. Len(file') = Len(file) + 1 /\ file'[Len(file) + 1] = Torn /\ file' # <<>>
    BY <1>t, <2>1, AppendProperties
  <2> QED
    BY <1>t, <2>1, <2>2, KeysOfAppend DEF LandedInv
<1>8. ASSUME NEW n \in 0..Len(file), NEW cut \in Cuts \cup {"none"},
             PowerLoss(n, cut)
      PROVE  LandedInv'
  <2>1. landed' \subseteq KeysOf(file') /\ (cut = "none" => ended')
    BY <1>8 DEF PowerLoss
  <2>2. CASE cut # "none"
    <3>1. cut # "line" /\ file' = Append(SubSeq(file, 1, n), Torn) /\ n < Len(file)
      BY <1>8, <2>2 DEF PowerLoss
    <3>2. SubSeq(file, 1, n) \in Seq(Line)
      BY <1>t, <3>1, SubSeqProperties
    <3>3. file'[Len(file')] = Torn /\ file' # <<>>
      BY <1>t, <3>1, <3>2, AppendProperties
    <3> QED
      BY <1>t, <2>1, <3>3 DEF LandedInv
  <2> QED
    BY <2>1, <2>2 DEF LandedInv
<1>9. CASE UNCHANGED vars
  BY <1>9 DEF vars, LandedInv
<1> QED
  BY <1>1, <1>2, <1>3, <1>4, <1>6, <1>7, <1>8, <1>9 DEF Next, Append_

(* One process alone: what an append reported as written is in the ledger, *)
(* unless a write is cut just before its newline (README, section 7), or   *)
(* the power loss took it.                                                 *)
THEOREM LandedThm ==
  ASSUME OneProcess, "line" \notin Cuts PROVE Spec => []LandedIsThere
<1>1. Init => LandedInv
  BY DEF Init, LandedInv, KeysOf
<1>2. LandedInv => LandedIsThere
  BY DEF LandedInv, LandedIsThere
<1>3. TypeOK /\ SoloInv /\ [Next]_vars => SoloInv'
  BY SoloStep
<1>4. TypeOK /\ SoloInv /\ LandedInv /\ [Next]_vars => LandedInv'
  BY LandedStep
<1> QED
  BY <1>1, <1>2, <1>3, <1>4, TypeInit, TypeStep, SoloInit, PTL DEF Spec

-----------------------------------------------------------------------------
(* The writers of one process implement EventLog.                          *)

(* A torn line is the last one, since nobody writes after it; a draft is   *)
(* stamped by the clock.                                                   *)
OnlyLastTorn(f) == \A i \in 1 .. Len(f) - 1 : f[i].key # NoKey

LogInv ==
  /\ OnlyLastTorn(file)
  /\ \A w \in Writers : draft[w].ts \in 0 .. MaxClock

Entry(line) == [key |-> line.key, ts |-> line.ts]

LEMMA ReadableAll ==
  ASSUME NEW f \in Seq(Line)
  PROVE  Readable(f) <=> \A i \in 1 .. Len(f) : f[i].key # NoKey
BY DEF Readable, KeysOf

(* What a file that ends in a torn line, or in none, stands for.           *)
LEMMA IntactLines ==
  ASSUME NEW f \in Seq(Line), OnlyLastTorn(f)
  PROVE  /\ Intact(f) \in 0 .. Len(f)
         /\ ~Readable(f) => Len(f) = Intact(f) + 1 /\ f[Len(f)].key = NoKey
         /\ \A i \in 1 .. Intact(f) : f[i].key # NoKey /\ f[i] \in Line
         /\ Entries(f) \in Seq([key : Keys \cup {NoKey}, ts : Nat]) /\ Len(Entries(f)) = Intact(f)
         /\ DOMAIN Entries(f) = 1 .. Intact(f)
<1>1. Len(f) \in Nat /\ f \in Seq(Line)
      /\ \A i \in 1 .. Len(f) : f[i] \in Line
  OBVIOUS
<1>2. ASSUME ~Readable(f)
      PROVE  Len(f) >= 1 /\ f[Len(f)].key = NoKey
  <2>1. PICK i \in 1 .. Len(f) : f[i].key = NoKey
    BY <1>1, <1>2, ReadableAll
  <2>2. i = Len(f)
    BY <1>1, <2>1 DEF OnlyLastTorn
  <2> QED
    BY <1>1, <2>1, <2>2
<1>3. Intact(f) \in 0 .. Len(f) /\ (~Readable(f) => Len(f) = Intact(f) + 1)
  BY <1>1, <1>2 DEF Intact
<1>4. \A i \in 1 .. Intact(f) : f[i].key # NoKey /\ f[i] \in Line
  <2> SUFFICES ASSUME NEW i \in 1 .. Intact(f)
               PROVE  f[i].key # NoKey /\ f[i] \in Line
    OBVIOUS
  <2>1. CASE Readable(f)
    BY <1>1, <2>1, ReadableAll DEF Intact
  <2>2. CASE ~Readable(f)
    BY <1>1, <1>3, <2>2 DEF OnlyLastTorn
  <2> QED
    BY <2>1, <2>2
<1>5. Entries(f) \in [1 .. Intact(f) -> [key : Keys \cup {NoKey}, ts : Nat]]
  BY <1>4 DEF Entries, Line
<1>6. Intact(f) \in Nat
  BY <1>1, <1>3
<1>7. /\ Entries(f) \in Seq([key : Keys \cup {NoKey}, ts : Nat])
      /\ DOMAIN Entries(f) = 1 .. Intact(f) /\ Len(Entries(f)) = Intact(f)
  <2> DEFINE S == [key : Keys \cup {NoKey}, ts : Nat]
  <2> HIDE DEF S
  <2>1. Entries(f) \in [1 .. Intact(f) -> S]
    BY <1>5 DEF S
  <2>2. Entries(f) \in Seq(S)
    BY <1>6, <2>1, SeqDef
  <2>3. DOMAIN Entries(f) = 1 .. Intact(f)
    BY <2>1
  <2> QED
    BY <1>6, <2>2, <2>3, LenProperties DEF S
<1> QED
  BY <1>2, <1>3, <1>4, <1>7

LEMMA RecordedKeys ==
  ASSUME NEW f \in Seq(Line), OnlyLastTorn(f)
  PROVE  Log!Recorded(Entries(f)) = KeysOf(f) \ {NoKey}
<1>1. DOMAIN Entries(f) = 1 .. Intact(f) /\ DOMAIN f = 1 .. Len(f) /\ Len(f) \in Nat
      /\ Intact(f) \in 0 .. Len(f)
  BY IntactLines
<1>2. \A i \in 1 .. Intact(f) : Entries(f)[i].key = f[i].key /\ f[i].key # NoKey
  BY IntactLines DEF Entries
<1>3. \A i \in 1 .. Len(f) : f[i].key # NoKey => i \in 1 .. Intact(f)
  <2>1. CASE Readable(f)
    BY <2>1 DEF Intact
  <2>2. CASE ~Readable(f)
    <3>1. Len(f) = Intact(f) + 1 /\ f[Len(f)].key = NoKey
      BY <2>2, IntactLines
    <3> QED
      BY <1>1, <3>1
  <2> QED
    BY <2>1, <2>2
<1> QED
  BY <1>1, <1>2, <1>3 DEF Log!Recorded, KeysOf

LEMMA LogStep ==
  ASSUME OneProcess, "line" \notin Cuts, TypeOK, SoloInv, LandedInv, LogInv, [Next]_vars
  PROVE  LogInv'
<1>t. /\ file \in Seq(Line) /\ Torn \in Line /\ Len(file) \in Nat
      /\ \A w \in Writers : draft[w] \in Line
      /\ draft \in [Writers -> Line] /\ stamp \in [Writers -> 0 .. MaxClock]
  BY TornIsLine DEF TypeOK
<1>1. ASSUME UNCHANGED <<file, draft>>
      PROVE  LogInv'
  BY <1>1 DEF LogInv, OnlyLastTorn
<1>2. ASSUME NEW w \in Writers, ReadPrior(w)
      PROVE  LogInv'
  BY <1>t, <1>2 DEF ReadPrior, LogInv, OnlyLastTorn
<1>3. ASSUME NEW w \in Writers, pc[w] = "writing", NEW d \in Line,
             file' = Written(file, ended, d), UNCHANGED draft
      PROVE  LogInv'
  <2>1. /\ ended /\ \A i \in 1 .. Len(file) : file[i].key # NoKey
    BY <1>t, <1>3 DEF SoloInv, ReadableTo, LandedInv
  <2>2. /\ Len(file') = Len(file) + 1
        /\ \A i \in 1 .. Len(file) : file'[i] = file[i]
    BY <1>t, <1>3, <2>1, AppendProperties DEF Written
  <2>3. \A i \in 1 .. Len(file') - 1 : file'[i].key # NoKey
    BY <1>t, <2>1, <2>2
  <2> QED
    BY <1>3, <2>3 DEF LogInv, OnlyLastTorn
<1>4. ASSUME NEW w \in Writers, WriteLine(w) \/ \E cut \in Cuts : CutShort(w, cut)
      PROVE  LogInv'
  BY <1>t, <1>3, <1>4 DEF WriteLine, CutShort
<1>5. ASSUME NEW n \in 0 .. Len(file), NEW cut \in Cuts \cup {"none"}, PowerLoss(n, cut)
      PROVE  LogInv'
  <2>1. n < Len(file) /\ UNCHANGED draft
    BY <1>5 DEF PowerLoss
  <2>2. /\ SubSeq(file, 1, n) \in Seq(Line) /\ Len(SubSeq(file, 1, n)) = n
        /\ \A i \in 1 .. n : SubSeq(file, 1, n)[i] = file[i]
    <3>1. \A i \in 1 .. n : file[i] \in Line
      BY <1>t, <2>1
    <3> QED
      BY <1>t, <2>1, <3>1, SubSeqProperties
  <2>3. \A i \in 1 .. n : i \in 1 .. Len(file) - 1
    BY <1>t, <2>1
  <2>4. CASE cut = "none"
    <3>1. file' = SubSeq(file, 1, n)
      BY <1>5, <2>4 DEF PowerLoss
    <3> QED
      BY <1>t, <2>1, <2>2, <2>3, <3>1 DEF LogInv, OnlyLastTorn
  <2>5. CASE cut # "none"
    <3>1. file' = Append(SubSeq(file, 1, n), Torn)
      BY <1>5, <2>5 DEF PowerLoss
    <3>2. Len(file') = n + 1 /\ \A i \in 1 .. n : file'[i] = file[i]
      BY <1>t, <2>2, <3>1, AppendProperties
    <3> QED
      BY <1>t, <2>1, <2>3, <3>2 DEF LogInv, OnlyLastTorn
  <2> QED
    BY <2>4, <2>5
<1>6. CASE Tick \/ UNCHANGED vars
  BY <1>1, <1>6 DEF Tick, vars
<1>7. ASSUME NEW p \in Processes, Bootstrap(p) \/ Crash(p)
      PROVE  LogInv'
  BY <1>1, <1>7 DEF Bootstrap, Crash
<1>8. ASSUME NEW w \in Writers, NEW b \in Batches, Compose(w, b) \/ Acquire(w)
      PROVE  LogInv'
  BY <1>1, <1>8 DEF Compose, Acquire
<1>9. ASSUME NEW w \in Writers, Acquire(w)
      PROVE  LogInv'
  BY <1>1, <1>9 DEF Acquire
<1> QED
  BY <1>2, <1>4, <1>5, <1>6, <1>7, <1>8, <1>9 DEF Next, Append_

(* What a writer has drafted under the lock still fits when it writes.     *)
LEMMA DraftFits ==
  ASSUME TypeOK, SoloInv, DetectInv, LandedInv, LogInv, NEW w \in Writers, pc[w] = "writing"
  PROVE  /\ Readable(file) /\ ended
         /\ draft[w].key = Head(todo[w]) /\ draft[w].key \in Keys \ KeysOf(file)
         /\ draft[w].ts \in 0 .. MaxClock
         /\ file # <<>> => file[Len(file)].ts <= draft[w].ts
<1>1. file \in Seq(Line) /\ Len(file) \in Nat /\ draft[w] \in Line
      /\ todo[w] \in Seq(Keys) /\ todo[w] # <<>>
  BY DEF TypeOK
<1>2. /\ ReadableTo(file, Len(file)) /\ GoodTo(file, Len(file))
      /\ draft[w].prior = PriorHash(file, Len(file))
      /\ draft[w].key = Head(todo[w])
  BY <1>1 DEF SoloInv
<1>3. PICK n \in 0 .. Len(file) :
        /\ draft[w].prior = PriorHash(file, n)
        /\ \A i \in 1 .. n : file[i].key # draft[w].key /\ file[i].ts <= draft[w].ts
  BY <1>2 DEF DetectInv, Extends
<1>4. SerialTo(file, Len(file))
  BY <1>1, <1>2 DEF DetectInv, SerialPrefixes
<1>5. n = Len(file)
  BY <1>1, <1>2, <1>3, <1>4, LinksDistinct
<1>6. Readable(file) /\ DOMAIN file = 1 .. Len(file)
  BY <1>1, <1>2, ReadableAll DEF ReadableTo
<1>7. draft[w].key \in Keys \ KeysOf(file)
  BY <1>1, <1>2, <1>3, <1>5, <1>6, HeadTail DEF KeysOf
<1>8. file # <<>> => Len(file) \in 1 .. Len(file)
  BY <1>1
<1>9. ended
  BY <1>2, <1>8 DEF LandedInv, ReadableTo
<1> QED
  BY <1>2, <1>3, <1>5, <1>6, <1>7, <1>8, <1>9 DEF LogInv

(* A line that is appended is one entry more, a torn one makes the log     *)
(* unreadable, and both leave the entries in front alone.                  *)
LEMMA EntryAppended ==
  ASSUME NEW f \in Seq(Line), Readable(f), NEW d \in Line, NEW g, g = Append(f, d)
  PROVE  /\ d.key # NoKey => Readable(g) /\ Entries(g) = Append(Entries(f), Entry(d))
         /\ d.key = NoKey => ~Readable(g) /\ Entries(g) = Entries(f)
<1> DEFINE S == [key : Keys \cup {NoKey}, ts : Nat]
<1>1. /\ Len(f) \in Nat /\ Len(g) = Len(f) + 1 /\ g \in Seq(Line)
      /\ \A i \in 1 .. Len(f) : g[i] = f[i]
      /\ g[Len(f) + 1] = d
  BY AppendProperties
<1>2. Intact(f) = Len(f) /\ \A i \in 1 .. Len(f) : f[i].key # NoKey
  BY <1>1, ReadableAll DEF Intact
<1>3. Readable(g) <=> d.key # NoKey
  <2>1. Readable(g) <=> \A i \in 1 .. Len(f) + 1 : g[i].key # NoKey
    BY <1>1, ReadableAll
  <2>2. \A i \in 1 .. Len(f) + 1 : i \in 1 .. Len(f) \/ i = Len(f) + 1
    BY <1>1
  <2>3. Len(f) + 1 \in 1 .. Len(f) + 1
    BY <1>1
  <2> QED
    BY <1>1, <1>2, <2>1, <2>2, <2>3
<1>4. OnlyLastTorn(f) /\ OnlyLastTorn(g)
  BY <1>1, <1>2 DEF OnlyLastTorn
<1>5. /\ Entries(f) \in Seq(S) /\ Len(Entries(f)) = Len(f)
      /\ Entries(g) \in Seq(S) /\ Len(Entries(g)) = Intact(g)
  BY <1>1, <1>2, <1>4, IntactLines
<1>6. \A i \in 1 .. Len(f) : Entries(f)[i] = Entry(f[i])
  BY <1>2 DEF Entries, Entry
<1>7. \A i \in 1 .. Intact(g) : Entries(g)[i] = Entry(g[i])
  BY DEF Entries, Entry
<1>8. Entry(d) \in S
  BY DEF Entry, Line
<1> HIDE DEF S
<1>9. ASSUME d.key # NoKey
      PROVE  Entries(g) = Append(Entries(f), Entry(d))
  <2>1. Intact(g) = Len(f) + 1
    BY <1>1, <1>3, <1>9 DEF Intact
  <2>2. /\ Append(Entries(f), Entry(d)) \in Seq(S)
        /\ Len(Append(Entries(f), Entry(d))) = Len(f) + 1
        /\ \A i \in 1 .. Len(f) : Append(Entries(f), Entry(d))[i] = Entries(f)[i]
        /\ Append(Entries(f), Entry(d))[Len(f) + 1] = Entry(d)
    BY <1>5, <1>8, AppendProperties
  <2>3. \A i \in 1 .. Len(Entries(g)) : Entries(g)[i] = Append(Entries(f), Entry(d))[i]
    BY <1>1, <1>5, <1>6, <1>7, <2>1, <2>2
  <2> QED
    BY <1>5, <2>1, <2>2, <2>3, SeqEqual
<1>10. ASSUME d.key = NoKey
       PROVE  Entries(g) = Entries(f)
  <2>1. Intact(g) = Len(f)
    BY <1>1, <1>3, <1>10 DEF Intact
  <2>2. \A i \in 1 .. Len(Entries(g)) : Entries(g)[i] = Entries(f)[i]
    BY <1>1, <1>5, <1>6, <1>7, <2>1
  <2> QED
    BY <1>5, <2>1, <2>2, SeqEqual
<1> QED
  BY <1>3, <1>9, <1>10

(* A power loss leaves some of the first entries.                          *)
LEMMA EntriesLost ==
  ASSUME NEW f \in Seq(Line), NEW g \in Seq(Line), OnlyLastTorn(f), NEW n \in 0 .. Len(f) - 1,
         \A i \in 1 .. n : g[i] = f[i],
         Len(g) = n \/ (Len(g) = n + 1 /\ g[n + 1].key = NoKey)
  PROVE  \E m \in 0 .. Len(Entries(f)) : Entries(g) = SubSeq(Entries(f), 1, m)
<1> DEFINE S == [key : Keys \cup {NoKey}, ts : Nat]
<1>1. Len(f) \in Nat /\ n \in Nat /\ n < Len(f)
      /\ \A i \in 1 .. n : i \in 1 .. Len(f) - 1 /\ i \in 1 .. Len(f) /\ f[i] \in Line
  OBVIOUS
<1>2. \A i \in 1 .. n : g[i].key # NoKey
  BY <1>1 DEF OnlyLastTorn
<1>3. OnlyLastTorn(g)
  BY <1>1, <1>2 DEF OnlyLastTorn
<1>4. Intact(g) = n
  <2>1. CASE Len(g) = n
    <3>1. Readable(g)
      BY <1>2, <2>1, ReadableAll
    <3> QED
      BY <2>1, <3>1 DEF Intact
  <2>2. CASE Len(g) = n + 1 /\ g[n + 1].key = NoKey
    <3>1. n + 1 \in 1 .. Len(g)
      BY <1>1, <2>2
    <3>2. ~Readable(g)
      BY <2>2, <3>1, ReadableAll
    <3> QED
      BY <1>1, <2>2, <3>2 DEF Intact
  <2> QED
    BY <2>1, <2>2
<1>5. Intact(f) \in Nat /\ n <= Intact(f)
  BY <1>1 DEF Intact
<1>6. /\ Entries(f) \in Seq(S) /\ Len(Entries(f)) = Intact(f)
      /\ Entries(g) \in Seq(S) /\ Len(Entries(g)) = n
  BY <1>3, <1>4, IntactLines
<1>7. \A i \in 1 .. n : Entries(g)[i] = Entries(f)[i]
  <2>1. \A i \in 1 .. n : i \in 1 .. Intact(f) /\ i \in 1 .. Intact(g)
    BY <1>1, <1>4, <1>5
  <2> QED
    BY <2>1 DEF Entries
<1> HIDE DEF S
<1>8. \A i \in 1 .. n : Entries(f)[i] \in S
  <2>1. \A i \in 1 .. n : i \in 1 .. Len(Entries(f))
    BY <1>1, <1>5, <1>6
  <2> QED
    BY <1>6, <2>1, ElementOfSeq
<1>9. /\ SubSeq(Entries(f), 1, n) \in Seq(S) /\ Len(SubSeq(Entries(f), 1, n)) = n
      /\ \A i \in 1 .. n : SubSeq(Entries(f), 1, n)[i] = Entries(f)[i]
  BY <1>1, <1>8, SubSeqProperties
<1>10. Entries(g) = SubSeq(Entries(f), 1, n)
  BY <1>6, <1>7, <1>9, SeqEqual
<1> QED
  BY <1>1, <1>5, <1>6, <1>10

(* Every step appends an entry, acknowledges one, tears the last line,     *)
(* loses entries, or is none of the log's business.                        *)
LEMMA LogNext ==
  ASSUME OneProcess, "line" \notin Cuts, TypeOK, SoloInv, DetectInv, LandedInv, LogInv,
         TypeOK', LogInv', [Next]_vars
  PROVE  [Log!Next]_(Log!vars)
<1>t. /\ file \in Seq(Line) /\ file' \in Seq(Line) /\ Torn \in Line /\ Len(file) \in Nat
      /\ Torn.key = NoKey /\ OnlyLastTorn(file) /\ OnlyLastTorn(file')
      /\ landed \subseteq Keys /\ NoKey \notin Keys
  BY TornIsLine, LedgerAssumption DEF TypeOK, LogInv, Torn
<1>1. ASSUME UNCHANGED <<file, landed>>
      PROVE  UNCHANGED Log!vars
  BY <1>1 DEF Log!vars
<1>2. ASSUME Tick \/ UNCHANGED vars \/ \E p \in Processes : Bootstrap(p) \/ Crash(p)
      PROVE  UNCHANGED Log!vars
  BY <1>1, <1>2 DEF Tick, vars, Bootstrap, Crash
<1>3. ASSUME NEW w \in Writers, Acquire(w) \/ \E b \in Batches : Compose(w, b)
      PROVE  UNCHANGED Log!vars
  BY <1>1, <1>3 DEF Acquire, Compose
<1>4. ASSUME NEW w \in Writers, ReadPrior(w)
      PROVE  Log!Acknowledge \/ UNCHANGED Log!vars
  <2>1. CASE UNCHANGED landed
    BY <1>1, <1>4, <2>1 DEF ReadPrior
  <2>2. CASE ~UNCHANGED landed
    <3>1. /\ Readable(file) /\ file' = file /\ Head(todo[w]) \in KeysOf(file)
          /\ landed' = landed \cup {Head(todo[w])}
      BY <1>4, <2>2 DEF ReadPrior, Land
    <3>2. Head(todo[w]) \in Log!Recorded(Entries(file))
      BY <1>t, <3>1, RecordedKeys DEF Readable
    <3> QED
      BY <3>1, <3>2 DEF Log!Acknowledge
  <2> QED
    BY <2>1, <2>2
<1>5. ASSUME NEW w \in Writers, WriteLine(w)
      PROVE  Log!Record
  <2>0. pc[w] = "writing" /\ draft[w] \in Line
    BY <1>5 DEF WriteLine, TypeOK
  <2> DEFINE k == draft[w].key
             t == draft[w].ts
  <2>1. /\ Readable(file) /\ ended /\ k = Head(todo[w]) /\ k \in Keys \ KeysOf(file)
        /\ t \in 0 .. MaxClock /\ (file # <<>> => file[Len(file)].ts <= t)
    BY <2>0, DraftFits
  <2>2. file' = Append(file, draft[w]) /\ landed' = landed \cup {k}
    BY <1>5, <2>1 DEF WriteLine, Written, Land
  <2>3. /\ Readable(file')
        /\ Entries(file') = Append(Entries(file), [key |-> k, ts |-> t])
    BY <1>t, <2>0, <2>1, <2>2, EntryAppended DEF Entry
  <2>4. k \in Keys \ Log!Recorded(Entries(file))
    BY <1>t, <2>1, RecordedKeys
  <2>5. Entries(file) # <<>> => Entries(file)[Len(Entries(file))].ts <= t
    <3>1. Intact(file) = Len(file)
      BY <2>1 DEF Intact
    <3>2. Len(Entries(file)) = Len(file) /\ DOMAIN Entries(file) = 1 .. Len(file)
      BY <1>t, <3>1, IntactLines
    <3>3. CASE Len(file) = 0
      <4>1. Entries(file) \in Seq([key : Keys \cup {NoKey}, ts : Nat])
        BY <1>t, IntactLines
      <4>2. Entries(file) = <<>>
        BY <3>2, <3>3, <4>1, EmptySeq
      <4> QED
        BY <4>2
    <3>4. CASE Len(file) # 0
      <4>1. Len(file) \in 1 .. Len(file) /\ file # <<>>
        BY <1>t, <3>4
      <4>2. Entries(file)[Len(file)].ts = file[Len(file)].ts
        BY <3>1, <4>1 DEF Entries
      <4> QED
        BY <2>1, <3>2, <4>1, <4>2
    <3> QED
      BY <3>3, <3>4
  <2> HIDE DEF k, t
  <2> QED
    BY <2>1, <2>2, <2>3, <2>4, <2>5 DEF Log!Record
<1>6. ASSUME NEW w \in Writers, NEW cut \in Cuts, CutShort(w, cut)
      PROVE  Log!Spoil
  <2>1. Readable(file) /\ ended
    BY <1>6, DraftFits DEF CutShort
  <2>2. file' = Append(file, Torn) /\ landed' = landed
    BY <1>6, <2>1 DEF CutShort, Written
  <2>3. ~Readable(file') /\ Entries(file') = Entries(file)
    BY <1>t, <2>1, <2>2, EntryAppended
  <2> QED
    BY <2>1, <2>2, <2>3 DEF Log!Spoil, Readable
<1>7. ASSUME NEW n \in 0 .. Len(file), NEW cut \in Cuts \cup {"none"}, PowerLoss(n, cut)
      PROVE  Log!Lose
  <2>1. n \in 0 .. Len(file) - 1 /\ landed' = landed \cap KeysOf(file')
    BY <1>t, <1>7 DEF PowerLoss
  <2>2. landed' = landed \cap Log!Recorded(Entries(file'))
    BY <1>t, <2>1, RecordedKeys
  <2>3. /\ SubSeq(file, 1, n) \in Seq(Line) /\ Len(SubSeq(file, 1, n)) = n
        /\ \A i \in 1 .. n : SubSeq(file, 1, n)[i] = file[i]
    <3>1. \A i \in 1 .. n : file[i] \in Line
      BY <1>t, <2>1
    <3> QED
      BY <1>t, <2>1, <3>1, SubSeqProperties
  <2>4. /\ \A i \in 1 .. n : file'[i] = file[i]
        /\ Len(file') = n \/ (Len(file') = n + 1 /\ file'[n + 1].key = NoKey)
    <3>1. CASE cut = "none"
      BY <1>7, <2>3, <3>1 DEF PowerLoss
    <3>2. CASE cut # "none"
      <4>1. file' = Append(SubSeq(file, 1, n), Torn)
        BY <1>7, <3>2 DEF PowerLoss
      <4> QED
        BY <1>t, <2>3, <4>1, AppendProperties
    <3> QED
      BY <3>1, <3>2
  <2>5. \E m \in 0 .. Len(Entries(file)) : Entries(file') = SubSeq(Entries(file), 1, m)
    BY <1>t, <2>1, <2>4, EntriesLost
  <2> QED
    BY <2>2, <2>5 DEF Log!Lose, Readable
<1> QED
  BY <1>2, <1>3, <1>4, <1>5, <1>6, <1>7 DEF Next, Append_, Log!Next

(* To the writers of one process the ledger is a log of distinct keys that *)
(* each append extends at once and that only a power loss shortens, though *)
(* reading, checking and writing are separate steps of racing threads that *)
(* may be cut short and restarted between any two.                         *)
THEOREM LogThm == ASSUME OneProcess, "line" \notin Cuts PROVE Spec => ImplementsLog
<1>1. Init => Log!Init /\ LandedInv /\ LogInv
  <2> SUFFICES ASSUME Init PROVE Log!Init /\ LandedInv /\ LogInv
    OBVIOUS
  <2>1. LandedInv /\ Readable(file) /\ Intact(file) = 0
    BY DEF Init, LandedInv, KeysOf, Readable, Intact
  <2>2. LogInv
    BY LedgerAssumption DEF Init, LogInv, OnlyLastTorn, Torn
  <2>3. Entries(file) = <<>>
    <3>1. Entries(file) \in Seq([key : Keys \cup {NoKey}, ts : Nat])
          /\ Len(Entries(file)) = 0
      BY <2>1, <2>2, TypeInit, IntactLines DEF LogInv, TypeOK
    <3> QED
      BY <3>1, EmptySeq
  <2> QED
    BY <2>1, <2>2, <2>3 DEF Init, Log!Init, Readable
<1>2. TypeOK /\ SoloInv /\ [Next]_vars => SoloInv'
  BY SoloStep
<1>3. TypeOK /\ SoloInv /\ LandedInv /\ [Next]_vars => LandedInv'
  BY LandedStep
<1>4. TypeOK /\ SoloInv /\ LandedInv /\ LogInv /\ [Next]_vars => LogInv'
  BY LogStep
<1>5. /\ TypeOK /\ SoloInv /\ DetectInv /\ LandedInv /\ LogInv
      /\ TypeOK' /\ LogInv' /\ [Next]_vars
      => [Log!Next]_(Log!vars)
  BY LogNext
<1> QED
  BY <1>1, <1>2, <1>3, <1>4, <1>5, TypeInit, TypeStep, SoloInit, DetectInit, DetectStep, PTL
     DEF Spec, ImplementsLog, Log!Spec
=============================================================================
