---------------------- MODULE ProviderDispatch_proofs ----------------------
(***************************************************************************)
(* Proofs about the dispatch to the model providers, for every number of   *)
(* dispatches and candidates, every chain, also one that lists a candidate *)
(* several times, every request, every number of attempts and every        *)
(* threshold of a breaker:                                                 *)
(*                                                                         *)
(*   TypeCorrect     TypeOK is invariant                                   *)
(*   EffectiveWhole  the effective chain keeps every configured candidate, *)
(*                   adds none but the bound one, and repeats none that    *)
(*                   the configured chain does not                         *)
(*   BudgetThm       a candidate outside the circle of the chain is tried  *)
(*                   MaxAttempts times at most                             *)
(*   UnrepeatedThm   so is every candidate if the configured chain lists   *)
(*                   none twice                                            *)
(*   OpenThm         an open breaker lets nobody new through               *)
(*   ExhaustedThm    a chain is exhausted only when all of it was tried,   *)
(*                   unable or behind an open breaker                      *)
(*   CostThm         a dispatch is charged once, for what it returns       *)
(*   CircleThm       a chain that lists a candidate twice, and nothing     *)
(*                   that may be tried, is never exhausted                 *)
(***************************************************************************)
EXTENDS ProviderDispatch, SequenceTheorems, FiniteSetTheorems, WellFoundedInduction, TLAPS

-----------------------------------------------------------------------------
(* Places in a chain.                                                      *)

LEMMA Least ==
  ASSUME NEW T, T \subseteq Nat, T # {}
  PROVE  \E x \in T : \A y \in T : x <= y
<1> DEFINE Upto(x) == 0 .. x
           sets == {Upto(x) : x \in T}
           Less == StrictSubsetOrdering(Nat)
<1>1. \A x \in Nat : Upto(x) \in SUBSET Nat /\ IsFiniteSet(Upto(x))
  BY FS_Interval
<1>2. IsWellFoundedOn(Less, FiniteSubsetsOf(Nat))
  BY FS_StrictSubsetOrderingWellFounded
<1>3. sets \subseteq FiniteSubsetsOf(Nat) /\ sets # {}
  BY <1>1 DEF FiniteSubsetsOf
<1>4. \A x, y \in Nat : y < x => <<Upto(y), Upto(x)>> \in Less
  <2> TAKE x, y \in Nat
  <2> HAVE y < x
  <2>1. Upto(y) \subseteq Upto(x) /\ x \in Upto(x) /\ x \notin Upto(y)
    OBVIOUS
  <2> HIDE DEF Upto
  <2> QED
    BY <1>1, <2>1 DEF StrictSubsetOrdering
<1> HIDE DEF Less, Upto
<1>5. PICK s \in sets : \A t \in sets : <<t, s>> \notin Less
  <2> HIDE DEF sets
  <2> QED
    BY <1>2, <1>3, WFMin
<1>6. PICK x \in T : s = Upto(x)
  OBVIOUS
<1>7. \A y \in T : ~(y < x)
  BY <1>4, <1>5, <1>6
<1> QED
  BY <1>7

(* The place that is found is the first one.                               *)
LEMMA Positioned ==
  ASSUME NEW S, NEW ch \in Seq(S), NEW k \in 1 .. Len(ch)
  PROVE  /\ Position(ch, ch[k]) \in 1 .. k
         /\ ch[Position(ch, ch[k])] = ch[k]
         /\ \A j \in 1 .. Position(ch, ch[k]) - 1 : ch[j] # ch[k]
<1> DEFINE places == {i \in 1 .. Len(ch) : ch[i] = ch[k]}
<1>1. DOMAIN ch = 1 .. Len(ch) /\ Len(ch) \in Nat
  BY LenProperties
<1>2. PICK x \in places : \A y \in places : x <= y
  <2>1. places \subseteq Nat /\ k \in places
    BY <1>1
  <2> HIDE DEF places
  <2> QED
    BY <2>1, Least
<1>3. x \in DOMAIN ch /\ ch[x] = ch[k] /\ \A j \in 1 .. x - 1 : ch[j] # ch[k]
  BY <1>1, <1>2
<1> DEFINE P == Position(ch, ch[k])
<1>4. P \in DOMAIN ch /\ ch[P] = ch[k] /\ \A j \in 1 .. P - 1 : ch[j] # ch[k]
  BY <1>3 DEF Position
<1>5. P <= k
  <2> SUFFICES ASSUME P > k
               PROVE  FALSE
    BY <1>1, <1>4
  <2> QED
    BY <1>1, <1>4
<1> QED
  BY <1>1, <1>4, <1>5

(* A candidate whose first place is k is at no place before it.            *)
LEMMA FirstPlace ==
  ASSUME NEW S, NEW ch \in Seq(S), NEW k \in 1 .. Len(ch),
         \A i \in 1 .. k : Position(ch, ch[i]) = i
  PROVE  \A i \in 1 .. k - 1 : ch[i] # ch[k]
<1> SUFFICES ASSUME NEW i \in 1 .. k - 1, ch[i] = ch[k]
             PROVE  FALSE
  OBVIOUS
<1>1. Position(ch, ch[i]) = i /\ Position(ch, ch[k]) = k
  BY LenProperties
<1> QED
  BY <1>1

(* No circle where every candidate has one place.                          *)
LEMMA NoCircle ==
  ASSUME NEW S, NEW ch \in Seq(S), \A i \in 1 .. Len(ch) : Position(ch, ch[i]) = i
  PROVE  Circle(ch) = {}
<1>1. DOMAIN ch = 1 .. Len(ch) /\ Len(ch) \in Nat
  BY LenProperties
<1>2. \A k, m \in 1 .. Len(ch) : ~(Position(ch, ch[k]) <= m /\ m < k)
  BY <1>1
<1> QED
  BY <1>1, <1>2 DEF Circle

(* The next place holds a candidate from before: between the two, the      *)
(* circle.                                                                 *)
LEMMA InCircle ==
  ASSUME NEW S, NEW ch \in Seq(S), NEW k \in 1 .. Len(ch) - 1,
         \A i \in 1 .. k : Position(ch, ch[i]) = i,
         NEW m \in 1 .. k, Position(ch, ch[k + 1]) <= m
  PROVE  ch[m] \in Circle(ch)
<1>1. DOMAIN ch = 1 .. Len(ch) /\ Len(ch) \in Nat
  BY LenProperties
<1>2. m \in DOMAIN ch /\ k + 1 \in DOMAIN ch /\ m < k + 1 /\ (k + 1) - 1 = k
  BY <1>1
<1> QED
  BY <1>2 DEF Circle

-----------------------------------------------------------------------------
(* Chains.                                                                 *)

(* A chain has every configured candidate, and lists one twice only where  *)
(* the configured chain does.                                              *)
Whole(ch) ==
  /\ ch \in Seq(Candidates)
  /\ Len(ch) \in Nat \ {0}
  /\ \A b \in 1 .. Len(BaseChain) : \E i \in 1 .. Len(ch) : ch[i] = BaseChain[b]
  /\ \A i, j \in 1 .. Len(ch) :
       i # j /\ ch[i] = ch[j] =>
         \E k, l \in 1 .. Len(BaseChain) : k # l /\ BaseChain[k] = ch[i] /\ BaseChain[l] = ch[i]

LEMMA BaseWhole == Whole(BaseChain)
<1>1. BaseChain \in Seq(Candidates) /\ BaseChain # <<>>
  BY ChainAssumption
<1>2. Len(BaseChain) \in Nat \ {0}
  BY <1>1, EmptySeq, LenProperties
<1> QED
  BY <1>1, <1>2 DEF Whole

(* What is left of a chain without p comes from places of its own, which   *)
(* are those of the other candidates.                                      *)
Left(ch, p, n, at) ==
  /\ Without(ch, p) = [m \in 1 .. n |-> ch[at[m]]]
  /\ \A m, l \in 1 .. n : at[m] = at[l] => m = l
  /\ \A i \in 1 .. Len(ch) : ch[i] # p <=> \E m \in 1 .. n : at[m] = i

LEMMA WithoutPlaces ==
  ASSUME NEW S, NEW ch \in Seq(S), NEW p
  PROVE  \E n \in Nat : \E at \in [1 .. n -> 1 .. Len(ch)] : Left(ch, p, n, at)
<1> DEFINE keep == {i \in 1 .. Len(ch) : ch[i] # p}
           n == Cardinality(keep)
           upto(i) == {j \in keep : j <= i}
           rank == [i \in keep |-> Cardinality(upto(i))]
           at == [m \in 1 .. n |-> CHOOSE i \in keep : rank[i] = m]
<1>1. DOMAIN ch = 1 .. Len(ch) /\ Len(ch) \in Nat
  BY LenProperties
<1>2. keep \subseteq Nat /\ IsFiniteSet(keep) /\ n \in Nat
  <2>1. IsFiniteSet(1 .. Len(ch))
    BY <1>1, FS_Interval
  <2>2. IsFiniteSet(keep)
    BY <2>1, FS_Subset
  <2> QED
    BY <1>1, <2>2, FS_CardinalityType
<1>3. Without(ch, p) = [m \in 1 .. n |-> ch[at[m]]]
  <2>1. Without(ch, p) = [m \in 1 .. n |-> ch[CHOOSE i \in keep : Cardinality(upto(i)) = m]]
    BY <1>1 DEF Without
  <2>2. \A m \in 1 .. n : (CHOOSE i \in keep : Cardinality(upto(i)) = m) = at[m]
    <3> TAKE m \in 1 .. n
    <3>1. \A i \in keep : rank[i] = Cardinality(upto(i))
      OBVIOUS
    <3>2. at[m] = CHOOSE i \in keep : rank[i] = m
      OBVIOUS
    <3> HIDE DEF rank, keep, upto, at, n
    <3> QED
      BY <3>1, <3>2
  <2> HIDE DEF at, n, keep, upto
  <2> QED
    BY <2>1, <2>2
<1>4. \A i \in keep : upto(i) \subseteq keep /\ i \in upto(i) /\ rank[i] = Cardinality(upto(i))
  BY <1>2
<1>5. rank \in Injection(keep, 1 .. n)
  <2>1. \A i \in keep : rank[i] \in 1 .. n
    <3> TAKE i \in keep
    <3> HIDE DEF keep, upto, rank, n
    <3>1. IsFiniteSet(upto(i)) /\ Cardinality(upto(i)) <= Cardinality(keep)
      BY <1>2, <1>4, FS_Subset
    <3>2. Cardinality(upto(i)) \in Nat /\ Cardinality(upto(i)) # 0
      BY <1>4, <3>1, FS_CardinalityType, FS_EmptySet
    <3> QED
      BY <1>2, <1>4, <3>1, <3>2 DEF n
  <2>2. ASSUME NEW i \in keep, NEW j \in keep, i < j
        PROVE  rank[i] # rank[j]
    <3>1. upto(i) \subseteq upto(j) /\ j \notin upto(i)
      BY <1>2, <2>2
    <3> HIDE DEF keep, upto, rank
    <3>2. IsFiniteSet(upto(j))
      BY <1>2, <1>4, FS_Subset
    <3>3. upto(i) # upto(j)
      BY <1>4, <3>1
    <3> QED
      BY <1>4, <3>1, <3>2, <3>3, FS_Subset
  <2>3. rank \in [keep -> 1 .. n]
    <3> HIDE DEF upto, n, keep
    <3> QED
      BY <2>1
  <2>4. \A i, j \in keep : rank[i] = rank[j] => i = j
    <3> SUFFICES ASSUME NEW i \in keep, NEW j \in keep, i # j
                 PROVE  rank[i] # rank[j]
      OBVIOUS
    <3>1. i < j \/ j < i
      BY <1>2
    <3> HIDE DEF rank, keep
    <3> QED
      BY <2>2, <3>1
  <2> HIDE DEF rank, keep, n
  <2> QED
    BY <2>3, <2>4 DEF Injection, IsInjective
<1>6. \A m \in 1 .. n : \E i \in keep : rank[i] = m
  <2> HIDE DEF rank, keep, n
  <2>1. IsFiniteSet(1 .. n) /\ Cardinality(1 .. n) = n
    BY <1>2, FS_Interval
  <2>2. rank \in Surjection(keep, 1 .. n)
    BY <1>5, <2>1, FS_Injection DEF n
  <2> QED
    BY <2>2 DEF Surjection
<1>7. \A m \in 1 .. n : at[m] \in keep /\ rank[at[m]] = m
  <2> TAKE m \in 1 .. n
  <2>1. at[m] = CHOOSE i \in keep : rank[i] = m
    OBVIOUS
  <2> HIDE DEF rank, keep, n, at
  <2> QED
    BY <1>6, <2>1
<1>8. \A i \in keep : \E m \in 1 .. n : at[m] = i
  <2> TAKE i \in keep
  <2> HIDE DEF rank, keep, n, at
  <2>1. rank[i] \in 1 .. n
    BY <1>5 DEF Injection, IsInjective
  <2>2. at[rank[i]] \in keep /\ rank[at[rank[i]]] = rank[i]
    BY <1>7, <2>1
  <2>3. at[rank[i]] = i
    BY <1>5, <2>2 DEF Injection, IsInjective
  <2> QED
    BY <2>1, <2>3
<1>9. at \in [1 .. n -> 1 .. Len(ch)]
  <2>1. keep \subseteq 1 .. Len(ch)
    OBVIOUS
  <2> HIDE DEF rank, keep, n
  <2>2. \A m \in 1 .. n : at[m] \in 1 .. Len(ch)
    BY <1>7, <2>1
  <2> QED
    BY <2>2
<1>10. \A i \in 1 .. Len(ch) : ch[i] # p <=> i \in keep
  OBVIOUS
<1> HIDE DEF rank, keep, n, at
<1>11. \A m, l \in 1 .. n : at[m] = at[l] => m = l
  BY <1>7
<1>12. \A i \in 1 .. Len(ch) : ch[i] # p <=> \E m \in 1 .. n : at[m] = i
  BY <1>7, <1>8, <1>10
<1>13. Left(ch, p, n, at)
  BY <1>3, <1>11, <1>12 DEF Left
<1> QED
  BY <1>2, <1>9, <1>13

(* Promoting a candidate of the chain, or another one, keeps it whole.     *)
LEMMA AugmentWhole ==
  ASSUME NEW p \in Candidates
  PROVE  /\ Whole(Augment(p))
         /\ Augment(p)[1] = p
         /\ \A i \in 1 .. Len(Augment(p)) : Augment(p)[i] \in {p} \cup Range(BaseChain)
<1> DEFINE B == BaseChain
           ch == Augment(p)
           tail == Without(B, p)
<1>1. B \in Seq(Candidates) /\ Len(B) \in Nat \ {0} /\ DOMAIN B = 1 .. Len(B)
      /\ \A i \in 1 .. Len(B) : B[i] \in Candidates
  BY BaseWhole, LenProperties, ElementOfSeq DEF Whole
<1>2. CASE Range(B) = {p}
  <2>1. ch = B
    BY <1>2 DEF Augment
  <2>2. \A i \in 1 .. Len(B) : B[i] = p
    BY <1>1, <1>2 DEF Range
  <2> QED
    BY <1>1, <1>2, <2>1, <2>2, BaseWhole
<1>3. CASE Range(B) # {p}
  <2>1. ch = <<p>> \o tail
    BY <1>3 DEF Augment
  <2> HIDE DEF ch, tail, B
  <2>0. PICK n \in Nat : \E at \in [1 .. n -> 1 .. Len(B)] : Left(B, p, n, at)
    BY <1>1, WithoutPlaces
  <2>2. PICK at \in [1 .. n -> 1 .. Len(B)] :
          /\ tail = [m \in 1 .. n |-> B[at[m]]]
          /\ \A m, l \in 1 .. n : at[m] = at[l] => m = l
          /\ \A i \in 1 .. Len(B) : B[i] # p <=> \E m \in 1 .. n : at[m] = i
    BY <2>0 DEF Left, tail
  <2>3. tail \in [1 .. n -> Candidates]
    BY <1>1, <2>2
  <2>4. tail \in Seq(Candidates) /\ Len(tail) = n
    BY <2>3, LenProperties, SeqDef
  <2>5. <<p>> \in Seq(Candidates) /\ Len(<<p>>) = 1 /\ <<p>>[1] = p
    OBVIOUS
  <2>6. ch \in Seq(Candidates) /\ Len(ch) = n + 1
        /\ \A i \in 1 .. n + 1 : ch[i] = IF i <= 1 THEN <<p>>[i] ELSE tail[i - 1]
    BY <2>1, <2>4, <2>5, ConcatProperties
  <2>7. ch[1] = p
    BY <2>5, <2>6
  <2>8. \A i \in 2 .. n + 1 :
          /\ at[i - 1] \in 1 .. Len(B) /\ ch[i] = B[at[i - 1]] /\ ch[i] # p
    <3> TAKE i \in 2 .. n + 1
    <3>1. i - 1 \in 1 .. n /\ ~(i <= 1) /\ i \in 1 .. n + 1
      OBVIOUS
    <3>2. ch[i] = tail[i - 1] /\ tail[i - 1] = B[at[i - 1]] /\ at[i - 1] \in 1 .. Len(B)
      BY <2>2, <2>6, <3>1
    <3> QED
      BY <2>2, <3>1, <3>2
  <2>9. \A b \in 1 .. Len(B) : \E i \in 1 .. Len(ch) : ch[i] = B[b]
    <3> TAKE b \in 1 .. Len(B)
    <3>1. CASE B[b] = p
      BY <2>6, <2>7, <3>1
    <3>2. CASE B[b] # p
      <4>1. PICK m \in 1 .. n : at[m] = b
        BY <2>2, <3>2
      <4>2. m + 1 \in 2 .. n + 1 /\ (m + 1) - 1 = m
        OBVIOUS
      <4>3. ch[m + 1] = B[b] /\ m + 1 \in 1 .. Len(ch)
        BY <2>6, <2>8, <4>1, <4>2
      <4> QED
        BY <4>3
    <3> QED
      BY <3>1, <3>2
  <2>10. ASSUME NEW i \in 1 .. Len(ch), NEW j \in 1 .. Len(ch), i # j, ch[i] = ch[j]
         PROVE  \E k, l \in 1 .. Len(B) : k # l /\ B[k] = ch[i] /\ B[l] = ch[i]
    <3>1. i \in 2 .. n + 1 /\ j \in 2 .. n + 1
      BY <2>6, <2>7, <2>8, <2>10
    <3>2. i - 1 \in 1 .. n /\ j - 1 \in 1 .. n /\ i - 1 # j - 1
      BY <2>10, <3>1
    <3>3. at[i - 1] # at[j - 1]
      BY <2>2, <3>2
    <3> QED
      BY <2>8, <2>10, <3>1, <3>3
  <2>11. \A i \in 1 .. Len(ch) : ch[i] \in {p} \cup Range(B)
    <3> TAKE i \in 1 .. Len(ch)
    <3>1. CASE i = 1
      BY <2>7, <3>1
    <3>2. CASE i # 1
      <4>1. i \in 2 .. n + 1
        BY <2>6, <3>2
      <4> QED
        BY <1>1, <2>8, <4>1 DEF Range
    <3> QED
      BY <3>1, <3>2
  <2>12. Len(ch) \in Nat \ {0}
    BY <2>6
  <2> QED
    BY <2>6, <2>7, <2>9, <2>10, <2>11, <2>12 DEF Whole, ch, B
<1> QED
  BY <1>2, <1>3

(* Whatever the layers bind, the effective chain keeps every configured    *)
(* candidate, adds none but a bound one, and lists a candidate twice only  *)
(* where the configured chain does (_effective_chain, _augment_primary).   *)
THEOREM EffectiveWhole ==
  ASSUME NEW r \in Requests
  PROVE  /\ Whole(Effective(r.bound))
         /\ \A i \in 1 .. Len(Effective(r.bound)) :
              \/ Effective(r.bound)[i] \in Range(BaseChain)
              \/ \E l \in DOMAIN r.bound : Effective(r.bound)[i] = r.bound[l]
<1> DEFINE b == r.bound
           layers == {"override", "workload", "role", "routed"}
           Good(ch) ==
             /\ Whole(ch)
             /\ \A i \in 1 .. Len(ch) :
                  ch[i] \in Range(BaseChain) \/ \E l \in layers : ch[i] = b[l]
<1>1. DOMAIN b = layers /\ \A l \in layers : b[l] \in Candidates \cup {None}
  BY ChoicesAssumption
<1>2. Good(BaseChain)
  <2>1. BaseChain \in Seq(Candidates)
    BY ChainAssumption
  <2>2. \A i \in 1 .. Len(BaseChain) : BaseChain[i] \in Range(BaseChain)
    BY <2>1, LenProperties DEF Range
  <2> QED
    BY <2>2, BaseWhole
<1>3. ASSUME NEW l \in layers, b[l] # None
      PROVE  Good(Augment(b[l]))
  BY <1>1, <1>3, AugmentWhole
<1>4. Good(Effective(b))
  <2> HIDE DEF Good, b
  <2>1. CASE b["override"] # None
    BY <1>3, <2>1 DEF Effective
  <2>2. CASE b["override"] = None /\ b["workload"] # None
    BY <1>3, <2>2 DEF Effective
  <2>3. CASE b["override"] = None /\ b["workload"] = None /\ b["role"] # None
    BY <1>3, <2>3 DEF Effective
  <2>4. CASE b["override"] = None /\ b["workload"] = None /\ b["role"] = None
    BY <1>2, <1>3, <2>4 DEF Effective
  <2> QED
    BY <2>1, <2>2, <2>3, <2>4
<1> QED
  BY <1>1, <1>4

-----------------------------------------------------------------------------
(* One step of one dispatch.                                               *)

(* A closed breaker is below its threshold.                                *)
BreakerInv ==
  \A c \in Candidates : breaker[c].state = "closed" => breaker[c].fails < FailThreshold

LEMMA TypeInit == Init => TypeOK /\ BreakerInv
<1>1. BaseChain \in Seq(Candidates) /\ BaseChain[1] \in Candidates
  BY BaseWhole, ElementOfSeq DEF Whole
<1> QED
  BY <1>1, BoundsAssumption DEF Init, TypeOK, BreakerInv, Trying, Ended

LEMMA BreakerType ==
  ASSUME TypeOK, BreakerInv, NEW c \in Candidates,
         breaker' = [breaker EXCEPT ![c] = AfterFailure(@)]
           \/ breaker' = [breaker EXCEPT ![c] = AfterSuccess(@)]
           \/ UNCHANGED breaker
  PROVE  /\ breaker' \in [Candidates -> [state : {"closed", "open"}, fails : 0 .. FailThreshold]]
         /\ BreakerInv'
         /\ \A k \in Candidates : breaker[k].state = "open" => breaker'[k].state = "open"
<1> DEFINE Breakers == [state : {"closed", "open"}, fails : 0 .. FailThreshold]
           b == breaker[c]
<1>1. b \in Breakers /\ (b.state = "closed" => b.fails < FailThreshold)
  BY DEF TypeOK, BreakerInv
<1>2. /\ AfterFailure(b) \in Breakers
      /\ AfterFailure(b).state = "closed" => AfterFailure(b).fails < FailThreshold
      /\ b.state = "open" => AfterFailure(b).state = "open"
  BY <1>1, BoundsAssumption DEF AfterFailure
<1>3. /\ AfterSuccess(b) \in Breakers
      /\ AfterSuccess(b).state = "closed" => AfterSuccess(b).fails < FailThreshold
      /\ b.state = "open" => AfterSuccess(b).state = "open"
  BY <1>1, BoundsAssumption DEF AfterSuccess
<1>4. ASSUME NEW new \in Breakers, breaker' = [breaker EXCEPT ![c] = new],
             new.state = "closed" => new.fails < FailThreshold,
             b.state = "open" => new.state = "open"
      PROVE  /\ breaker' \in [Candidates -> Breakers]
             /\ BreakerInv'
             /\ \A k \in Candidates : breaker[k].state = "open" => breaker'[k].state = "open"
  BY <1>4 DEF TypeOK, BreakerInv
<1>5. CASE UNCHANGED breaker
  BY <1>5 DEF TypeOK, BreakerInv
<1> QED
  BY <1>2, <1>3, <1>4, <1>5

LEMMA EndType ==
  ASSUME TypeOK, NEW d \in Dispatches, NEW how \in Ended, End(d, how)
  PROVE  /\ pc' \in [Dispatches -> {"new", "choosing"} \cup Trying \cup Ended]
         /\ chain' \in [Dispatches -> Seq(Candidates)]
         /\ cand' \in [Dispatches -> Candidates]
         /\ attempt' \in [Dispatches -> 0 .. MaxAttempts - 1]
<1>1. BaseChain \in Seq(Candidates) /\ BaseChain[1] \in Candidates
  BY BaseWhole, ElementOfSeq DEF Whole
<1> QED
  BY <1>1, BoundsAssumption DEF TypeOK, End

Walking == Trying \cup {"choosing"}

(* While a dispatch walks its chain, the places up to that of its          *)
(* candidate hold different candidates.  All before it were tried or may   *)
(* not be, and beside the circle nothing else was tried.                   *)
Reached(d, k) ==
  /\ chain[d][k] = cand[d]
  /\ \A i \in 1 .. k : Position(chain[d], chain[d][i]) = i
  /\ \A i \in 1 .. k - 1 : tried[d][chain[d][i]] > 0 \/ chain[d][i] \notin MayTry(d)
  /\ pc[d] \in Trying => tried[d][cand[d]] > 0
  /\ \A c \in Candidates \ Circle(chain[d]) :
       tried[d][c] > 0 =>
         (c = cand[d] /\ pc[d] \in Trying) \/ \E i \in 1 .. k - 1 : chain[d][i] = c

Running(d) == \E k \in 1 .. Len(chain[d]) : Reached(d, k)

Counted(d) ==
  /\ pc[d] \in Walking =>
       \A c \in Candidates \ Circle(chain[d]) : tried[d][c] <= MaxAttempts
  /\ pc[d] \in Trying /\ cand[d] \notin Circle(chain[d]) => tried[d][cand[d]] <= attempt[d] + 1
  /\ pc[d] = "exhausted" => \A c \in Candidates : tried[d][c] <= MaxAttempts
  /\ pc[d] \notin Walking \cup {"exhausted"} => \A c \in Candidates : tried[d][c] = 0
  /\ pc[d] = "sleep" => attempt[d] < MaxAttempts - 1

Exhausted(d) ==
  \A b \in 1 .. Len(BaseChain) :
    tried[d][BaseChain[b]] > 0 \/ BaseChain[b] \notin MayTry(d)

Sound(d) ==
  /\ Whole(chain[d])
  /\ Counted(d)
  /\ pc[d] \in Walking => Running(d)
  /\ pc[d] = "exhausted" => Exhausted(d)

DispatchInv == \A d \in Dispatches : Sound(d)

Inv == TypeOK /\ BreakerInv /\ DispatchInv

LEMMA Counting ==
  ASSUME NEW n \in 0 .. MaxAttempts + 1
  PROVE  /\ Count(n) \in 0 .. MaxAttempts + 1
         /\ Count(n) > 0
         /\ n <= MaxAttempts => Count(n) = n + 1
BY BoundsAssumption DEF Count

(* The walk goes on at the first place of what is behind the candidate, or *)
(* it ends.                                                                *)
Goes(d, k) ==
  \/ k = Len(chain[d]) /\ End(d, "exhausted")
  \/ /\ k \in 1 .. Len(chain[d]) - 1
     /\ pc' = [pc EXCEPT ![d] = "choosing"]
     /\ cand' = [cand EXCEPT ![d] = chain[d][k + 1]]
     /\ UNCHANGED <<chain, attempt>>

LEMMA Advancing ==
  ASSUME NEW d \in Dispatches, Whole(chain[d]), NEW k \in 1 .. Len(chain[d]), Reached(d, k),
         Advance(d)
  PROVE  Goes(d, k)
<1>1. Position(chain[d], cand[d]) = k /\ Len(chain[d]) \in Nat
  BY DEF Reached, Whole
<1> QED
  BY <1>1 DEF Advance, Goes

LEMMA AdvanceType ==
  ASSUME TypeOK, NEW d \in Dispatches, Whole(chain[d]), NEW k \in 1 .. Len(chain[d]), Goes(d, k)
  PROVE  /\ pc' \in [Dispatches -> {"new", "choosing"} \cup Trying \cup Ended]
         /\ chain' \in [Dispatches -> Seq(Candidates)]
         /\ cand' \in [Dispatches -> Candidates]
         /\ attempt' \in [Dispatches -> 0 .. MaxAttempts - 1]
         /\ pc'[d] \in {"choosing", "exhausted"}
<1>1. CASE k = Len(chain[d]) /\ End(d, "exhausted")
  <2>1. "exhausted" \in Ended
    BY DEF Ended
  <2>2. pc'[d] = "exhausted"
    BY <1>1 DEF End, TypeOK
  <2> QED
    BY <1>1, <2>1, <2>2, EndType
<1>2. CASE /\ k \in 1 .. Len(chain[d]) - 1
           /\ pc' = [pc EXCEPT ![d] = "choosing"]
           /\ cand' = [cand EXCEPT ![d] = chain[d][k + 1]]
           /\ UNCHANGED <<chain, attempt>>
  <2>1. chain[d][k + 1] \in Candidates
    BY <1>2, ElementOfSeq DEF Whole
  <2> QED
    BY <1>2, <2>1 DEF TypeOK
<1> QED
  BY <1>1, <1>2 DEF Goes

-----------------------------------------------------------------------------
(* The actions, as they are used below.                                    *)

(* The candidate fails for good: its breaker learns, the walk goes on.     *)
Leaves(d, k) ==
  /\ breaker' = [breaker EXCEPT ![cand[d]] = AfterFailure(@)]
  /\ grace' = [grace EXCEPT ![cand[d]] =
       IF breaker[cand[d]].state = "open" \/ breaker'[cand[d]].state # "open" THEN @
       ELSE {e \in Dispatches \ {d} : cand[e] = cand[d] /\ pc[e] \in Trying}]
  /\ Goes(d, k)
  /\ UNCHANGED tried

LEMMA Failing ==
  ASSUME DispatchInv, NEW d \in Dispatches, FailTransient(d) \/ FailPermanent(d)
  PROVE  /\ pc[d] = "attempt"
         /\ UNCHANGED <<able, costs>>
         /\ Backoff(d) \/ \E k \in 1 .. Len(chain[d]) : Reached(d, k) /\ Leaves(d, k)
<1>1. pc[d] = "attempt" /\ UNCHANGED <<able, costs>> /\ (Backoff(d) \/ Abandon(d))
  BY DEF FailTransient, FailPermanent, Transient
<1>2. ASSUME Abandon(d)
      PROVE  \E k \in 1 .. Len(chain[d]) : Reached(d, k) /\ Leaves(d, k)
  <2>1. Whole(chain[d]) /\ Running(d)
    BY <1>1 DEF DispatchInv, Sound, Walking, Trying
  <2>2. PICK k \in 1 .. Len(chain[d]) : Reached(d, k)
    BY <2>1 DEF Running
  <2> QED
    BY <1>2, <2>1, <2>2, Advancing DEF Abandon, Leaves
<1> QED
  BY <1>1, <1>2

(* A choice enters the candidate or passes it over.                        *)
LEMMA Choosing ==
  ASSUME DispatchInv, NEW d \in Dispatches, Choose(d)
  PROVE  /\ pc[d] = "choosing"
         /\ UNCHANGED <<able, breaker, costs, grace>>
         /\ \E k \in 1 .. Len(chain[d]) :
              /\ Reached(d, k)
              /\ \/ cand[d] \in MayTry(d) /\ Enter(d)
                 \/ cand[d] \notin MayTry(d) /\ Goes(d, k) /\ UNCHANGED tried
<1>1. pc[d] = "choosing" /\ UNCHANGED <<able, breaker, costs, grace>>
  BY DEF Choose
<1>2. Whole(chain[d]) /\ Running(d)
  BY <1>1 DEF DispatchInv, Sound, Walking
<1>3. PICK k \in 1 .. Len(chain[d]) : Reached(d, k)
  BY <1>2 DEF Running
<1> QED
  BY <1>1, <1>2, <1>3, Advancing DEF Choose

(* A start goes to the front of the effective chain of some request.       *)
Begins(d, r) ==
  /\ Whole(Effective(r.bound))
  /\ able' = [able EXCEPT ![d] = r.able]
  /\ chain' = [chain EXCEPT ![d] = Effective(r.bound)]
  /\ cand' = [cand EXCEPT ![d] = Effective(r.bound)[1]]
  /\ pc' = [pc EXCEPT ![d] = "choosing"]
  /\ UNCHANGED <<attempt, breaker, tried, costs, grace>>

LEMMA Starting ==
  ASSUME NEW d \in Dispatches, Start(d)
  PROVE  pc[d] = "new" /\ \E r \in Requests : Begins(d, r)
BY EffectiveWhole DEF Start, Begins

(* The types, action by action.                                            *)
LEMMA TypeNext ==
  ASSUME TypeOK, BreakerInv, DispatchInv, [Next]_vars
  PROVE  TypeOK' /\ BreakerInv'
<1> USE DEF TypeOK
<1>1. ASSUME NEW d \in Dispatches, Start(d)
      PROVE  TypeOK' /\ BreakerInv'
  <2>1. PICK r \in Requests : Begins(d, r)
    BY <1>1, Starting
  <2>2. able' \in [Dispatches -> SUBSET Candidates]
    BY <2>1, ChoicesAssumption DEF Begins
  <2>3. Effective(r.bound) \in Seq(Candidates) /\ Effective(r.bound)[1] \in Candidates
    BY <2>1, ElementOfSeq DEF Begins, Whole
  <2> QED
    BY <2>1, <2>2, <2>3 DEF Begins, BreakerInv
<1>2. ASSUME NEW d \in Dispatches, Succeed(d)
      PROVE  TypeOK' /\ BreakerInv'
  <2>1. End(d, "returned") /\ "returned" \in Ended
    BY <1>2 DEF Succeed, Ended
  <2>2. /\ breaker' \in [Candidates -> [state : {"closed", "open"}, fails : 0 .. FailThreshold]]
        /\ BreakerInv'
    BY <1>2, BreakerType DEF Succeed
  <2>3. /\ able' \in [Dispatches -> SUBSET Candidates]
        /\ tried' \in [Dispatches -> [Candidates -> 0 .. MaxAttempts + 1]]
        /\ costs' \in [Dispatches -> Nat]
        /\ UNCHANGED grace
    BY <1>2, BoundsAssumption DEF Succeed, Forget
  <2> QED
    BY <2>1, <2>2, <2>3, EndType
<1>3. ASSUME NEW d \in Dispatches, FailTransient(d) \/ FailPermanent(d)
      PROVE  TypeOK' /\ BreakerInv'
  <2>1. CASE Backoff(d)
    BY <1>3, <2>1, Failing DEF Backoff, BreakerInv, Trying
  <2>2. ASSUME NEW k \in 1 .. Len(chain[d]), Leaves(d, k)
        PROVE  TypeOK' /\ BreakerInv'
    <3>1. Whole(chain[d])
      BY DEF DispatchInv, Sound
    <3>2. /\ breaker' \in [Candidates -> [state : {"closed", "open"}, fails : 0 .. FailThreshold]]
          /\ BreakerInv'
      BY <2>2, BreakerType DEF Leaves
    <3>3. grace' \in [Candidates -> SUBSET Dispatches]
      BY <2>2 DEF Leaves
    <3>4. UNCHANGED <<able, costs>>
      BY <1>3, Failing
    <3> QED
      BY <2>2, <3>1, <3>2, <3>3, <3>4, AdvanceType DEF Leaves
  <2> QED
    BY <1>3, <2>1, <2>2, Failing
<1>4. ASSUME NEW d \in Dispatches, Propagate(d)
      PROVE  TypeOK' /\ BreakerInv'
  <2>1. End(d, "raised") /\ "raised" \in Ended
    BY <1>4 DEF Propagate, Ended
  <2>2. /\ able' \in [Dispatches -> SUBSET Candidates]
        /\ tried' \in [Dispatches -> [Candidates -> 0 .. MaxAttempts + 1]]
        /\ UNCHANGED <<breaker, costs, grace>>
    BY <1>4, BoundsAssumption DEF Propagate, Forget
  <2> QED
    BY <2>1, <2>2, EndType DEF BreakerInv
<1>5. ASSUME NEW d \in Dispatches, Wake(d)
      PROVE  TypeOK' /\ BreakerInv'
  <2>1. attempt[d] < MaxAttempts - 1
    BY <1>5 DEF Wake, DispatchInv, Sound, Counted
  <2>2. attempt' \in [Dispatches -> 0 .. MaxAttempts - 1]
    BY <1>5, <2>1, BoundsAssumption DEF Wake
  <2>3. tried' \in [Dispatches -> [Candidates -> 0 .. MaxAttempts + 1]]
    BY <1>5, Counting DEF Wake
  <2> QED
    BY <1>5, <2>2, <2>3 DEF Wake, BreakerInv, Trying
<1>6. ASSUME NEW d \in Dispatches, Choose(d)
      PROVE  TypeOK' /\ BreakerInv'
  <2>1. UNCHANGED <<able, breaker, costs, grace>>
    BY <1>6, Choosing
  <2>2. CASE Enter(d)
    <3>1. tried' \in [Dispatches -> [Candidates -> 0 .. MaxAttempts + 1]]
      BY <2>2, Counting DEF Enter
    <3>2. attempt' \in [Dispatches -> 0 .. MaxAttempts - 1]
      BY <2>2, BoundsAssumption DEF Enter
    <3> QED
      BY <2>1, <2>2, <3>1, <3>2 DEF Enter, BreakerInv, Trying
  <2>3. ASSUME NEW k \in 1 .. Len(chain[d]), Goes(d, k), UNCHANGED tried
        PROVE  TypeOK' /\ BreakerInv'
    <3>1. Whole(chain[d])
      BY DEF DispatchInv, Sound
    <3> QED
      BY <2>1, <2>3, <3>1, AdvanceType DEF BreakerInv
  <2> QED
    BY <1>6, <2>2, <2>3, Choosing
<1>7. CASE UNCHANGED vars
  BY <1>7 DEF vars, BreakerInv
<1> QED
  BY <1>1, <1>2, <1>3, <1>4, <1>5, <1>6, <1>7 DEF Next, Step

-----------------------------------------------------------------------------
(* The invariant of the dispatches.                                        *)

(* What a step does to the others: it opens breakers at most.              *)
Beside(e) ==
  /\ pc'[e] = pc[e] /\ chain'[e] = chain[e] /\ able'[e] = able[e]
  /\ cand'[e] = cand[e] /\ attempt'[e] = attempt[e] /\ tried'[e] = tried[e]

StaysOpen ==
  \A c \in Candidates : breaker[c].state = "open" => breaker'[c].state = "open"

LEMMA MayTryShrinks ==
  ASSUME TypeOK, StaysOpen, NEW e \in Dispatches, able'[e] = able[e]
  PROVE  MayTry(e)' \subseteq MayTry(e)
BY DEF TypeOK, StaysOpen, MayTry

LEMMA BesideSound ==
  ASSUME TypeOK, StaysOpen, NEW e \in Dispatches, Sound(e), Beside(e)
  PROVE  Sound(e)'
<1>1. MayTry(e)' \subseteq MayTry(e)
  BY MayTryShrinks DEF Beside
<1>2. Whole(chain[e])' /\ Counted(e)'
  BY DEF Sound, Beside, Counted, Whole
<1>3. ASSUME pc[e] \in Walking
      PROVE  Running(e)'
  <2>1. PICK k \in 1 .. Len(chain[e]) : Reached(e, k)
    BY <1>3 DEF Sound, Running
  <2>2. Reached(e, k)'
    BY <1>1, <2>1 DEF Reached, Beside
  <2> QED
    BY <2>1, <2>2 DEF Running, Beside
<1>4. ASSUME pc[e] = "exhausted"
      PROVE  Exhausted(e)'
  BY <1>1, <1>4 DEF Sound, Exhausted, Beside
<1> QED
  BY <1>2, <1>3, <1>4 DEF Sound, Beside, Walking, Trying

LEMMA GoesBeside ==
  ASSUME TypeOK, NEW d \in Dispatches, NEW k, Goes(d, k), NEW e \in Dispatches \ {d}
  PROVE  /\ pc'[e] = pc[e] /\ chain'[e] = chain[e]
         /\ cand'[e] = cand[e] /\ attempt'[e] = attempt[e]
BY DEF Goes, End, TypeOK

LEMMA StepBeside ==
  ASSUME TypeOK, BreakerInv, DispatchInv, NEW d \in Dispatches,
         \/ Start(d) \/ Choose(d) \/ Succeed(d) \/ FailTransient(d)
         \/ FailPermanent(d) \/ Propagate(d) \/ Wake(d)
  PROVE  StaysOpen /\ \A e \in Dispatches \ {d} : Beside(e)
<1>1. CASE Start(d)
  BY <1>1 DEF Start, Beside, StaysOpen, TypeOK
<1>2. CASE Succeed(d)
  <2>1. StaysOpen
    BY <1>2, BreakerType DEF Succeed, TypeOK, StaysOpen
  <2> QED
    BY <1>2, <2>1 DEF Succeed, End, Forget, Beside, TypeOK
<1>3. CASE FailTransient(d) \/ FailPermanent(d)
  <2>1. CASE Backoff(d)
    BY <1>3, <2>1, Failing DEF Backoff, Beside, StaysOpen, TypeOK
  <2>2. ASSUME NEW k \in 1 .. Len(chain[d]), Leaves(d, k)
        PROVE  StaysOpen /\ \A e \in Dispatches \ {d} : Beside(e)
    <3>1. StaysOpen
      BY <2>2, BreakerType DEF Leaves, TypeOK, StaysOpen
    <3> QED
      BY <1>3, <2>2, <3>1, Failing, GoesBeside DEF Leaves, Beside
  <2> QED
    BY <1>3, <2>1, <2>2, Failing
<1>4. CASE Propagate(d)
  BY <1>4 DEF Propagate, End, Forget, Beside, StaysOpen, TypeOK
<1>5. CASE Wake(d)
  BY <1>5 DEF Wake, Beside, StaysOpen, TypeOK
<1>6. CASE Choose(d)
  <2>1. UNCHANGED <<able, breaker>>
    BY <1>6, Choosing
  <2>2. CASE Enter(d)
    BY <2>1, <2>2 DEF Enter, Beside, StaysOpen, TypeOK
  <2>3. ASSUME NEW k \in 1 .. Len(chain[d]), Goes(d, k), UNCHANGED tried
        PROVE  StaysOpen /\ \A e \in Dispatches \ {d} : Beside(e)
    BY <2>1, <2>3, GoesBeside DEF Beside, StaysOpen
  <2> QED
    BY <1>6, <2>2, <2>3, Choosing
<1> QED
  BY <1>1, <1>2, <1>3, <1>4, <1>5, <1>6

(* The walk passes a candidate that was tried or may not be.  When it goes *)
(* back, what it leaves behind is in the circle; when it ends, it was at   *)
(* every place.                                                            *)
LEMMA GoesSound ==
  ASSUME TypeOK, NEW d \in Dispatches, Sound(d), pc[d] \in Walking,
         NEW k \in 1 .. Len(chain[d]), Reached(d, k), Goes(d, k),
         UNCHANGED <<able, tried>>, MayTry(d)' \subseteq MayTry(d),
         tried[d][cand[d]] > 0 \/ cand[d] \notin MayTry(d)
  PROVE  Sound(d)'
<1> DEFINE ch == chain[d]
<1>1. Whole(ch) /\ Counted(d) /\ ch \in Seq(Candidates) /\ Len(ch) \in Nat
  BY DEF Sound, Whole
<1>2. \A i \in 1 .. k : tried[d][ch[i]] > 0 \/ ch[i] \notin MayTry(d)
  <2> TAKE i \in 1 .. k
  <2>1. CASE i = k
    BY <2>1 DEF Reached
  <2>2. CASE i # k
    <3>1. i \in 1 .. k - 1
      BY <2>2
    <3> QED
      BY <3>1 DEF Reached
  <2> QED
    BY <2>1, <2>2
<1>3. CASE k = Len(ch) /\ End(d, "exhausted")
  <2>1. pc'[d] = "exhausted" /\ chain'[d] = BaseChain /\ tried' = tried
    BY <1>3 DEF End, TypeOK
  <2>2. Whole(chain[d])'
    BY <2>1, BaseWhole DEF Whole
  <2>3. Circle(ch) = {}
    BY <1>1, <1>3, NoCircle DEF Reached
  <2>4. Counted(d)'
    BY <1>1, <2>1, <2>3 DEF Counted, Walking, Trying
  <2>5. Exhausted(d)'
    <3> SUFFICES ASSUME NEW b \in 1 .. Len(BaseChain)
                 PROVE  tried[d][BaseChain[b]] > 0 \/ BaseChain[b] \notin MayTry(d)'
      BY <2>1 DEF Exhausted
    <3>1. PICK i \in 1 .. Len(ch) : ch[i] = BaseChain[b]
      BY <1>1 DEF Whole
    <3> QED
      BY <1>2, <1>3, <3>1
  <2> QED
    BY <2>1, <2>2, <2>4, <2>5 DEF Sound, Walking, Trying
<1>4. CASE /\ k \in 1 .. Len(ch) - 1
           /\ pc' = [pc EXCEPT ![d] = "choosing"]
           /\ cand' = [cand EXCEPT ![d] = ch[k + 1]]
           /\ UNCHANGED <<chain, attempt>>
  <2>1. k + 1 \in 1 .. Len(ch)
    BY <1>1, <1>4
  <2>2. PICK q \in 1 .. k + 1 : q = Position(ch, ch[k + 1]) /\ ch[q] = ch[k + 1]
    <3>1. /\ Position(ch, ch[k + 1]) \in 1 .. k + 1
          /\ ch[Position(ch, ch[k + 1])] = ch[k + 1]
      BY <1>1, <2>1, Positioned
    <3> QED
      BY <3>1
  <2>3. pc'[d] = "choosing" /\ cand'[d] = ch[k + 1] /\ chain'[d] = ch /\ tried' = tried
    BY <1>4 DEF TypeOK
  <2>4. Counted(d)'
    BY <1>1, <2>3 DEF Counted, Walking, Trying
  <2>5. \A i \in 1 .. q : Position(ch, ch[i]) = i
    <3> TAKE i \in 1 .. q
    <3>1. CASE i = k + 1
      BY <2>2, <3>1
    <3>2. CASE i # k + 1
      <4>1. i \in 1 .. k
        BY <2>2, <3>2
      <4> QED
        BY <4>1 DEF Reached
    <3> QED
      BY <3>1, <3>2
  <2>6. \A i \in 1 .. q - 1 : tried[d][ch[i]] > 0 \/ ch[i] \notin MayTry(d)'
    BY <1>2, <2>2
  <2>7. ASSUME NEW c \in Candidates \ Circle(ch), tried[d][c] > 0
        PROVE  \E i \in 1 .. q - 1 : ch[i] = c
    <3>1. PICK i \in 1 .. k : ch[i] = c
      BY <2>7 DEF Reached
    <3>2. ~(q <= i)
      <4>1. \A j \in 1 .. k : Position(ch, ch[j]) = j
        BY DEF Reached
      <4> QED
        BY <1>1, <1>4, <2>2, <2>7, <3>1, <4>1, InCircle
    <3> QED
      BY <2>2, <3>1, <3>2
  <2>8. Reached(d, q)'
    BY <2>2, <2>3, <2>5, <2>6, <2>7 DEF Reached, Trying
  <2>9. Running(d)'
    <3>1. q \in 1 .. Len(ch)
      BY <1>1, <2>1, <2>2
    <3> QED
      BY <2>3, <2>8, <3>1 DEF Running
  <2>10. Whole(chain[d])'
    BY <1>1, <2>3
  <2> QED
    BY <2>3, <2>4, <2>9, <2>10 DEF Sound
<1> QED
  BY <1>3, <1>4 DEF Goes

(* The dispatch that steps.                                                *)
LEMMA StartSound ==
  ASSUME TypeOK, DispatchInv, NEW d \in Dispatches, Start(d)
  PROVE  Sound(d)'
<1>1. PICK r \in Requests : Begins(d, r)
  BY Starting
<1> DEFINE ch == Effective(r.bound)
<1>2. \A c \in Candidates : tried[d][c] = 0
  BY Starting DEF DispatchInv, Sound, Counted, Walking, Trying
<1>3. /\ pc'[d] = "choosing" /\ chain'[d] = ch /\ cand'[d] = ch[1] /\ tried' = tried
      /\ ch \in Seq(Candidates) /\ 1 \in 1 .. Len(ch)
  BY <1>1 DEF Begins, TypeOK, Whole
<1> HIDE DEF ch
<1>4. \A i \in 1 .. 1 : Position(ch, ch[i]) = i
  BY <1>3, Positioned
<1>5. Reached(d, 1)'
  BY <1>2, <1>3, <1>4 DEF Reached, Trying
<1>6. Running(d)'
  BY <1>3, <1>5 DEF Running
<1>7. Counted(d)'
  BY <1>2, <1>3, BoundsAssumption DEF Counted, Walking, Trying
<1>8. Whole(chain[d])'
  BY <1>1, <1>3 DEF Begins, ch
<1> QED
  BY <1>3, <1>6, <1>7, <1>8 DEF Sound

LEMMA EnterSound ==
  ASSUME TypeOK, NEW d \in Dispatches, Sound(d), pc[d] = "choosing",
         NEW k \in 1 .. Len(chain[d]), Reached(d, k), Enter(d), UNCHANGED <<able, breaker>>
  PROVE  Sound(d)'
<1> DEFINE ch == chain[d]
           c == cand[d]
<1>1. Whole(ch) /\ Counted(d) /\ ch \in Seq(Candidates) /\ ch[k] = c
  BY DEF Sound, Whole, Reached
<1>2. /\ pc'[d] = "attempt" /\ chain' = chain /\ cand' = cand /\ attempt'[d] = 0
      /\ tried'[d][c] = Count(tried[d][c]) /\ tried[d][c] \in 0 .. MaxAttempts + 1
      /\ \A x \in Candidates \ {c} : tried'[d][x] = tried[d][x]
      /\ c \in Candidates /\ MayTry(d)' = MayTry(d)
  BY DEF Enter, TypeOK, MayTry
<1>3. tried'[d][c] > 0
  BY <1>2, Counting
<1>4. ASSUME c \notin Circle(ch)
      PROVE  tried'[d][c] = 1
  <2>1. \A i \in 1 .. k - 1 : ch[i] # c
    BY <1>1, FirstPlace DEF Reached
  <2>2. tried[d][c] = 0
    BY <1>2, <1>4, <2>1 DEF Reached, Trying
  <2> QED
    BY <1>2, <2>2, Counting, BoundsAssumption
<1>5. Counted(d)'
  <2>1. \A x \in Candidates \ Circle(ch) : tried'[d][x] <= MaxAttempts
    BY <1>1, <1>2, <1>4, BoundsAssumption DEF Counted, Walking
  <2>2. c \notin Circle(ch) => tried'[d][c] <= attempt'[d] + 1
    BY <1>2, <1>4
  <2> QED
    BY <1>2, <2>1, <2>2 DEF Counted, Walking, Trying
<1>6. Reached(d, k)'
  <2>1. \A i \in 1 .. k - 1 : tried'[d][ch[i]] > 0 \/ ch[i] \notin MayTry(d)
    <3> TAKE i \in 1 .. k - 1
    <3>1. ch[i] \in Candidates
      <4>1. i \in 1 .. Len(ch)
        BY <1>1, LenProperties
      <4> QED
        BY <1>1, <4>1, ElementOfSeq
    <3>2. tried[d][ch[i]] > 0 \/ ch[i] \notin MayTry(d)
      BY DEF Reached
    <3> QED
      BY <1>2, <1>3, <3>1, <3>2
  <2>2. ASSUME NEW x \in Candidates \ Circle(ch), tried'[d][x] > 0, x # c
        PROVE  \E i \in 1 .. k - 1 : ch[i] = x
    <3>1. tried[d][x] > 0
      BY <1>2, <2>2
    <3> QED
      BY <2>2, <3>1 DEF Reached, Trying
  <2>3. \A i \in 1 .. k : Position(ch, ch[i]) = i
    BY DEF Reached
  <2> QED
    BY <1>1, <1>2, <1>3, <2>1, <2>2, <2>3 DEF Reached, Trying
<1>7. Running(d)'
  BY <1>2, <1>6 DEF Running
<1>8. Whole(chain[d])'
  BY <1>1, <1>2
<1> QED
  BY <1>2, <1>5, <1>7, <1>8 DEF Sound

LEMMA ChooseSound ==
  ASSUME TypeOK, BreakerInv, DispatchInv, NEW d \in Dispatches, Choose(d)
  PROVE  Sound(d)'
<1>1. pc[d] = "choosing" /\ UNCHANGED <<able, breaker>> /\ Sound(d)
  BY Choosing DEF DispatchInv
<1>2. PICK k \in 1 .. Len(chain[d]) :
        /\ Reached(d, k)
        /\ \/ cand[d] \in MayTry(d) /\ Enter(d)
           \/ cand[d] \notin MayTry(d) /\ Goes(d, k) /\ UNCHANGED tried
  BY Choosing
<1>3. MayTry(d)' \subseteq MayTry(d) /\ pc[d] \in Walking
  BY <1>1 DEF MayTry, Walking
<1> QED
  BY <1>1, <1>2, <1>3, EnterSound, GoesSound

LEMMA LeaveSound ==
  ASSUME TypeOK, BreakerInv, DispatchInv, NEW d \in Dispatches, pc[d] = "attempt",
         NEW k \in 1 .. Len(chain[d]), Reached(d, k), Leaves(d, k), UNCHANGED able
  PROVE  Sound(d)'
<1>1. StaysOpen
  BY BreakerType DEF Leaves, StaysOpen, TypeOK
<1>2. MayTry(d)' \subseteq MayTry(d)
  BY <1>1, MayTryShrinks
<1>3. Sound(d) /\ pc[d] \in Walking /\ tried[d][cand[d]] > 0
  BY DEF DispatchInv, Walking, Trying, Reached
<1>4. Goes(d, k) /\ UNCHANGED <<able, tried>>
  BY DEF Leaves
<1> QED
  BY <1>2, <1>3, <1>4, GoesSound

LEMMA BackoffSound ==
  ASSUME TypeOK, DispatchInv, NEW d \in Dispatches,
         pc[d] = "attempt", Backoff(d), UNCHANGED able
  PROVE  Sound(d)'
<1>1. pc'[d] = "sleep" /\ attempt[d] < MaxAttempts - 1
  BY DEF Backoff, TypeOK
<1>2. Running(d) /\ Whole(chain[d]) /\ Counted(d)
  BY DEF DispatchInv, Sound, Walking, Trying
<1>3. MayTry(d)' = MayTry(d)
  BY DEF Backoff, MayTry
<1>4. Whole(chain[d])' /\ Counted(d)'
  BY <1>1, <1>2 DEF Backoff, Counted, Walking, Trying
<1>5. Running(d)'
  <2>1. PICK k \in 1 .. Len(chain[d]) : Reached(d, k)
    BY <1>2 DEF Running
  <2>2. Reached(d, k)'
    BY <1>1, <1>3, <2>1 DEF Backoff, Reached, Trying
  <2> QED
    BY <2>1, <2>2 DEF Running, Backoff
<1> QED
  BY <1>1, <1>4, <1>5 DEF Sound

LEMMA WakeSound ==
  ASSUME TypeOK, DispatchInv, NEW d \in Dispatches, Wake(d)
  PROVE  Sound(d)'
<1> DEFINE ch == chain[d]
           c == cand[d]
<1>1. pc[d] = "sleep" /\ Running(d) /\ Whole(ch) /\ Counted(d)
  BY DEF Wake, DispatchInv, Sound, Walking, Trying
<1>2. /\ pc'[d] = "attempt" /\ chain' = chain /\ cand' = cand
      /\ attempt'[d] = attempt[d] + 1
      /\ tried'[d][c] = Count(tried[d][c]) /\ tried[d][c] \in 0 .. MaxAttempts + 1
      /\ \A x \in Candidates \ {c} : tried'[d][x] = tried[d][x]
      /\ MayTry(d)' = MayTry(d) /\ c \in Candidates /\ attempt[d] \in Nat
  BY DEF Wake, TypeOK, MayTry
<1>3. tried'[d][c] > 0
  BY <1>2, Counting
<1>4. Counted(d)'
  <2>1. ASSUME c \notin Circle(ch)
        PROVE  tried'[d][c] <= attempt'[d] + 1 /\ tried'[d][c] <= MaxAttempts
    <3>1. tried[d][c] <= attempt[d] + 1 /\ attempt[d] < MaxAttempts - 1
      BY <1>1, <2>1 DEF Counted, Trying
    <3>2. tried'[d][c] = tried[d][c] + 1
      BY <1>2, <3>1, Counting, BoundsAssumption
    <3> QED
      BY <1>2, <3>1, <3>2, BoundsAssumption
  <2>2. \A x \in Candidates \ Circle(ch) : tried'[d][x] <= MaxAttempts
    BY <1>1, <1>2, <2>1 DEF Counted, Walking, Trying
  <2> QED
    BY <1>2, <2>1, <2>2 DEF Counted, Walking, Trying
<1>5. PICK k \in 1 .. Len(ch) : Reached(d, k)
  BY <1>1 DEF Running
<1>6. Reached(d, k)'
  <2>1. \A i \in 1 .. k - 1 : tried'[d][ch[i]] > 0 \/ ch[i] \notin MayTry(d)
    <3> TAKE i \in 1 .. k - 1
    <3>1. ch[i] \in Candidates
      <4>1. ch \in Seq(Candidates) /\ i \in 1 .. Len(ch)
        BY <1>1 DEF Whole
      <4> QED
        BY <4>1, ElementOfSeq
    <3>2. tried[d][ch[i]] > 0 \/ ch[i] \notin MayTry(d)
      BY <1>5 DEF Reached
    <3> QED
      BY <1>2, <1>3, <3>1, <3>2
  <2>2. ASSUME NEW x \in Candidates \ Circle(ch), tried'[d][x] > 0, x # c
        PROVE  \E i \in 1 .. k - 1 : ch[i] = x
    <3>1. tried[d][x] > 0
      BY <1>2, <2>2
    <3> QED
      BY <1>5, <2>2, <3>1 DEF Reached
  <2>3. ch[k] = c /\ \A i \in 1 .. k : Position(ch, ch[i]) = i
    BY <1>5 DEF Reached
  <2> QED
    BY <1>2, <1>3, <2>1, <2>2, <2>3 DEF Reached, Trying
<1>7. Running(d)'
  BY <1>2, <1>5, <1>6 DEF Running
<1>8. Whole(chain[d])'
  BY <1>1, <1>2
<1> QED
  BY <1>2, <1>4, <1>7, <1>8 DEF Sound

LEMMA LeftSound ==
  ASSUME TypeOK, NEW d \in Dispatches, NEW how \in {"returned", "raised"},
         End(d, how), Forget(d)
  PROVE  Sound(d)'
<1>1. /\ pc'[d] = how /\ chain'[d] = BaseChain
      /\ \A c \in Candidates : tried'[d][c] = 0
  BY DEF End, Forget, TypeOK
<1>2. Whole(chain[d])'
  BY <1>1, BaseWhole DEF Whole
<1>3. Counted(d)'
  BY <1>1, BoundsAssumption DEF Counted, Walking, Trying
<1> QED
  BY <1>1, <1>2, <1>3 DEF Sound, Walking, Trying

LEMMA DispatchStep ==
  ASSUME TypeOK, BreakerInv, DispatchInv, [Next]_vars
  PROVE  DispatchInv'
<1>1. ASSUME NEW d \in Dispatches, Start(d) \/ Step(d)
      PROVE  DispatchInv'
  <2>1. StaysOpen /\ \A e \in Dispatches \ {d} : Beside(e)
    BY <1>1, StepBeside DEF Step
  <2>2. \A e \in Dispatches \ {d} : Sound(e)'
    BY <2>1, BesideSound DEF DispatchInv
  <2>3. Sound(d)'
    <3>1. CASE Start(d)
      BY <3>1, StartSound
    <3>2. CASE Succeed(d)
      BY <3>2, LeftSound DEF Succeed
    <3>3. CASE FailTransient(d) \/ FailPermanent(d)
      BY <3>3, Failing, BackoffSound, LeaveSound
    <3>4. CASE Propagate(d)
      BY <3>4, LeftSound DEF Propagate
    <3>5. CASE Wake(d)
      BY <3>5, WakeSound
    <3>6. CASE Choose(d)
      BY <3>6, ChooseSound
    <3> QED
      BY <1>1, <3>1, <3>2, <3>3, <3>4, <3>5, <3>6 DEF Step
  <2> QED
    BY <2>2, <2>3 DEF DispatchInv
<1>2. CASE UNCHANGED vars
  <2>1. StaysOpen /\ \A e \in Dispatches : Beside(e)
    BY <1>2 DEF vars, StaysOpen, Beside
  <2> QED
    BY <2>1, BesideSound DEF DispatchInv
<1> QED
  BY <1>1, <1>2 DEF Next

LEMMA InvInit == Init => Inv
<1> SUFFICES ASSUME Init
             PROVE  Inv
  OBVIOUS
<1>1. TypeOK /\ BreakerInv
  BY TypeInit
<1>2. \A d \in Dispatches : Sound(d)
  <2> TAKE d \in Dispatches
  <2>1. pc[d] = "new" /\ chain[d] = BaseChain /\ \A c \in Candidates : tried[d][c] = 0
    BY DEF Init
  <2> QED
    BY <2>1, BaseWhole, BoundsAssumption DEF Sound, Counted, Walking, Trying
<1> QED
  BY <1>1, <1>2 DEF Inv, DispatchInv

THEOREM InvThm == Spec => []Inv
<1>1. Inv /\ [Next]_vars => Inv'
  BY TypeNext, DispatchStep DEF Inv
<1> QED
  BY <1>1, InvInit, PTL DEF Spec

(* Every variable keeps its type.                                          *)
THEOREM TypeCorrect == Spec => []TypeOK
<1>1. Inv => TypeOK
  BY DEF Inv
<1> QED
  BY <1>1, InvThm, PTL

-----------------------------------------------------------------------------
(* What it implies.                                                        *)

(* The retry budget: a dispatch tries a candidate MaxAttempts times at     *)
(* most, and comes back to none that it has left, unless it goes round in  *)
(* the circle of a chain that lists a candidate twice (the attempts of     *)
(* _run_per_candidate_attempts, the advance of _advance_or_exhaust).       *)
THEOREM BudgetThm == Spec => []BudgetHolds
<1>1. Inv => BudgetHolds
  <2> SUFFICES ASSUME Inv, NEW d \in Dispatches, NEW c \in Candidates,
                      ~(pc[d] \in Walking /\ c \in Circle(chain[d]))
               PROVE  tried[d][c] <= IF pc[d] \in Trying /\ cand[d] = c
                                     THEN attempt[d] + 1 ELSE MaxAttempts
    BY DEF BudgetHolds, Walking
  <2>1. Counted(d)
    BY DEF Inv, DispatchInv, Sound
  <2>2. CASE pc[d] \in Trying /\ cand[d] = c
    BY <2>1, <2>2 DEF Counted, Walking
  <2>3. CASE ~(pc[d] \in Trying /\ cand[d] = c)
    BY <2>1, <2>3, BoundsAssumption DEF Counted
  <2> QED
    BY <2>2, <2>3
<1> QED
  BY <1>1, InvThm, PTL

(* A configured chain that lists no candidate twice leaves no dispatch     *)
(* with a circle, whatever the layers bind: the budget holds for every     *)
(* candidate.  Nothing in the code checks the chain: this is the           *)
(* obligation of whoever configures it.                                    *)
THEOREM UnrepeatedThm ==
  ASSUME IsInjective(BaseChain)
  PROVE  Spec => [](\A d \in Dispatches, c \in Candidates : tried[d][c] <= MaxAttempts)
<1> DEFINE Bounded == \A d \in Dispatches, c \in Candidates : tried[d][c] <= MaxAttempts
<1>1. Inv => Bounded
  <2> SUFFICES ASSUME Inv, NEW d \in Dispatches
               PROVE  \A c \in Candidates : tried[d][c] <= MaxAttempts
    OBVIOUS
  <2> DEFINE ch == chain[d]
  <2>1. Whole(ch) /\ Counted(d)
    BY DEF Inv, DispatchInv, Sound
  <2>2. \A i, j \in 1 .. Len(ch) : ch[i] = ch[j] => i = j
    <3>1. DOMAIN BaseChain = 1 .. Len(BaseChain)
      BY ChainAssumption, LenProperties
    <3> QED
      BY <2>1, <3>1 DEF Whole, IsInjective
  <2>3. \A k \in 1 .. Len(ch) : Position(ch, ch[k]) = k
    <3> TAKE k \in 1 .. Len(ch)
    <3>1. Position(ch, ch[k]) \in 1 .. k /\ ch[Position(ch, ch[k])] = ch[k]
      BY <2>1, Positioned DEF Whole
    <3>2. Position(ch, ch[k]) \in 1 .. Len(ch)
      BY <2>1, <3>1 DEF Whole
    <3> QED
      BY <2>2, <3>1, <3>2
  <2>4. Circle(ch) = {}
    BY <2>1, <2>3, NoCircle DEF Whole
  <2> QED
    BY <2>1, <2>4, BoundsAssumption DEF Counted
<1> HIDE DEF Bounded
<1>2. Spec => []Bounded
  BY <1>1, InvThm, PTL
<1> QED
  BY <1>2 DEF Bounded

(* A dispatch reports that its chain is exhausted only when every          *)
(* configured candidate, also one that an override displaced, was tried,   *)
(* lacks a capability or has an open breaker.                              *)
THEOREM ExhaustedThm == Spec => []ExhaustedTriedAll
<1>1. Inv => ExhaustedTriedAll
  <2> SUFFICES ASSUME Inv, NEW d \in Dispatches, pc[d] = "exhausted",
                      NEW c \in Range(BaseChain)
               PROVE  tried[d][c] > 0 \/ c \notin MayTry(d)
    BY DEF ExhaustedTriedAll
  <2>1. \E b \in 1 .. Len(BaseChain) : c = BaseChain[b]
    BY BaseWhole, LenProperties DEF Whole, Range
  <2> QED
    BY <2>1 DEF Inv, DispatchInv, Sound, Exhausted
<1> QED
  BY <1>1, InvThm, PTL

(* An open breaker.                                                        *)
LEMMA OpenStep ==
  ASSUME Inv, OpenStopsCalls, [Next]_vars
  PROVE  OpenStopsCalls'
<1> USE DEF OpenStopsCalls
<1>1. TypeOK /\ BreakerInv /\ DispatchInv
  BY DEF Inv
<1> USE DEF TypeOK
<1>2. ASSUME NEW d \in Dispatches, Start(d)
      PROVE  OpenStopsCalls'
  BY <1>1, <1>2 DEF Start, Trying
<1>3. ASSUME NEW d \in Dispatches, Succeed(d)
      PROVE  OpenStopsCalls'
  <2>1. pc'[d] \notin Trying /\ UNCHANGED grace
    BY <1>1, <1>3 DEF Succeed, End, Trying
  <2>2. \A c \in Candidates : breaker'[c].state = "open" => breaker[c].state = "open"
    <3>1. AfterSuccess(breaker[cand[d]]).state = "open" => breaker[cand[d]].state = "open"
      BY <1>1 DEF AfterSuccess
    <3> QED
      BY <1>1, <1>3, <3>1 DEF Succeed
  <2>3. \A e \in Dispatches \ {d} : Beside(e)
    BY <1>1, <1>3, StepBeside
  <2> QED
    <3> SUFFICES ASSUME NEW e \in Dispatches, pc'[e] \in Trying,
                        breaker'[cand'[e]].state = "open"
                 PROVE  e \in grace'[cand'[e]]
      OBVIOUS
    <3>1. e # d /\ pc[e] = pc'[e] /\ cand[e] = cand'[e]
      BY <2>1, <2>3 DEF Beside
    <3> QED
      BY <1>1, <2>1, <2>2, <3>1
<1>4. ASSUME NEW d \in Dispatches, NEW k \in 1 .. Len(chain[d]), Leaves(d, k),
             \A e \in Dispatches \ {d} : Beside(e)
      PROVE  OpenStopsCalls'
  <2> DEFINE c == cand[d]
  <2>1. ASSUME NEW e \in Dispatches \ {d}, pc'[e] \in Trying, breaker'[cand'[e]].state = "open"
        PROVE  e \in grace'[cand'[e]]
    <3>1. pc[e] \in Trying /\ cand'[e] = cand[e] /\ cand[e] \in Candidates /\ c \in Candidates
      BY <1>1, <1>4, <2>1 DEF Beside
    <3>2. CASE cand[e] # c
      BY <1>1, <1>4, <2>1, <3>1, <3>2 DEF Leaves
    <3>3. CASE cand[e] = c /\ breaker[c].state = "open"
      BY <1>1, <1>4, <3>1, <3>3 DEF Leaves
    <3>4. CASE cand[e] = c /\ breaker[c].state # "open"
      BY <1>1, <1>4, <2>1, <3>1, <3>4 DEF Leaves
    <3> QED
      BY <3>2, <3>3, <3>4
  <2>2. pc'[d] \notin Trying
    BY <1>1, <1>4, AdvanceType DEF Leaves, DispatchInv, Sound, Trying
  <2> QED
    BY <2>1, <2>2
<1>5. ASSUME NEW d \in Dispatches, FailTransient(d) \/ FailPermanent(d)
      PROVE  OpenStopsCalls'
  <2>1. CASE Backoff(d)
    <3>1. pc[d] = "attempt"
      BY <1>1, <1>5, Failing
    <3> QED
      BY <1>1, <2>1, <3>1 DEF Backoff, Trying
  <2>2. \A e \in Dispatches \ {d} : Beside(e)
    BY <1>1, <1>5, StepBeside
  <2> QED
    BY <1>1, <1>4, <1>5, <2>1, <2>2, Failing
<1>6. ASSUME NEW d \in Dispatches, Propagate(d)
      PROVE  OpenStopsCalls'
  BY <1>1, <1>6 DEF Propagate, End, Trying
<1>7. ASSUME NEW d \in Dispatches, Wake(d)
      PROVE  OpenStopsCalls'
  BY <1>1, <1>7 DEF Wake, Trying
<1>8. ASSUME NEW d \in Dispatches, Choose(d)
      PROVE  OpenStopsCalls'
  <2>1. UNCHANGED <<breaker, grace>>
    BY <1>1, <1>8, Choosing
  <2>2. CASE cand[d] \in MayTry(d) /\ Enter(d)
    BY <1>1, <2>1, <2>2 DEF Enter, MayTry, Trying
  <2>3. ASSUME NEW k \in 1 .. Len(chain[d]), Goes(d, k)
        PROVE  OpenStopsCalls'
    <3>1. pc'[d] \notin Trying
      BY <1>1, <2>3, AdvanceType DEF DispatchInv, Sound, Trying
    <3>2. \A e \in Dispatches \ {d} : pc'[e] = pc[e] /\ cand'[e] = cand[e]
      BY <1>1, <2>3, GoesBeside
    <3> QED
      BY <2>1, <3>1, <3>2
  <2> QED
    BY <1>1, <1>8, <2>2, <2>3, Choosing
<1>9. CASE UNCHANGED vars
  BY <1>9 DEF vars
<1> QED
  BY <1>2, <1>3, <1>5, <1>6, <1>7, <1>8, <1>9 DEF Next, Step

(* Only the dispatches that were trying a candidate when its breaker       *)
(* opened still try it afterwards.                                         *)
THEOREM OpenThm == Spec => []OpenStopsCalls
<1>1. Init => OpenStopsCalls
  BY DEF Init, OpenStopsCalls, Trying
<1>2. Inv /\ OpenStopsCalls /\ [Next]_vars => OpenStopsCalls'
  BY OpenStep
<1> QED
  BY <1>1, <1>2, InvThm, PTL DEF Spec

(* However many answers its attempts obtained and paid for, the cost of a  *)
(* dispatch is attributed once, for the answer that it returns.            *)
THEOREM CostThm == Spec => []CostOfResult
<1>1. Init => CostOfResult
  BY DEF Init, CostOfResult
<1>2. Inv /\ CostOfResult /\ [Next]_vars => CostOfResult'
  <2> SUFFICES ASSUME Inv, CostOfResult, [Next]_vars
               PROVE  CostOfResult'
    OBVIOUS
  <2>1. TypeOK /\ BreakerInv /\ DispatchInv
    BY DEF Inv
  <2>2. ASSUME NEW d \in Dispatches, Start(d) \/ Step(d)
        PROVE  CostOfResult'
    <3>1. \A e \in Dispatches \ {d} : pc'[e] = pc[e]
      BY <2>1, <2>2, StepBeside DEF Beside, Step
    <3>2. CASE Start(d)
      <4>1. pc[d] = "new" /\ pc'[d] = "choosing" /\ UNCHANGED costs
        BY <2>1, <3>2 DEF Start, TypeOK
      <4> QED
        BY <3>1, <4>1 DEF CostOfResult
    <3>3. CASE Succeed(d)
      <4>1. pc[d] = "attempt" /\ pc'[d] = "returned" /\ costs' = [costs EXCEPT ![d] = @ + 1]
        BY <2>1, <3>3 DEF Succeed, End, TypeOK
      <4> QED
        <5>1. costs[d] = 0 /\ costs'[d] = 1
          BY <2>1, <4>1 DEF CostOfResult, TypeOK
        <5>2. \A e \in Dispatches \ {d} : costs'[e] = costs[e]
          BY <2>1, <4>1 DEF TypeOK
        <5> QED
          BY <3>1, <4>1, <5>1, <5>2 DEF CostOfResult
    <3>4. CASE FailTransient(d) \/ FailPermanent(d)
      <4>1. pc[d] = "attempt" /\ UNCHANGED costs
        BY <2>1, <3>4, Failing
      <4>2. pc'[d] # "returned"
        <5>1. CASE Backoff(d)
          BY <2>1, <5>1 DEF Backoff, TypeOK
        <5>2. ASSUME NEW k \in 1 .. Len(chain[d]), Leaves(d, k)
              PROVE  pc'[d] # "returned"
          <6>1. Whole(chain[d])
            BY <2>1 DEF DispatchInv, Sound
          <6> QED
            BY <2>1, <5>2, <6>1, AdvanceType DEF Leaves
        <5> QED
          BY <2>1, <3>4, <5>1, <5>2, Failing
      <4> QED
        BY <3>1, <4>1, <4>2 DEF CostOfResult
    <3>5. CASE Propagate(d)
      <4>1. pc[d] # "returned" /\ pc'[d] = "raised" /\ UNCHANGED costs
        BY <2>1, <3>5 DEF Propagate, End, TypeOK, Trying
      <4> QED
        BY <3>1, <4>1 DEF CostOfResult
    <3>6. CASE Wake(d)
      <4>1. pc[d] = "sleep" /\ pc'[d] = "attempt" /\ UNCHANGED costs
        BY <2>1, <3>6 DEF Wake, TypeOK
      <4> QED
        BY <3>1, <4>1 DEF CostOfResult
    <3>7. CASE Choose(d)
      <4>1. pc[d] = "choosing" /\ UNCHANGED costs
        BY <2>1, <3>7, Choosing
      <4>2. pc'[d] # "returned"
        <5>1. CASE Enter(d)
          BY <2>1, <5>1 DEF Enter, TypeOK
        <5>2. ASSUME NEW k \in 1 .. Len(chain[d]), Goes(d, k)
              PROVE  pc'[d] # "returned"
          <6>1. Whole(chain[d])
            BY <2>1 DEF DispatchInv, Sound
          <6> QED
            BY <2>1, <5>2, <6>1, AdvanceType
        <5> QED
          BY <2>1, <3>7, <5>1, <5>2, Choosing
      <4> QED
        BY <3>1, <4>1, <4>2 DEF CostOfResult
    <3> QED
      BY <2>2, <3>2, <3>3, <3>4, <3>5, <3>6, <3>7 DEF Step
  <2>3. CASE UNCHANGED vars
    BY <2>3 DEF vars, CostOfResult
  <2> QED
    BY <2>2, <2>3 DEF Next
<1> QED
  BY <1>1, <1>2, InvThm, PTL DEF Spec

-----------------------------------------------------------------------------
(* A chain that is walked in a circle.                                     *)

(* The loop belongs to one dispatch.                                       *)
Alone == \A d, e \in Dispatches : pc[d] = "choosing" /\ pc[e] = "choosing" => d = e

LEMMA AloneStep ==
  ASSUME Inv, Alone, [Next]_vars
  PROVE  Alone'
<1>1. ASSUME NEW d \in Dispatches, Start(d) \/ Step(d)
      PROVE  Alone'
  <2>1. \A e \in Dispatches \ {d} : pc'[e] = pc[e]
    BY <1>1, StepBeside DEF Inv, Beside, Step
  <2>2. \A e \in Dispatches \ {d} : pc[e] # "choosing"
    <3>1. CASE LoopFree
      BY <3>1 DEF LoopFree
    <3>2. CASE ~LoopFree
      <4>1. pc[d] = "choosing"
        BY <1>1, <3>2 DEF Start, Step, Choose
      <4> QED
        BY <4>1 DEF Alone
    <3> QED
      BY <3>1, <3>2
  <2> QED
    BY <2>1, <2>2 DEF Alone
<1>2. CASE UNCHANGED vars
  BY <1>2 DEF vars, Alone
<1> QED
  BY <1>1, <1>2 DEF Next

(* A dispatch that can try nothing of a chain which lists a candidate      *)
(* twice walks it for ever, and the loop runs nothing else                 *)
(* (on_provider_failure looks for the first place of the candidate).       *)
THEOREM CircleThm == Spec => CirclingLasts
<1> DEFINE Lasts(d) ==
      /\ Circling(d)'
      /\ \A e \in Dispatches \ {d} : pc'[e] = pc[e]
      /\ UNCHANGED <<breaker, tried, costs>>
<1>1. Init => Alone
  BY DEF Init, Alone
<1>2. ASSUME Inv, Alone, [Next]_vars, NEW d \in Dispatches, Circling(d)
      PROVE  Lasts(d)
  <2> DEFINE ch == chain[d]
  <2>1. pc[d] = "choosing" /\ ~LoopFree
    BY <1>2 DEF Circling, LoopFree
  <2>2. ASSUME NEW e \in Dispatches, Start(e) \/ Step(e)
        PROVE  e = d /\ Choose(d)
    <3>1. Choose(e)
      BY <2>1, <2>2 DEF Start, Step
    <3> QED
      BY <1>2, <2>1, <3>1 DEF Choose, Alone
  <2>3. CASE Choose(d)
    <3>1. TypeOK /\ DispatchInv /\ Whole(ch) /\ ch \in Seq(Candidates)
      BY <1>2 DEF Inv, DispatchInv, Sound, Whole
    <3>2. UNCHANGED <<able, breaker, costs>>
      BY <2>3, <3>1, Choosing
    <3>3. PICK k \in 1 .. Len(ch) : /\ Reached(d, k)
                                   /\ \/ cand[d] \in MayTry(d) /\ Enter(d)
                                      \/ cand[d] \notin MayTry(d) /\ Goes(d, k) /\ UNCHANGED tried
      BY <2>3, <3>1, Choosing
    <3>4. Goes(d, k) /\ UNCHANGED tried
      <4>1. cand[d] \in Range(ch)
        BY <3>1, <3>3, LenProperties DEF Reached, Range
      <4> QED
        BY <1>2, <3>3, <4>1 DEF Circling
    <3>5. ~(k = Len(ch))
      <4> SUFFICES ASSUME k = Len(ch)
                   PROVE  IsInjective(ch)
        BY <1>2 DEF Circling
      <4>1. \A i \in 1 .. Len(ch) : Position(ch, ch[i]) = i
        BY <3>3 DEF Reached
      <4>2. \A i, j \in 1 .. Len(ch) : ch[i] = ch[j] => i = j
        BY <4>1
      <4> QED
        BY <3>1, <4>2, LenProperties DEF IsInjective
    <3>6. pc'[d] = "choosing" /\ UNCHANGED chain
      BY <3>1, <3>4, <3>5 DEF Goes, TypeOK
    <3>7. MayTry(d)' = MayTry(d)
      BY <3>2 DEF MayTry
    <3>8. Circling(d)'
      BY <1>2, <3>6, <3>7 DEF Circling
    <3>9. \A e \in Dispatches \ {d} : pc'[e] = pc[e]
      BY <3>1, <3>4, GoesBeside
    <3> QED
      BY <3>2, <3>4, <3>8, <3>9
  <2>4. CASE UNCHANGED vars
    <3>1. MayTry(d)' = MayTry(d) /\ UNCHANGED <<pc, chain, breaker, tried, costs>>
      BY <2>4 DEF vars, MayTry
    <3>2. Circling(d)'
      BY <1>2, <3>1 DEF Circling
    <3> QED
      BY <3>1, <3>2
  <2> QED
    BY <1>2, <2>2, <2>3, <2>4 DEF Next
<1>3. Inv /\ Alone /\ [Next]_vars =>
        [\A d \in Dispatches : Circling(d) => Lasts(d)]_vars
  BY <1>2
<1> HIDE DEF Lasts
<1>4. Spec => [][\A d \in Dispatches : Circling(d) => Lasts(d)]_vars
  BY <1>1, <1>3, InvThm, AloneStep, PTL DEF Spec
<1> QED
  BY <1>4 DEF Lasts, CirclingLasts
=============================================================================
