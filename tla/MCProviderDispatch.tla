------------------------- MODULE MCProviderDispatch -------------------------
(* ProviderDispatch with two models in the chain; "x", a model outside it, *)
(* may be bound by any layer, the second by a step's override, and a step  *)
(* may exclude "a".  The configured chain lists "b" twice: a dispatch goes *)
(* round in a circle at "b" unless this is its primary.                    *)
EXTENDS ProviderDispatch, TLC

RepeatedChain == <<"a", "b", "b">>
Unbound == [l \in {"override", "workload", "role", "routed"} |-> "none"]
AllRequests ==
  [bound : {[Unbound EXCEPT ![l] = "x"] : l \in DOMAIN Unbound}, able : {{"a", "b", "x"}}]
    \cup [bound : {Unbound, [Unbound EXCEPT !["override"] = "b"]},
          able : {{"a", "b", "x"}, {"b", "x"}}]
Symmetry == Permutations(Dispatches)

(* Without drops what it should, in any chain of up to four places.        *)
ASSUME WithoutSelects ==
  \A n \in 0 .. 4 : \A ch \in [1 .. n -> {"a", "b", "x"}] :
    Without(ch, "b") = SelectSeq(ch, LAMBDA c : c # "b")
=============================================================================
