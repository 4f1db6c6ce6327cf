---------------------------- MODULE MCKeyRounds ----------------------------
(* Instances of KeyRounds for TLC. *)
EXTENDS KeyRounds

\* What happens in a behaviour, each thing as often as it is named.
With(few) == [e \in Event |-> Cardinality({i \in DOMAIN few : few[i] = e})]
Both == <<{"a", "b"}, {"a", "b"}>>
Grows == <<{"a"}, {"a", "b"}>>
Leaves == <<{"a", "b"}, {"b"}>>

Case(votes, holder, published, few) ==
  [voters |-> votes, holder |-> holder, published |-> published, mix |-> With(few)]
Mixes ==
  {Case(Both, "b", {"k1"}, <<"elect">>),
   Case(Both, "a", {"k1"}, <<"renew", "refuse">>),
   Case(Both, "b", {"k1"}, <<"crash">>),
   Case(Both, "b", {}, <<"fail">>),
   Case(Both, None, {}, <<"fail">>),
   Case(Both, "b", {}, <<"silent">>),
   Case(Both, None, {}, <<"unread">>),
   Case(Both, None, {}, <<"behind">>),
   Case(Both, "a", {"k1"}, <<"elect">>),
   Case(Leaves, "b", {"k1"}, <<"move">>),
   Case(Grows, "b", {}, <<"move">>),
   Case(Both, "a", {"k1"}, <<"move", "roll">>)}
=============================================================================
