---------------------------- MODULE MCParentSync ----------------------------
(* Instances of ParentSync for TLC. *)
EXTENDS ParentSync

\* What happens in a behaviour, each thing as often as it is named.
With(few) == [e \in Event |-> Cardinality({i \in DOMAIN few : few[i] = e})]
Mixes ==
  {With(few) : few \in {
     <<"ns", "ns", "rejected">>, <<"ns", "freeze", "turn">>, <<"ns", "lead">>, <<"ns", "invalid">>,
     <<"ns", "owner">>, <<"ns", "leave">>, <<"ns", "behind", "key">>, <<"ns", "refused", "refused", "refused">>,
     <<"ns", "lost", "lost">>, <<"ns", "untaken", "down">>, <<"said", "inventory">>, <<"said", "freeze">>,
     <<"inventory", "freeze">>, <<"inventory", "owner">>,
     <<"ns", "inventory">>, <<"inventory", "lead">>, <<"inventory", "leave">>}}
=============================================================================
