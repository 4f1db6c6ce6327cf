----------------------------- MODULE MCCatchUp -----------------------------
(* Instances of CatchUp for TLC. *)
EXTENDS CatchUp

\* What happens in a behaviour, each thing as often as it is named, and who
\* votes under each serial: the same, or one less.
With(voters, few) ==
  [voters |-> voters, events |-> [e \in CatchEvent |-> Cardinality({i \in DOMAIN few : few[i] = e})]]
Same == <<{"a", "b"}, {"a", "b"}>>
Less == <<{"a", "b"}, {"a"}>>
Together ==
  {With(Same, few) : few \in {
     <<"restart", "edit", "edit">>, <<"restart", "edit", "slow">>, <<"restart", "edit", "lost">>,
     <<"restart", "edit", "unconfirmed">>, <<"restart", "unacked">>, <<"unread", "edit">>,
     <<"forgotten", "edit">>, <<"agree", "edit", "edit", "unconfirmed">>,
     <<"agree", "manual">>, <<"agree", "edit", "cut">>}}
  \cup {With(Less, <<"agree", "edit", "manual">>)}
=============================================================================
