----------------------------- MODULE MCCombiner -----------------------------
EXTENDS Combiner

\* One record of each type, and CSYNC serials on both sides of the wrap.
SmallRecords == [t \in Type |-> IF t = "CSYNC" THEN {0, 3} ELSE {1}]

\* The owner's zone has an NS, and a CDS of its own or none.
TwoUpstreams == {[t \in Type |-> IF t = "NS" \/ t \in own THEN {5} ELSE {}] : own \in {{}, {"CDS"}}}

\* Serial 1 has both agents sign, 2 the own agent alone; by 3 the combiner's
\* provider is no signer any more.
FourStandings == [h \in 0..3 |-> IF h = 3 THEN "bystander" ELSE "signer"]
FourSigners == [h \in 0..3 |-> IF h = 1 THEN Agent ELSE {Mine}]
=============================================================================
