-------------------------- MODULE MCInstrumentFlow --------------------------
(* Values for the constants of InstrumentFlow.                             *)
EXTENDS InstrumentFlow, TLC

CONSTANTS f1, f2

OneFlow == {f1}
TwoFlows == {f1, f2}
Alike == Permutations(Flow)
NoFlow == {}
NoGround == {}
LeaseOnly == {"lease"}
AnyGround == {"lease", "permission"}
=============================================================================
