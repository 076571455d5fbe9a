------------------------- MODULE MCInstrumentWorker -------------------------
(* Values for the constants of InstrumentWorker.                           *)
EXTENDS InstrumentWorker, TLC

CONSTANTS c1, c2, f1, f2

TwoCommands == {c1, c2}
TwoSessions == {f1, f2}
=============================================================================
