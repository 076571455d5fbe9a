------------------------ MODULE InstrumentFlowCases ------------------------
(***************************************************************************)
(* Three bounded instances of InstrumentFlow explored as one state         *)
(* machine:                                                                *)
(* the bounds of a behaviour are those of the case it starts in, and the   *)
(* properties of InstrumentFlow are checked in all of them.  The constants *)
(* of the configuration are the largest of the three.                      *)
(***************************************************************************)
EXTENDS MCInstrumentFlow

VARIABLE focus   \* the case

\* Two flows one after the other: deadlines, reaper, one fault.
Sessions == INSTANCE InstrumentFlow WITH
    Stoppable <- {}, Grounds <- {}, Points <- 1, MaxFaults <- 1, MaxStops <- 0

\* Two flows and two emergency stops whose handlers may be overtaken.
Emergency == INSTANCE InstrumentFlow WITH
    Overdue <- {}, Stoppable <- {}, Grounds <- {}, Points <- 1, MaxFaults <- 0

\* One flow that is stopped, overdue or deprived of its lease or permission at any
\* moment, with faults, and the command limit of a sweep of more than one point.
Authority == INSTANCE InstrumentFlow WITH MaxStops <- 0
OneFlowOnly == Cardinality({f \in Flow : status'[f] # "none"}) <= 1

CasesInit == Init /\ focus \in {"sessions", "emergency", "authority"}

CasesNext ==
    /\ UNCHANGED focus
    /\ \/ focus = "sessions" /\ Sessions!Next
       \/ focus = "emergency" /\ Emergency!Next
       \/ focus = "authority" /\ Authority!Next /\ OneFlowOnly

CasesSpec == CasesInit /\ [][CasesNext]_<<vars, focus>>
=============================================================================
