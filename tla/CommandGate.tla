---------------------------- MODULE CommandGate ----------------------------
(***************************************************************************)
(* What the worker of one instrument promises to its callers, without      *)
(* queues, epochs, locks or connections:                                   *)
(*                                                                         *)
(*   - at most one command is being carried out at any time, and it was    *)
(*     handed in by whoever owned the instrument when it began;            *)
(*   - a change of ownership (a flow session acquired, released or         *)
(*     lapsed), an emergency stop and a demand for a manual check cancel,  *)
(*     in the same instant, every command that was handed in before and    *)
(*     has not begun;                                                      *)
(*   - while the instrument is locked no command begins;                   *)
(*   - a session is not taken over by another one before it lapses.        *)
(*                                                                         *)
(* InstrumentWorker implements this module (property ImplementsGate).      *)
(***************************************************************************)
EXTENDS FiniteSets

CONSTANTS Command,  \* the commands callers may hand in, each at most once
          Session,  \* the flow sessions that may own the instrument
          NoOwner,  \* the owner when no session holds the instrument
          Idle,     \* nothing is being carried out
          SafeStop  \* the emergency sequence is being carried out

VARIABLES owner,      \* the session that holds the instrument, or NoOwner
          lapsed,     \* the owner's time is up
          locked,     \* locked until a manual check
          stopQueued, \* an emergency stop was accepted and has not begun
          live,       \* <<command, who handed it in>> for all that may still begin
          inflight    \* the command being carried out, SafeStop or Idle

gateVars == <<owner, lapsed, locked, stopQueued, live, inflight>>

GateTypeOK ==
    /\ owner \in Session \cup {NoOwner}
    /\ lapsed \in BOOLEAN
    /\ locked \in BOOLEAN
    /\ stopQueued \in BOOLEAN
    /\ live \in SUBSET (Command \X (Session \cup {NoOwner}))
    /\ inflight \in Command \cup {Idle, SafeStop}

GateInit ==
    /\ owner = NoOwner
    /\ lapsed = FALSE
    /\ locked = FALSE
    /\ stopQueued = FALSE
    /\ live = {}
    /\ inflight = Idle

-----------------------------------------------------------------------------

\* The instrument goes to s and whatever was handed in before is cancelled.
Boundary(s) ==
    /\ owner' = s
    /\ lapsed' = FALSE
    /\ live' = {}

\* The owner hands in command c.
HandIn(c) ==
    /\ ~locked
    /\ <<c, owner>> \notin live
    /\ c # inflight
    /\ live' = live \cup {<<c, owner>>}
    /\ UNCHANGED <<owner, lapsed, locked, stopQueued, inflight>>

\* The lapsed session is noticed; whoever notices may hand in a command as nobody's.
Expire(handedIn) ==
    /\ owner # NoOwner
    /\ lapsed
    /\ owner' = NoOwner
    /\ lapsed' = FALSE
    /\ live' = {<<c, NoOwner>> : c \in handedIn}
    /\ handedIn # {} => ~locked
    /\ UNCHANGED <<locked, stopQueued, inflight>>

\* Command c is refused or cancelled before it begins.
Drop(c) ==
    /\ <<c, owner>> \in live
    /\ live' = live \ {<<c, owner>>}
    /\ UNCHANGED <<owner, lapsed, locked, stopQueued, inflight>>

\* Command c, still live, begins.
Begin(c) ==
    /\ <<c, owner>> \in live
    /\ ~locked
    /\ inflight = Idle
    /\ inflight' = c
    /\ live' = live \ {<<c, owner>>}
    /\ UNCHANGED <<owner, lapsed, locked, stopQueued>>

\* The accepted emergency stop begins.
BeginStop ==
    /\ stopQueued
    /\ inflight = Idle
    /\ stopQueued' = FALSE
    /\ inflight' = SafeStop
    /\ UNCHANGED <<owner, lapsed, locked, live>>

\* What was being carried out ends; the emergency sequence may lock again.
End ==
    /\ inflight # Idle
    /\ inflight' = Idle
    /\ \/ UNCHANGED locked
       \/ inflight = SafeStop /\ locked' = TRUE
    /\ UNCHANGED <<owner, lapsed, stopQueued, live>>

Acquire(s) ==
    /\ ~locked
    /\ owner \in {NoOwner, s} \/ lapsed
    /\ Boundary(s)
    /\ UNCHANGED <<locked, stopQueued, inflight>>

Release ==
    /\ owner # NoOwner
    /\ Boundary(NoOwner)
    /\ UNCHANGED <<locked, stopQueued, inflight>>

Lapse ==
    /\ owner # NoOwner
    /\ lapsed' = TRUE
    /\ UNCHANGED <<owner, locked, stopQueued, live, inflight>>

EmergencyStop ==
    /\ ~stopQueued
    /\ stopQueued' = TRUE
    /\ locked' = TRUE
    /\ Boundary(NoOwner)
    /\ UNCHANGED inflight

RequireManualCheck ==
    /\ locked' = TRUE
    /\ Boundary(NoOwner)
    /\ UNCHANGED <<stopQueued, inflight>>

ConfirmManualCheck ==
    /\ locked
    /\ locked' = FALSE
    /\ UNCHANGED <<owner, lapsed, stopQueued, live, inflight>>

GateNext ==
    \/ \E c \in Command : HandIn(c) \/ Drop(c) \/ Begin(c) \/ Expire({c})
    \/ \E s \in Session : Acquire(s)
    \/ Expire({})
    \/ BeginStop
    \/ End
    \/ Release
    \/ Lapse
    \/ EmergencyStop
    \/ RequireManualCheck
    \/ ConfirmManualCheck

GateSpec == GateInit /\ [][GateNext]_gateVars
=============================================================================
