\* Two instruments and the chat's late answer.
SPECIFICATION Spec
CONSTANTS
    Instrument = {"a", "b"}
    Command = {"read", "write"}
    Yellow = {"write"}
    MaxEvent = 3
INVARIANT CandidateRunsWhereMeant
CHECK_DEADLOCK FALSE
