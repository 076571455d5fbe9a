\* An administrator adds a member who is the last owner in another role.
SPECIFICATION Spec
CONSTANTS
    Project = {"p"}
    User = {"me", "u"}
    Me = "me"
    MaxEvent = 2
INVARIANT OwnerRemains
CHECK_DEADLOCK FALSE
