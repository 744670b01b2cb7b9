\* One workflow, two clients with two control calls; a crash or a write
\* that raises.  The lookup window is larger than everything ever stored.
SPECIFICATION FairSpec
CONSTANTS
    Workflows = {"w1"}
    Callers = {"c1", "c2"}
    None = "none"
    Outcomes = {"SUCCESS"}
    Batches = 1
    Metrics = 1
    Limit = 10
    MaxCalls = 2
    MaxFaults = 1
INVARIANTS OrchestrationTypeOK OneRecord AcceptedFindable
PROPERTIES Settles
CHECK_DEADLOCK FALSE
