\* Two replicas and a request, a change, and a hiccup, a failed query or a crash.
SPECIFICATION Spec
CONSTANTS
    Zone <- Zones
    Replica = {r1, r2}
    Request = {q1}
    Channel = {hook}
    MaxChanges = 1
    MaxRequests = 1
    MaxFaults = 1
    None = None
INVARIANTS
    OneReport
PROPERTIES
    NoFalseAlarm
    NoFlood
    Settles
CHECK_DEADLOCK FALSE
