SPECIFICATION Spec
CONSTANTS
    Clients = {"c1"}
    Events <- MCEvents
    Files <- MCFiles
    Shipped <- MCShipped
    Broken = Broken
    Missing = Missing
    Absent = Absent
    Cut = Cut
    Unasked = Unasked
    RiftFiles <- MCRifts
    FirstMonth <- Autumn
    MaxMonths = 2
    MaxWeeks = 2
CHECK_DEADLOCK FALSE
INVARIANTS SessionInStep Answered
PROPERTIES RotationInOrder
