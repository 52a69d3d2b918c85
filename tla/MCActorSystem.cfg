SPECIFICATION Spec
CONSTANTS
    NThreads = 2
    Functors = {"Execute", "Job"}
    Actors = {2, 4}
    MsgIDs = {"echo", "mute"}
    Handlers = {{"echo"}}
    EndIDs = {"echo"}
    JobIDs = {0}
    MaxMsgs = 2
    MaxJobs = 2
    MaxTasks = 1
INVARIANTS
    OneThreadPerActor
    NothingLostOrDoubled
PROPERTIES
    EndsInSendOrder
    JobsEndInOrder
    ImplementsMailbox
CHECK_DEADLOCK FALSE
