SPECIFICATION FairSpec
CONSTANTS
    NThreads = 2
    Functors = {"Execute", "Job"}
    Actors = {2, 4}
    MsgIDs = {"echo", "mute"}
    Handlers = {{"echo"}}
    EndIDs = {"echo"}
    JobIDs = {0}
    MaxMsgs = 2
    MaxJobs = 1
    MaxTasks = 1
PROPERTIES
    MessagesSettle
    ReleasedActorGoesQuiet
    JobsEnd
CHECK_DEADLOCK FALSE
