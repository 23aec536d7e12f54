\* Two sends that overlap, or a send while another page runs the agent.
SPECIFICATION StoreSpec
CONSTANTS
    c1 = c1
    c2 = c2
    c3 = c3
    x1 = x1
    SendSeq <- SendSeqMC
    Others = {x1}
    Deltas <- DeltasMC
    Scenarios <- ScenariosMC
    Repeated = {c1, x1}
    NoSend = NoSend
INVARIANTS
    StoreTypeOK
    SettledStays
    RunningHasSender
    StopReaches
    TextIsOwn
PROPERTIES
    ShownTextStays
CHECK_DEADLOCK FALSE
