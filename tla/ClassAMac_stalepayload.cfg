CONSTANTS
    NoChannel = NoChannel
    SubBandList <- MCSubBands
    Slots = {0, 1, 2}
    InitChannels <- DefaultChannels
    MaxPackets = 2
    PayloadSizes = {50}
    AdrAckLimit = 1
    AdrAckDelay = 1
    ReceiveDelay1 = 2
    ReceiveDelay2 = 4
    WindowDuration = 1
    AirTime = 1
    AckTimeouts = {2, 6}
    RxDurations = {1, 3}
    MaxTime = 2
    InitRadios <- Dr3Radios
    AppWaitsForIdle = FALSE
    AppCommands <- NoAppCommands
    DownlinkCommands <- LowerToDr0
SPECIFICATION Spec
CHECK_DEADLOCK FALSE
INVARIANT FrameFitsDataRate
