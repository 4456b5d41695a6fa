CONSTANTS
    NoChannel = NoChannel
    SubBandList <- MCSubBands
    Slots = {0, 1, 2}
    InitChannels <- DefaultChannels
    MaxPackets = 2
    PayloadSizes = {10}
    AdrAckLimit = 2
    AdrAckDelay = 1
    ReceiveDelay1 = 2
    ReceiveDelay2 = 4
    WindowDuration = 1
    AirTime = 1
    AckTimeouts = {2, 6}
    RxDurations = {1, 3}
    MaxTime = 2
    InitRadios <- ConfirmedRadios
    AppWaitsForIdle = FALSE
    AppCommands <- NoAppCommands
    DownlinkCommands <- NoCommands
SPECIFICATION Spec
CHECK_DEADLOCK FALSE
INVARIANT AtMostOneReport
