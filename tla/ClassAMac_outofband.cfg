CONSTANTS
    NoChannel = NoChannel
    SubBandList <- MCSubBands
    Slots = {0, 1, 2, 3}
    InitChannels <- DefaultChannelsAndFreeSlot
    MaxPackets = 3
    PayloadSizes = {10}
    AdrAckLimit = 1
    AdrAckDelay = 1
    ReceiveDelay1 = 2
    ReceiveDelay2 = 4
    WindowDuration = 1
    AirTime = 1
    AckTimeouts = {2, 6}
    RxDurations = {1, 3}
    MaxTime = 2
    InitRadios <- UnconfirmedRadios
    AppWaitsForIdle = TRUE
    AppCommands <- NoAppCommands
    DownlinkCommands <- DisableThenAllOn
SPECIFICATION Spec
CHECK_DEADLOCK FALSE
INVARIANT EnabledChannelsInBand
