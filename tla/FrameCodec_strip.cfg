CONSTANTS
    Addresses <- MCAddresses
    FCnts <- MCFCnts
    FPorts = {1}
    UplinkCommands <- UplinkAnswers
    DownlinkCommands <- DownlinkRequests
    MaxCommands = 2
    Payload <- MCPayload
INIT Init
NEXT Next
INVARIANT RetryStripIntact
