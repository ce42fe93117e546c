\* The host driver: 64 bit settings in two writes, addresses, buffers and runs.
SPECIFICATION DriverSpec
CONSTANTS
    p1 = p1
    p2 = p2
    a = a
    b = b
    Port = {p1, p2}
    Byte = 2
    IdSpan = 4
    Ids = {1, 3, 4}
    Timeouts = {5, 18, 21}
    IpSubnets = {3, 15}
    MacSubnets = {13, 30, 37}
    Peers = {3}
    DefaultTimeout = 15
    DefaultRetr = 3
    DefaultPort = 2
    MaxCalls = 4
    Arg = {a, b}
    In = {a}
    Out = {b}
    MaxBO = 2
    MaxFill = 2
    MaxRun = 2
SYMMETRY PortSymmetry
INVARIANTS
    RegsTypeOK
    TornOnlyAcrossHalves
    GettersAgree
    AddressesDistinct
    BuffersTypeOK
    ResultComplete
    InputsArrive
CHECK_DEADLOCK FALSE
