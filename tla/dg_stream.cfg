SPECIFICATION Spec
CONSTANTS
    TechniquesOf <- CleanTechniques
    MaxTechniques = 2
    Networks = {"ipv4", "offload", "ipv6"}
    quic_fallback_policy = "ControlledDropJitter"
    allow_destructive_manipulation = FALSE
    allow_real_ttl_manipulation = FALSE
    Length = 6
    FakeLength = 7
    Insertion = 1
    Micro = 3
    split_size = 2
    split_count = 3
    max_seg_size = 3
    fake_ttl_offset = 1
    ttl_value = 3
    OwnTtl = 3
    Hops = 3
    ClientWindow = 6
    ServerWindow = 9
INVARIANT TypeOK
INVARIANT ForeignIsLowered
PROPERTY FlightIsWhole
PROPERTY HelloArrives
PROPERTY ConnectionOpens
CHECK_DEADLOCK FALSE
