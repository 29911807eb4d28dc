SPECIFICATION Spec
CONSTANTS
    TechniquesOf <- Padding
    MaxTechniques = 2
    Networks = {"offload"}
    quic_fallback_policy = "ControlledDropJitter"
    allow_destructive_manipulation = FALSE
    allow_real_ttl_manipulation = FALSE
    Length = 6
    FakeLength = 7
    Insertion = 1
    Micro = 3
    split_size = 2
    split_count = 3
    max_seg_size = 3
    fake_ttl_offset = 1
    ttl_value = 3
    OwnTtl = 3
    Hops = 3
    ClientWindow = 6
    ServerWindow = 9
INVARIANT StreamIntact
CHECK_DEADLOCK FALSE
