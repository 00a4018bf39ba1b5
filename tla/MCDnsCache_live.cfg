\* A reverse-lookup name asked for by RESOLVE and by BEGIN, beside a forward
\* name asked for A and AAAA on an IPv6 exit whose launches can fail.
CONSTANTS
    a1 = a1  p1 = p1  s1 = s1  s2 = s2  s3 = s3
    r1 = r1  r2 = r2  r3 = r3  r4 = r4  r5 = r5  r6 = r6
    Addresses <- PtrAddresses
    PtrNames = {p1}
    Streams = {s1, s2, s3}
    StreamAddr <- PtrStreamAddr
    StreamPurpose <- PtrStreamPurpose
    StreamFamilies <- PtrStreamFamilies
    Records = {r1, r2, r3, r4, r5, r6}
    IPv6Exit = TRUE
    LaunchCanFail = TRUE
    Ttls = {1}
    RESOLVE_MAX_TIMEOUT = 1
    OomSteps = 1
    OOM_TTL_STEP = 1
    MaxTime = 2
    NoRecord = NoRecord
SPECIFICATION Spec
\* Every stream ends up answered and time stops at MaxTime: the exit may
\* sit idle.
CHECK_DEADLOCK FALSE
INVARIANTS TypeOK ResolvingStreamsPending CacheConsistent
PROPERTY ResolvesEventuallyAnswered
