\* A unary call, an open of a stream, a request of the gateway, and a stop of the gateway at
\* any step: late evictions, double connects, a change of proxy during a connect.
SPECIFICATION FairSpec
CONSTANTS
    Unset = Unset  Empty = Empty  Garbage = Garbage  NoProxy = NoProxy
    P1 = P1  P2 = P2  P3 = P3  u1 = u1  s1 = s1  r1 = r1
    Env <- MCEnv
    Scheme = "https"
    Unary = {u1}
    Streams = {s1}
    Rest = {r1}
    Endpoints = {"daemon"}
    Overrides = {Unset, P2}
    MaxEvictions = 1
    MaxSets = 1
    MaxStarts = 1
INVARIANTS
    EvictedStaysOut
    HandshakesBounded
    NoFalseSuccess
PROPERTIES
    NoLateChannel
    StopEnds
