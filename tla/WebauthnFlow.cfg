SPECIFICATION Spec
CONSTANTS
    EcdsaSigned = {}
    P256Signed <- MCP256Signed
    Points <- MCOnCurve
    OnCurve <- MCOnCurve
    NoPoint = NoPoint
    Scalars <- MCScalars
    Base = 3
    HalfLen = 2
    NoIndex = NoIndex
    Requests = {q1, q2}
    Executions = {e1}
    Credentials = {c1, c2}
    NoCredential = NoCredential
    PublicKey <- MCPublicKey
    RpIdHash = "hash"
    ZeroHash = "zeros"
    Origin <- MCOrigin
    Gaps <- MCGaps
    MaxSent = 1
    c1 = c1
    c2 = c2
    e1 = e1
    q1 = q1
    q2 = q2
INVARIANTS TypeOK AnsweredOnce OffsetsPointAtValues
PROPERTIES SignedIsAccepted OwnAnswer RequestsEnd
