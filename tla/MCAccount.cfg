SPECIFICATION Spec
CONSTANTS
  k1 = k1
  k2 = k2
  sk = sk
  p1 = p1
  noPoint = noPoint
  self = self
  zero = zero
  erc20 = erc20
  ghost = ghost
  r1 = r1
  r2 = r2
  r3 = r3
  s1 = s1
  s2 = s2
  s3 = s3
  zeroFelt = zeroFelt
  NoKey = NoKey
  Keys = {k1, k2}
  Owners = {k1}
  Points = {p1}
  OnCurve = {p1}
  NoPoint = noPoint
  Scalars = {r1, s1}
  Felts <- MCFelts
  NoFelt = zeroFelt
  Self = self
  Zero = zero
  Contracts = {erc20}
  Calls <- MCCalls
  Txs <- MCTxs
  EcdsaSigned <- MCEcdsaSigned
  P256Signed <- MCP256Signed
  MaxTime = 2
  Entries <- MCEntries
INVARIANTS
  TypeOK
  RunningIsAuthorized
  OnlySignedCallsPending
PROPERTIES
  KeysChangeByOwner
  SlotsChangeByRevoking
  ImplementsStore
