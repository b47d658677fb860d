SPECIFICATION Spec
CONSTANTS
  k1 = k1
  k2 = k2
  sk = sk
  self = self
  erc20 = erc20
  r0 = r0
  r1 = r1
  r2 = r2
  r3 = r3
  s1 = s1
  s2 = s2
  zeroFelt = zeroFelt
  Felts <- MCFelts
  NoFelt = zeroFelt
  Self = self
  EcdsaSigned <- singleSigned
  P256Signed = {}
  Policies <- single
  Bundles <- MCBundles
  Tokens <- MCTokens
  Revocations <- MCRevocations
  Owners = {k1, k2}
  SessionKey = sk
  Expires = 1
  MaxTime = 1
  MaxSent = 1
PROPERTIES
  SignedIsAccepted
