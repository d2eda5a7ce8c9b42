CONSTANTS
  A = A
  B = B
  C = C
  D = D
  CB = CB
  P8 = P8
  PrecompiledContracts <- MCPrecompiledContracts
  Addrs <- MCAddrs
  Keys = {1}
  Vals = {0, 1, 2}
  Rev = 7
  BackendAccount <- MCBackendAccount
  BackendStorage <- MCBackendStorage
  NoAccount = NoAccount
  NoObject = NoObject
  Unset = Unset
  Coinbase = CB
  Messages <- MCTwoCalls
  NoAddr = NoAddr
  CreateAddress <- MCCreateAddress
  CreateAddress2 <- MCCreateAddress2
  Salts = {0}
  CallTargets = {B, C}
  CallValues = {0, 1}
  GasArgs = {BigWord}
  BigWord = BigWord
  InitLens = {0, 1}
  RetLens = {1, 2}
  GasMod <- MCGasMod
  CallDepthLimit = 2
  MaxCodeSize = 1
  MaxSteps = 2
  MaxTxs = 2
SPECIFICATION Spec
INVARIANT RefundNeverWraps
CHECK_DEADLOCK FALSE
