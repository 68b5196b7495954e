CONSTANTS
  Nil = Nil
  Bad = Bad
  RAW_ED25519_KEY_BYTES = 3
  ZONE_BYTES = 2
  MaxCert = 2
  MAGIC = 1
  Crc <- MCCrc
  PageDefault = 2
  PageMost = 3
  Comparisons <- MCComparisons
  FilesTried <- MCFilesTried
  PagesTried <- MCPagesTried
  AttemptsTried <- MCAttemptsTried
  ClaimsTried <- MCClaimsTried
  PackagesTried <- MCPackagesTried
SPECIFICATION Spec
CHECK_DEADLOCK FALSE
INVARIANTS VerdictSound EndpointsAgree OracleIsChaincode
  EveryClaimActs PackageExact
