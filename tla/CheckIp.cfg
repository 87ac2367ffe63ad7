SPECIFICATION Spec
CONSTANTS
  Fd = {1, 2}
  MaxRsp = 2
  MaxReply = 3
  Backends = {"openssl", "gnutls", "mbedtls"}
  Ports = {0, 8080}
  NumRecords = 2
  Configs <- MCConfigs
  MaxWords = 2
INVARIANT TypeOK
INVARIANT NothingLeft
INVARIANT HandlesValid
INVARIANT ReachesServer
INVARIANT FamilyHonoured
INVARIANT SettingsRestored
