SPECIFICATION Spec
CONSTANTS
  Name <- MCName
  ArchangelName <- MCArchangelName
  Unit <- MCUnit
  UnitDir <- MCUnitDir
  CommandHits <- MCCommandHits
  KIBI = 8
  U64_MAX = 8191
  KnownCap <- MCKnownCap
  to_canonical <- MCto_canonical
  MAX_NAME = 4
  Letter = {"a"}
  FullMatch <- MCFullMatch
  HostName <- MCHostName
  lower <- MClower
  Port <- MCPort
  port_of <- MCport_of
  Path <- MCPath
  Mounts <- MCMounts
  Limit <- MCLimit
  Request <- MCRequest
  DefaultPolicy <- MCDefaultPolicy
  AllowList <- MCAllowList
  Resolver <- MCResolver
  ExecName <- MCExecName
  HexText <- MCHexText
  Bytes <- MCBytes
  ArgCase <- MCArgCase
  Reply <- MCReply
  ConfigText <- MCConfigText
  SetupOptions <- MCSetupOptions
INVARIANTS PathsJudgedAsUsed CageExact EgressHonest  ConfigSafe
