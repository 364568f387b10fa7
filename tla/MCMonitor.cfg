\* Up to two rows: what stops the reading can come before, between or after disks.
CONSTANTS
  W = 64
  GB = 2
  Tables <- MCTables
  Meminfos <- MCMeminfos
  Cpuinfos <- MCCpuinfos
  Null = Null
  NoRequest = NoRequest
  NoReading = NoReading
  CpuUsage = CpuUsage
  DiskIO = DiskIO
SPECIFICATION Spec
INVARIANTS InfoMatchesDf ListIsReadablePrefix ConsistentIfUndisturbed IdentityKeptSinceStartup
