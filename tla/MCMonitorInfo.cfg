CONSTANTS
  W = 64
  GB = 2
  Tables <- MCTables
  Meminfos <- MCMeminfos
  Cpuinfos <- MCCpuinfos
  Null = Null
  NoRequest = NoRequest
  NoReading = NoReading
  CpuUsage = CpuUsage
  DiskIO = DiskIO
SPECIFICATION Spec
INVARIANTS InfoComplete
