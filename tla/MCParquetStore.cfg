CONSTANTS
  Partitions = {1, 2}
  Threads = {t1, t2}
  PartitionOf <- MCPartitionOf
  KeyOf <- MCKeyOf
  PreferOf <- MCPreferOf
  BufferLimit = 2
  TargetRows = 1
  Clock <- MCClock
  Schemas = {1, 2}
  MaxCalls = 3
  MaxFaults = 1
  None = None
SPECIFICATION Spec
SYMMETRY Symmetric
INVARIANTS DiskIsReadable WrittenIsCommitted
PROPERTIES ImplementsTable
