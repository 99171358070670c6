\* A client with an identifier, every fault.
CONSTANTS
  Contents <- Plain
  Registered = TRUE
  Faults = {"refuse", "kill", "backup", "flush", "other"}
SPECIFICATION Spec
INVARIANTS
  TypeOK
  BackupIsTrusted
  RequestIsSynced
