SPECIFICATION GateSpec
CONSTANTS
  NoTarball = NoTarball
  Bytes <- McBytes
  MaxBytes = 9
  MaxLine = 3
  ReadDeadline = 2
  MaxReadRetries = 1
  MaxScans = 2
INVARIANTS StreamIsEvidence
PROPERTIES ImplementsScanPromise ScanEnds
