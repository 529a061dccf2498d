\* Two commands, two lives of the server, one lost connection.
SPECIFICATION Spec
CONSTANTS
  Configs <- MCConfigs
  TLSFiles <- MCTLSFiles
  MaxStarts = 2
  MaxChanges = 1
  Attempt = {1, 2}
  Doc <- MCDoc
  NoDoc = NoDoc
  NoFile = NoFile
  Torn = Torn
  Failed = Failed
  Commands <- MCCommands
  MaxCommands = 2
  MaxBreaks = 1
CHECK_DEADLOCK FALSE
INVARIANTS
  SessionsTypeOK
  SuccessMeansStored
  ExitCodeHonest
  AdmittedOnly
  ServingAsConfigured
PROPERTIES
  CommandsEnd
  StartupEnds
