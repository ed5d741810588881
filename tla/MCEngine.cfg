CONSTANTS
  sweep = sweep
  r1 = r1
  r2 = r2
  srv = srv
  grpc = grpc
  call = call
\* One job, run at once and on schedule; an HTTP and a gRPC server.
  Task = {sweep}
  Name = {sweep}
  NameOf <- OwnNames
  Immediate = {sweep}
  Run = {r1, r2}
  HttpServer = {srv}
  GrpcServer = {grpc}
  MaxLoad = 1
\* Requests do not meet but in what SetServiceReady sets.
  Call = {call}
  Message <- MCMessage
  UrlEntry <- MCUrlEntry
  ActionEntry = {"Login", "Ping"}
  RestCalls <- MCRestCalls
  Wild = {":id", ":kind"}
  ExcludedUrl <- MCExcludedUrl
  ExcludedAction = {"Ping"}
  Struct <- MCStruct
  Input <- MCInput
  EndsIn <- MCEndsIn
  Width = 2
  Plain = 3
\* A daily log, one midnight, two files and one trouble with the disk.
  Daily = {TRUE}
  MaxLines = 0
  LogBufferLength = 1
  TryReOpen = 2
  NameContained = TRUE
  MaxRecords = 4
  MaxDays = 1
  MaxFiles = 2
  MaxTrouble = 1
SPECIFICATION MCSpec
INVARIANTS SingletonUnlessRaced FlagIsRight CleanEndIsDrained Gated FieldsAreGiven WrittenStays KeepsWriting
PROPERTIES StopEnds JobsComeRound
CHECK_DEADLOCK FALSE
