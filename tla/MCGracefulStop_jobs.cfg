\* Two jobs, one of them also run at once; no servers.
CONSTANTS
  sweep = sweep
  report = report
  r1 = r1
  r2 = r2
  srv = srv
  grpc = grpc
  Task = {sweep, report}
  Name = {sweep, report}
  NameOf <- OwnNames
  Immediate = {sweep}
  Run = {r1, r2}
  HttpServer = {}
  GrpcServer = {}
  MaxLoad = 1
SPECIFICATION Spec
INVARIANTS JobsCompleted
CHECK_DEADLOCK FALSE
