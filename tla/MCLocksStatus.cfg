SPECIFICATION LiveSpec
CONSTANTS
  Inbound = {}
  Handlers = {"rpc1"}
  Routes = {"status"}
PROPERTIES
  StatusAnswered
CHECK_DEADLOCK FALSE
