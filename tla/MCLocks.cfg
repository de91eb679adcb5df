SPECIFICATION Spec
CONSTANTS
  Inbound = {"inbound"}
  Handlers = {"rpc1", "rpc2"}
  Routes = {"submit_tx", "peers", "balance"}
INVARIANTS
  NoCircularWait
