\* Two processes that overlap: replicas on PostgreSQL, or containers on SQLite
\* with a file each. The button asks for a backup at any time, so its calls
\* include the retry worker's.
SPECIFICATION FairGatewaySpec
CONSTANTS
  None = None
  Server = Server
  Containers = {p1, p2}
  Callers = {"button", "shutdown"}
  Missing = Missing
  Processes = {p1, p2}
  Deployments <- MCDeployments
  MaxAttempts = 2
  MaxFaults = 1
  MaxBoots = 2
  Records = {r1}
CHECK_DEADLOCK FALSE
INVARIANTS GatewayTypeOK ServesOnlyVerified RoutesToServing
PROPERTIES ConfirmedIsKept BotReachable
