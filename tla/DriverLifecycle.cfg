SPECIFICATION CrowdSpec
CONSTANTS
  Conns = {c1, c2}
  Threads = {t1, t2}
  Hosts = {"IVRServerDriverHost_005"}
  c1 = c1
  c2 = c2
  t1 = t1
  t2 = t2
  Crowd = 2
INVARIANTS TypeOK ForwardsHome EventsAlive Quiesced StoresLand
PROPERTIES RpcSpec CallReturns CleanupEnds Restored
