SPECIFICATION Spec

CONSTANTS
  p1 = p1
  p2 = p2
  pt1 = pt1
  pt2 = pt2
  pt3 = pt3
  d1 = d1
  d2 = d2
  Posts = {p1}
  PostTaskIds = {pt1, pt2}
  Dispatchers = {d1}
  OrderRequest = OrderRequest
  NoTask = NoTask
  CertificateTypes = {"ipfs"}
  JustDeployed = FALSE
  MaxOrders = 2
  MaxPublishTasks = 3
  WipLimit = 2
  SlowLinks = FALSE
  MaxReports = 0
  MaxRetries = 1
  MaxPublishRequests = 0
  MaxSweeps = 0
  MaxRequests = 0
  MaxFaults = 2
  MaxCrashes = 0

SYMMETRY Symmetry
CONSTRAINT SpareRows
INVARIANTS
  SavedCanBeRetried
