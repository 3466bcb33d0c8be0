SPECIFICATION Spec

CONSTANTS
  p1 = p1
  p2 = p2
  pt1 = pt1
  pt2 = pt2
  pt3 = pt3
  d1 = d1
  d2 = d2
  Posts = {p1, p2}
  PostTaskIds = {pt1, pt2, pt3}
  Dispatchers = {d1}
  OrderRequest = OrderRequest
  NoTask = NoTask
  CertificateTypes = {}
  JustDeployed = FALSE
  MaxOrders = 3
  MaxPublishTasks = 3
  WipLimit = 2
  SlowLinks = FALSE
  MaxReports = 1
  MaxRetries = 1
  MaxPublishRequests = 0
  MaxSweeps = 1
  MaxRequests = 0
  MaxFaults = 1
  MaxCrashes = 0

SYMMETRY PostSymmetry
CONSTRAINT ReportsOrRetries
ACTION_CONSTRAINT SavedTogether
INVARIANTS
  DoingPostIsOwned
  PublishedIsLive
PROPERTIES
  SubmittedWasCarried
