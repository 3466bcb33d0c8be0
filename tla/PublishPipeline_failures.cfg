SPECIFICATION Spec

CONSTANTS
  p1 = p1
  p2 = p2
  pt1 = pt1
  pt2 = pt2
  pt3 = pt3
  d1 = d1
  d2 = d2
  Posts = {p1, p2}
  PostTaskIds = {pt1, pt2}
  Dispatchers = {d1}
  OrderRequest = OrderRequest
  NoTask = NoTask
  CertificateTypes = {}
  JustDeployed = FALSE
  MaxOrders = 2
  MaxPublishTasks = 7
  WipLimit = 2
  SlowLinks = FALSE
  MaxReports = 0
  MaxRetries = 0
  MaxPublishRequests = 1
  MaxSweeps = 0
  MaxRequests = 0
  MaxFaults = 1
  MaxCrashes = 1

SYMMETRY Symmetry
CONSTRAINT FaultsOrRestarts
INVARIANTS
  TypeOK
  PublicationIsOwned
  DoingPostIsOwned
  JobsExclusive
  PublishedIsLive
PROPERTIES
  SubmittedWasCarried
  ImplementsLifecycle
