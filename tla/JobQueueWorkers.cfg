SPECIFICATION FairSpec
CONSTANTS
  w1 = w1  w2 = w2  o1 = o1  main = main  r1 = r1
  Requests = {r1}
  Budget = 2
  Amounts = {2}
  Charges = {3}
  Jobs = {1, 2}
  Workers = {w1, w2}
  Operators = {}
  Owners = {main}
  OwnerOf <- MCOwnerOf
  Paid <- MCPaid
  RequestOf <- MCRequestOf
  MaxAttempts = 2
  Lease = 2
  Backoff <- MCBackoff
  Lag = 1
  MaxRetries = 0
  NoJob = NoJob
  NoOwner = NoOwner
  NoRequest = NoRequest
  NoLease = NoLease
PROPERTIES ImplementsExclusiveLease UnfinishedJobsComeFree
