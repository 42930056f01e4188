CONSTANTS
  bad = bad
  Names = {"a", "b"}
  Customers = {"A"}
  CustomerOf <- MCCustomerOf
  Lines <- MCLines
  Malformed = bad
  NoFile = NoFile
  Torn = Torn
  NoName = NoName
  Pipelines = {1, 2}
  MaxLines = 1
  MaxDeliveries = 2
  MaxFaults = 1
SPECIFICATION Spec
INVARIANTS
  ProcessedWasRead
  ReportsMatchEvidence
PROPERTIES
  GoodFilesGetThrough
CHECK_DEADLOCK FALSE
