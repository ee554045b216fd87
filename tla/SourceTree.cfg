SPECIFICATION Spec
CONSTANTS
  v1 = v1  v2 = v2
  Publishing = {"p1"}
  Adding = {"a1"}
  Building = {"b1"}
  NFiles = 2
  SchemaFile = 1
  Contents <- Versions
  Args <- OneArgs
  MaxStarts <- TwoBuilds
  MaxSaves = 2
INVARIANTS PublishedFromItsRelease ReturnedFromWhatItPackaged SchemasAgree
CHECK_DEADLOCK FALSE
SYMMETRY AnyVersion
