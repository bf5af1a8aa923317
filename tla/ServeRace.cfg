CONSTANTS
  Names = {"opsd", "owid"}
  Paths = {"small.json", "large.json"}
  Workers = {"w1", "w2"}
  Benchmarks = {"b1", "b2"}
  Scripts = {}
  Users = {}
  JsonNames = {}
  BsonNames = {}
  UserForms = {}
  Missing = {}
  Broken = {}
  Arrays = {}
  Short = {}
  CommandLine <- NoFiles
  CommandLineForm = "wisent"
  ForceReload = FALSE
  Strings = 2
  MaxSessions = 2
  MaxStarts = 1
  MaxCrashes = 0
SPECIFICATION Spec
INVARIANT ReallocFindsPointer
