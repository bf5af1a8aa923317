CONSTANTS
  Names = {"opsd"}
  Paths = {"small.json", "large.json"}
  Workers = {"w1"}
  Benchmarks = {"b1"}
  Scripts = {"s1"}
  Users = {"u1"}
  JsonNames = {}
  BsonNames = {}
  UserForms = {"wisent", "json"}
  Missing = {}
  Broken = {"large.json"}
  Arrays = {}
  Short = {}
  CommandLine <- OneFile
  CommandLineForm = "wisent"
  ForceReload = TRUE
  Strings = 2
  MaxSessions = 4
  MaxStarts = 2
  MaxCrashes = 1
SPECIFICATION Spec
INVARIANTS RegistryIsCurrent NoDangling
PROPERTIES ViewsStay ServerIsStore
