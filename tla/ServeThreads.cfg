CONSTANTS
  Names = {"opsd", "owid_bson"}
  Paths = {"small.json", "large.json"}
  Workers = {"w1", "w2"}
  Benchmarks = {"b1"}
  Scripts = {}
  Users = {"u1"}
  JsonNames = {}
  BsonNames = {"owid_bson"}
  UserForms = {"wisent"}
  Missing = {"large.json"}
  Broken = {}
  Arrays = {}
  Short = {}
  CommandLine <- OneFile
  CommandLineForm = "wisent"
  ForceReload = FALSE
  Strings = 2
  MaxSessions = 2
  MaxStarts = 2
  MaxCrashes = 1
SPECIFICATION FairSpec
INVARIANTS RegistryIsCurrent
PROPERTIES SessionsEnd
