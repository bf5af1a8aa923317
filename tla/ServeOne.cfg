CONSTANTS
  Names = {"opsd", "owid_json", "owid_bson"}
  Paths = {"small.json", "large.json"}
  Workers = {"w1"}
  Benchmarks = {"b1"}
  Scripts = {}
  Users = {}
  JsonNames = {"owid_json"}
  BsonNames = {"owid_bson"}
  UserForms = {}
  Missing = {}
  Broken = {}
  Arrays = {"small.json"}
  Short = {"small.json"}
  CommandLine <- NoFiles
  CommandLineForm = "wisent"
  ForceReload = FALSE
  Strings = 2
  MaxSessions = 4
  MaxStarts = 1
  MaxCrashes = 0
SPECIFICATION Spec
INVARIANTS TypeOK AssertionsHold ViewIsRequested
PROPERTIES AnsweredIsWhole
