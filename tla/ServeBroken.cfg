CONSTANTS
  Names = {"opsd"}
  Paths = {"small.json", "large.json"}
  Workers = {"w1"}
  Benchmarks = {}
  Scripts = {}
  Users = {"u1"}
  JsonNames = {}
  BsonNames = {}
  UserForms = {"wisent"}
  Missing = {}
  Broken = {"large.json"}
  Arrays = {}
  Short = {}
  CommandLine <- NoFiles
  CommandLineForm = "wisent"
  ForceReload = FALSE
  Strings = 2
  MaxSessions = 2
  MaxStarts = 1
  MaxCrashes = 0
SPECIFICATION Spec
PROPERTY AnsweredIsWhole
