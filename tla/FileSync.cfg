CONSTANTS
  f1 = f1
  f2 = f2
  s1 = s1
  s2 = s2
  Sources = {s1, s2}
  Data = {f1, f2}
  SourceTables <- MCSourceTables
  DestTables <- MCDestTables
  Versions <- MCVersions
  Told <- MCTold
  MaxTurns = 1
  DB = DB
  NOFILE = NOFILE
  ROOT = ROOT
SPECIFICATION Spec
INVARIANTS AnswerIsForRequest OneMissingFileArrives CheckedTable
PROPERTIES CommonFilesKept 
CHECK_DEADLOCK FALSE
