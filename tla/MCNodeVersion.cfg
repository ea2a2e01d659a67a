SPECIFICATION Spec
CONSTANTS
  Requests <- FewRequests
  Characters = {"0", "1", "2", "3", "4", "7", "8", "b", "f", ".", "-", "+"}
  Bodies <- FewBodies
  Versions <- FewVersions
  SizeWords = 64
  MaxBody = 6
CHECK_DEADLOCK FALSE
INVARIANTS UrlWhole SentWasPrinted SessionKept ParsesInBlock VersionSplit
