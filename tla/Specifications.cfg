SPECIFICATION ArgSpec
CONSTANTS
  Absent = Absent
  ImportMessages <- Imports
  ExportMessages <- Exports
  MaxCalls = 3
INVARIANTS
  ArgumentIsTheMessage
CHECK_DEADLOCK FALSE
