SPECIFICATION Spec
CONSTANTS
  MaxSteps = 2
  Absent = Absent
INVARIANT
  ResumesLastSave
CHECK_DEADLOCK FALSE
