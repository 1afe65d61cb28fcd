\* A read whose first buffer is empty.
SPECIFICATION Spec
CONSTANTS
    MaxBytes = 2
    WriteShapes <- Writes
    ReadShapes <- LeadingEmpty
INVARIANTS
    ReadMakesProgress
CHECK_DEADLOCK FALSE
