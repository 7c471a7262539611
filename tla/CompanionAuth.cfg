\* A save that outlives its handler, a revocation and a restart.
SPECIFICATION AuthSpec
CONSTANTS
    Browsers = {b1, b2}
    MaxPaired = 2
    MaxAuthEvents = 2
INVARIANT OnlyRepairRestores
CHECK_DEADLOCK FALSE
