\* A reset after a phase.
CONSTANTS
    Threads = {t1}
    Phases = {p}
    MaxTime = 1
SPECIFICATION Spec
PROPERTIES
    ResetEmpties
