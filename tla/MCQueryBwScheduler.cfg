\* More invocations than workers; an interval that fits twice.
CONSTANTS
    lambda = lambda
    Tasks = {t1, t2, t3}
    PoolSize = 2
    Handles = {h1, h2, h3}
    None = None
    Domains = {lambda}
    Lambda = lambda
    retry_interval = 200
    max_retry_duration = 400
SPECIFICATION Spec
INVARIANTS
    ExitCodeTellsOutcome
    OrderlyShutdown
PROPERTIES
    ProgramEnds
