SPECIFICATION FairSpec
CONSTANTS
    Turns = {t1, t2}
    Requests <- SomeRequests
    Reported <- SomeReports
    max_concurrent = 1
    rpm = 2
    tpm = 2
    WINDOW = 2
    queue_timeout = 1
    max_llm_calls = 2
    max_input_tokens = 3
    max_output_tokens = 3
    max_total_tokens = 5
    MaxNow = 2
CHECK_DEADLOCK FALSE
INVARIANTS PermitsConserved BudgetSound TokenRateBounded
PROPERTY CallEnds
