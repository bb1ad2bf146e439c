CONSTANTS
    q1 = q1  q2 = q2  t1 = t1  t2 = t2
    Requests <- MCRequests
    Tokens <- MCTokens
    AuthHeaders <- MCAuthHeaders
    ContentTypes = {"text/csv"}
    Absent = Absent
    Opaque = Opaque
    None = None
SPECIFICATION Spec
\* The server waits for further requests once these are handled.
CHECK_DEADLOCK FALSE
PROPERTY
    EveryRequestAnswered
