CONSTANTS
    today = today
    tomorrow = tomorrow
    Req = {u1, u2}
    Contexts = {c1}
    Days = {today, tomorrow}
    DayOf <- MCDayOf
    Sinks = {k1, k2}
    Buffer = 1
    Cap = 1
    Blank = blank
    None = None
SPECIFICATION UsageFairSpec
INVARIANTS
    LinesWhole
    DetailKept
PROPERTIES
    OutcomeIsOwn
    RecordsHandled
\* Requests are served once, and their records handled.
CHECK_DEADLOCK FALSE
