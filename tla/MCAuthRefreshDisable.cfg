CONSTANTS
    Refreshers = {f1}
    Operators = {o1}
    PendingBackoff = 2
    FailureBackoff = 3
    CallTime = 1
    Cooldown = 1
    MaxToken = 2
SPECIFICATION Spec
PROPERTY DisabledByOperator
