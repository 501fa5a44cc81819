\* One call without a deadline is interrupted; the server answers every Tflush.
SPECIFICATION SpecFlushAnswered
CONSTANTS
    Call = {"a"}
    Timed = {}
    Tracked = {"a"}
    TagCount = 2
PROPERTY
    CancelledCallReturns
