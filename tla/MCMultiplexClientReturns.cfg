\* One call has a deadline and may be interrupted, the other waits for its answer.
SPECIFICATION Spec
CONSTANTS
    Call = {"a", "b"}
    Timed = {"a"}
    Tracked = {"a"}
    TagCount = 3
PROPERTY
    CallsReturn
