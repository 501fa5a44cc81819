\* Two calls, both with a deadline, one of them also interrupted from outside;
\* with three tags there are fewer than calls and flushes want.
SPECIFICATION Spec
CONSTANTS
    Call = {"a", "b"}
    Timed = {"a", "b"}
    Tracked = {"a"}
    TagCount = 3
INVARIANTS
    TypeOK
    NoLostWaiter
    AnswerBelongsToCall
    NoInnocentFailure
    LiveTagsAccounted
