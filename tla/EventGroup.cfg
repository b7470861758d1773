CONSTANTS
    t1 = t1
    t2 = t2
    t3 = t3
    Task = {t1, t2, t3}
    Event = {x}
    Waits <- SomeWaits
    Patience = {"none", "some", "forever"}
    Priority = {1, 2}
    FirstPriority <- Equal
    Settable = {t1}
SYMMETRY Symmetry
SPECIFICATION Spec
INVARIANTS NoneOverlooked AnswersAreTrue
PROPERTIES ItemsFollowPriorities ImplementsRendezvous
