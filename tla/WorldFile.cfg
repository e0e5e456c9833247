SPECIFICATION MCFairSpec
CONSTANTS
    t1 = t1
    t2 = t2
    a = a
    b = b
    comment = comment
    NoThread = NoThread
    NoLine = NoLine
    Threads <- MCThreads
    Names <- MCNames
    Lines <- MCLines
PROPERTIES
    ImplementsWorldSet
    MutexReleased
