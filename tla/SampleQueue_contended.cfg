SPECIFICATION FairSpec
CONSTANTS
    Producers = {reader, second}
    Consumers = {main}
    Values = {v1, v2}
    NoValue = NoValue
    Nodes = {n1, n2, n3}
    Null = Null
    Pending = Pending
INVARIANTS
    NoUseAfterFree
    NoLeak
PROPERTIES
    ImplementsFifo
    ImplementsFairFifo
