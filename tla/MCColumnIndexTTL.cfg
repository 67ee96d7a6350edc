\* One SetTTL call on a node fresh from the constructor.
CONSTANTS
    NoNode = NoNode
    TTLLists <- MCTTLLists
SPECIFICATION Spec
\* SetTTL is called once per index node; nothing follows it.
CHECK_DEADLOCK FALSE
INVARIANT WellFormedTTLStored
