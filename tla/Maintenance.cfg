SPECIFICATION Spec
CONSTANTS
    c1 = c1
    NoCall = NoCall
    Scopes <- MCScopes
INVARIANTS LoadsBack WorkRecorded ConversationPairs
PROPERTY CompactionsAdvance
CHECK_DEADLOCK FALSE
