\* Every reply of up to four characters.
SPECIFICATION CardsSpec

INVARIANT CardsCutCleanly

CHECK_DEADLOCK FALSE
