\* Three interleaved checks over two keys, with completions, expiry, restarts
\* and lost acknowledgements.
\* Calls are finite: the system may stop.
CONSTANTS
    k1 = k1
    k2 = k2
    c1 = c1
    c2 = c2
    c3 = c3
    p1 = p1
    p2 = p2
    NoPayload = NoPayload
    Keys <- MCKeys
    Calls <- MCCalls
    Payloads <- MCPayloads
SPECIFICATION Spec
INVARIANTS IInv OneGrantPerRecord GrantBackedByRecord ReplayMatchesRecord
PROPERTY Implements
CHECK_DEADLOCK FALSE
