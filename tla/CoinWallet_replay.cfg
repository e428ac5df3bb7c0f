SPECIFICATION Spec
CONSTANTS
    Requests = {r1, r2, r3}
    alice = alice
    bob = bob
    Users <- MCUsers
    CallerKeys <- TwoKeys
    InKey <- MCInKey
    Amounts = {1, 2}
    Opening <- MCOpening
INVARIANTS WalletIsLedger ReplayAgrees
PROPERTIES ImplementsLedger
SYMMETRY Symmetry
CHECK_DEADLOCK FALSE
