\* Two LCEs; each kind of fault raised at most once per LCE, in any
\* order with the stall ISR and the BAR2 path.
CONSTANTS
    NumLce = 2
    MaxRaise = 1
SPECIFICATION Spec
INVARIANTS
    CeTypeOK
    EveryFaultAccounted
PROPERTY
    PendingFaultsCleared
