SPECIFICATION Spec
CONSTANTS
    MaxHand = 1
    MaxStreet = 2
    MaxQueue = 2
    MaxBehind = 3
    MaxReload = 1
    MaxElsewhere = 1
INVARIANTS NoDiscardHangs StoreMirrorsChoice
PROPERTIES ChoicesAreAnswered
CHECK_DEADLOCK FALSE
