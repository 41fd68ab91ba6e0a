CONSTANTS
    GROUP = 4
    Inputs <- AnyTexts
SPECIFICATION DataSendSpec
INVARIANTS EveryBlockHasNorm
CHECK_DEADLOCK FALSE
