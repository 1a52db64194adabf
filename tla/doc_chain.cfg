SPECIFICATION Spec
CONSTANTS
    Chains <- MCChains
    Minutes <- DefaultMinutes
    CapUsd <- DefaultCapUsd
CHECK_DEADLOCK FALSE
PROPERTIES
    ChainIsExhausted
