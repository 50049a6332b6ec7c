SPECIFICATION Spec
CONSTANTS
    Inputs <- MCInputs
    Stored <- MCStored
    MaxListed = 3
    ReferenceLength = 5
INVARIANTS RowIsDistance DecisionIsRequired VerdictsSymmetric
CHECK_DEADLOCK FALSE
