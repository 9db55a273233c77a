SPECIFICATION Spec
CONSTANTS
    Prod = {"module"}
    Copied = {}
    Input = "input"
    Recipes <- MCProbed
    Versions = {1, 2}
    MaxEdits = 2
    MaxStops = 1
INVARIANTS
    WarmIsCold
