\* Two devices, with commands that may stop between two actions.
CONSTANTS
    Devices = {d1, d2}
    MayStop = TRUE
SPECIFICATION Spec
SYMMETRY Symmetry
INVARIANT RuleHasGuest
