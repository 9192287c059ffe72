SPECIFICATION Spec
CONSTANTS
    card = card
    push = push
    plain = plain
    listed = listed
    w1 = w1
    w2 = w2
    Caller = {w1, w2}
    Ref = {card, push, plain, listed}
    NoRef = NoRef
    Spelling <- MCSpelling
    Match <- MCMatch
    Sampled = {card, push, listed}
    Assess <- MCAssess
    MaxCalls = 2
    MaxStops = 1
SYMMETRY CallerSymmetry
INVARIANTS
    ProhibitedNeverThrough
    IrrevocableNeverSilent
CHECK_DEADLOCK FALSE
