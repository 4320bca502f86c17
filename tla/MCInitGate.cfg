SPECIFICATION FairSpec
CONSTANTS
    c1 = c1
    c2 = c2
    stored = stored
    fresh = fresh
    other = other
    bls = bls
    ed25519 = ed25519
    None = None
    Callers = {c1, c2}
    Keys = {stored, fresh, other}
    Stored = {stored}
    Algorithms = {bls, ed25519}
    AlgOf <- MCAlgOf
    RunErrors = {"Unavailable"}
INVARIANTS
    TypeOK
    OneKeyVisible
    SuccessMatchesRequest
    EnvelopeForGeneratorOnly
    RefusedOnlyOnConflict
    NoForeignCancellation
PROPERTIES
    ImplementsKeyCell
    EveryCallAnswered
