CONSTANTS
    w1 = w1
    w2 = w2
    h1 = h1
    h2 = h2
    c1 = c1
    c2 = c2
    Wallets = {w1, w2}
    Dids = {w1, w2}
    Handlers = {h1, h2}
    Cleaners = {c1}
    NoOne = NoOne
    Proofs <- MCProofs
    ProofRequired = TRUE
    ProofMaxAge = 1
    ProofMaxSkew = 1
    MaxRecipients = 1
    TTL = 3
    Batch = 1
    StoreFails = TRUE
    MaxHandling = 1
    MaxUpdates = 1
    MaxTime = 6
SPECIFICATION Spec
INVARIANTS TypeOK OwnersMatch WithinLimit NothingOrphaned
PROPERTIES NoTakeover OnlyIdleRemoved RegisteredWithProof
SYMMETRY HandlerSymmetry
