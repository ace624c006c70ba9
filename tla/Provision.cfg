SPECIFICATION FairSpec
CONSTANTS
    m1 = m1
    m2 = m2
    o1 = o1
    o2 = o2
    i1 = i1
    i2 = i2
    MintKeys <- TwoMinted
    OwnerKeys <- TwoOwned
    Idents <- TwoIdents
    None = None
    MaxStrays = 1
INVARIANTS TypeOK KeySafe PasswordOpens OkMeansOpened
PROPERTIES LineageOnce Provisioned RecoverEnds
CHECK_DEADLOCK FALSE
