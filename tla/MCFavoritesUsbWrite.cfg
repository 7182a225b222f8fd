SPECIFICATION Spec
CONSTANTS
    None = None
    flist = flist
    changed_hpd = changed_hpd
    new_hpd = new_hpd
    old_hpd = old_hpd
    same_hpd = same_hpd
    w1 = w1
    w2 = w2
    Catalog = flist
    Changed <- MCChanged
    Introduced <- MCIntroduced
    Removed <- MCRemoved
    Kept <- MCKept
    Writers <- MCWriters
    MaxFaults = 3
SYMMETRY WriterSymmetry
INVARIANTS
    TypeOK
    MutationRecorded
    VerdictIsTrue
    CatalogResolves
    OneFaultIsUndone
PROPERTIES
    ForeignKept
