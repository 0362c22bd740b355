SPECIFICATION Spec
CONSTANTS
    Places = {p1, p2}
    Members = {m1, m2}
    Loans = {l1, l2}
    Threads = {t1, t2}
    Loose = Loose
    Unspecified = Unspecified
    NoOne = NoOne
    MostOwned = 2
SYMMETRY Alike
INVARIANTS
    TypeOK NoPhantoms RetiredIsHome NothingStranded
PROPERTIES
    KeepsBooks
CHECK_DEADLOCK FALSE
