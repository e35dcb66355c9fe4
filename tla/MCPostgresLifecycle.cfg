CONSTANTS
    Memories = {m1, m2}
    Hashes = {h1, h2}
    NoHash = NoHash
    Spaces = {sA, sB}
    NoSpace = NoSpace
    Workers = {w1}
    MaxSeq = 3
    Txs = {t1, t2}
    NoTx = NoTx
    Searchers = {r1}
SPECIFICATION MCSpec
SYMMETRY Sym
INVARIANTS
    LifecycleInv
    ActiveCoverage
    NoStaleVector
    NothingForgotten
    SearchIsComplete
PROPERTY CommitsAreAtomic
