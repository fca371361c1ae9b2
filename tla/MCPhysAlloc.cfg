\* Seven pages in elements of two bits: three whole elements that the
\* allocation scans visit and one page behind them that only the free
\* routines reach.
CONSTANTS
    TotalSize = 7
    BitsPerElem = 2
    RegionSizes = {1, 2, 3}
    c1 = c1
    c2 = c2
    Callers <- MCCallers
SYMMETRY CallerSymmetry
SPECIFICATION Spec
INVARIANTS
    TypeOK
    BitmapIsHeld
    UsedCountExact
PROPERTIES
    PageAllocComplete
    TraceDiffHasCause
    RegionIsCountedRun
