----------------------------- MODULE PhysAlloc -----------------------------
(***************************************************************************)
(* The page-level bitmap allocator of                                      *)
(* src/oldtree/kernel/phantom/physalloc.c.                                 *)
(*                                                                         *)
(* An arena is a bitmap with one bit per allocation unit (page), a cursor  *)
(* alloc_last_pos that both allocation routines share, and a counter       *)
(* n_used_pages.  Every routine works under the arena spin lock with       *)
(* interrupts off, so its locked section is one step here.  With           *)
(* TRACE_USED (1 in the source) the two allocation routines sample         *)
(* phantom_phys_stat_arena() BEFORE they take the lock, and                *)
(* phantom_phys_alloc_page() compares AFTER it dropped it: those are       *)
(* separate steps, and other callers run between them.                     *)
(*                                                                         *)
(* The bitmap is kept as the set of pages whose bit is 1; element e of     *)
(* arena->map is the part of that set inside ElemPages(e).                 *)
(***************************************************************************)
EXTENDS Integers, FiniteSets, FiniteSetsExt

CONSTANTS
    TotalSize,      \* arena->total_size, the n_alloc_units given to init
    BitsPerElem,    \* BITS_PER_ELEM, the width of one map_elem_t
    RegionSizes,    \* the npages values callers pass to the region calls
    Callers         \* kernel threads and interrupt handlers using the arena

ASSUME
    /\ BitsPerElem \in Nat \ {0}
    /\ TotalSize \in Nat /\ TotalSize >= BitsPerElem
    /\ RegionSizes \subseteq Nat \ {0}
    /\ IsFiniteSet(Callers) /\ Callers # {}

VARIABLES
    map,             \* arena->map: the pages whose bit is set
    alloc_last_pos,  \* arena->alloc_last_pos: element where the last scan stopped
    n_used_pages,    \* arena->n_used_pages
    pc,              \* per caller: where it is inside an allocation call
    prev_used,       \* per caller: the prev_used sample of TRACE_USED
    npages,          \* per caller: the npages argument of a region call in progress
    result,          \* rc and *ret of the allocation call that returned last
    diff_ok,         \* FALSE when the last physalloc_check_diff() printed a mismatch
    holders,         \* environment: how many times each page is handed out
    stale            \* history: the callers whose prev_used sample another
                     \* caller's call has made out of date

arena  == <<map, alloc_last_pos, n_used_pages>>
locals == <<pc, prev_used, npages>>
vars   == <<map, alloc_last_pos, n_used_pages, pc, prev_used, npages,
            result, diff_ok, holders, stale>>

ENOMEM == 12
NoPage == -1        \* *ret of a call that did not write it

Pages     == 0 .. TotalSize - 1
\* "arena->total_size / BITS_PER_ELEM": the elements the allocation scans visit.
NMapElems == TotalSize \div BitsPerElem
Elems     == 0 .. NMapElems - 1

ElemOf(p)    == p \div BitsPerElem
ElemPages(e) == (e * BitsPerElem) .. (e * BitsPerElem + BitsPerElem - 1)
\* arena->map[e] == 0
ElemEmpty(m, e) == m \cap ElemPages(e) = {}
\* ~(arena->map[e]) != 0
ElemHasZeroBit(m, e) == ~ (ElemPages(e) \subseteq m)

\* What phantom_phys_stat_arena() returns for bitmap m: the set bits of the
\* elements below total_size / BITS_PER_ELEM.
phantom_phys_stat_arena(m) == Cardinality({p \in m : ElemOf(p) < NMapElems})

-----------------------------------------------------------------------------
(* Variants of the helpers below with one plausible slip each.  No action  *)
(* uses them; the checks substitute one for its original to show that a    *)
(* property notices.                                                       *)

\* the cursor is not wrapped: the scan reads past the last element
ScanOrderOverrun(from) == [k \in 1 .. NMapElems |-> from + k - 1]

\* the scan stops at the end of the map instead of coming round
ScanOrderNoWrap(from) == [k \in 1 .. NMapElems - from |-> from + k - 1]

\* the "while( elem & mask )" search is left out: always the first bit
LowestZeroBitFirst(e) == e * BitsPerElem

\* the partial element gets one bit too few
RegionBitsShort(first, elem_no, elem_pos) ==
    UNION {ElemPages(e) : e \in first .. first + elem_no - 1}
        \cup {(first + elem_no) * BitsPerElem + b : b \in 0 .. elem_pos - 2}

\* the run counter also counts elements that are in use
CountRunAny(i, pos) == i + 1

\* the difference is taken the other way round
physalloc_check_diff_swapped(prev, now, tochange) == (prev - now) = tochange

-----------------------------------------------------------------------------
(* Helpers of the allocation scans                                         *)

\* TRUE when physalloc_check_diff() stays silent.
physalloc_check_diff(prev, now, tochange) == (now - prev) = tochange

\* "alloc_last_pos++; if( alloc_last_pos >= total_size / BITS_PER_ELEM ) ... = 0"
NextPos(pos) == IF pos + 1 >= NMapElems THEN 0 ELSE pos + 1

\* The order in which the do/while of phantom_phys_alloc_page() visits the
\* elements: from the cursor, round the map once.
ScanOrder(from) == [k \in 1 .. NMapElems |-> (from + k - 1) % NMapElems]

NoElem == -1
\* The element that scan stops at, NoElem when it comes round without a find.
FirstWithZeroBit(from) ==
    LET order == ScanOrder(from)
        hits  == {k \in DOMAIN order : ElemHasZeroBit(map, order[k])}
    IN  IF hits = {} THEN NoElem ELSE order[Min(hits)]

\* "while( elem & mask ) { mask <<= 1; page_no++; }"
LowestZeroBit(e) == Min(ElemPages(e) \ map)

\* "if( arena->map[arena->alloc_last_pos] == 0 ) i++; else i = 0;"
CountRun(i, pos) == IF ElemEmpty(map, pos) THEN i + 1 ELSE 0

\* the run length survives the wrap of the cursor
RECURSIVE RegionScanKeepsCount(_, _, _, _)
RegionScanKeepsCount(pos, i, prev, N) ==
    LET pos1 == NextPos(pos)
        i1   == CountRun(i, pos)
    IN  IF pos1 # prev /\ i1 < N THEN RegionScanKeepsCount(pos1, i1, prev, N)
                                 ELSE [pos |-> pos1, i |-> i1]

\* The do/while of phantom_phys_alloc_region(): the cursor and the run length
\* it ends with.  The run length is also reset when the cursor wraps.
RECURSIVE RegionScan(_, _, _, _)
RegionScan(pos, i, prev, N) ==
    LET wrap == pos + 1 >= NMapElems
        pos1 == NextPos(pos)
        i1   == IF wrap THEN 0 ELSE CountRun(i, pos)
    IN  IF pos1 # prev /\ i1 < N THEN RegionScan(pos1, i1, prev, N)
                                 ELSE [pos |-> pos1, i |-> i1]

\* "int N = elem_no; if (elem_pos > 0) N++;"
ElemsNeeded(n) == (n \div BitsPerElem) + (IF n % BitsPerElem > 0 THEN 1 ELSE 0)

\* The bits phantom_phys_alloc_region() sets: the memset over elem_no whole
\* elements from element first, then elem_pos low bits of the last element.
RegionBits(first, elem_no, elem_pos) ==
    UNION {ElemPages(e) : e \in first .. first + elem_no - 1}
        \cup {(first + elem_no) * BitsPerElem + b : b \in 0 .. elem_pos - 1}

\* n_used_pages after phantom_phys_free_region() released n pages.
FreeRegionCount(n) == n_used_pages - n

Hand(S)   == [p \in Pages |-> IF p \in S THEN holders[p] + 1 ELSE holders[p]]
Return(S) == [p \in Pages |-> IF p \in S THEN holders[p] - 1 ELSE holders[p]]

\* The samples that a change of the bitmap by caller c outdates.
Outdated(c) == stale \cup {d \in Callers \ {c} : pc[d] # "idle"}

Idle(c) ==
    /\ pc' = [pc EXCEPT ![c] = "idle"]
    /\ prev_used' = [prev_used EXCEPT ![c] = 0]
    /\ npages' = [npages EXCEPT ![c] = 0]

-----------------------------------------------------------------------------
\* do_phantom_phys_alloc_init(): everything is marked used; the caller frees
\* afterwards what is supposed to be free.
Init ==
    /\ map = Pages
    /\ alloc_last_pos = 0
    /\ n_used_pages = TotalSize
    /\ pc = [c \in Callers |-> "idle"]
    /\ prev_used = [c \in Callers |-> 0]
    /\ npages = [c \in Callers |-> 0]
    /\ result = [rc |-> 0, ret |-> NoPage]
    /\ diff_ok = TRUE
    /\ holders = [p \in Pages |-> 1]
    /\ stale = {}

\* phantom_phys_alloc_page() up to the lock: the unlocked prev_used sample.
phantom_phys_alloc_page_enter(c) ==
    /\ pc[c] = "idle"
    /\ pc' = [pc EXCEPT ![c] = "alloc_page"]
    /\ prev_used' = [prev_used EXCEPT ![c] = phantom_phys_stat_arena(map)]
    /\ UNCHANGED <<arena, npages, result, diff_ok, holders, stale>>

\* The locked section of phantom_phys_alloc_page().
phantom_phys_alloc_page_locked(c) ==
    /\ pc[c] = "alloc_page"
    /\ alloc_last_pos < NMapElems
    /\ LET e == FirstWithZeroBit(alloc_last_pos)
       IN  \/ /\ e # NoElem
              /\ LET page_no == LowestZeroBit(e)
                 IN  /\ map' = map \cup {page_no}
                     /\ result' = [rc |-> 0, ret |-> page_no]
                     /\ holders' = Hand({page_no})
              /\ alloc_last_pos' = e
              /\ n_used_pages' = n_used_pages + 1
              /\ pc' = [pc EXCEPT ![c] = "check_diff"]
              /\ stale' = Outdated(c)
              /\ UNCHANGED <<prev_used, npages, diff_ok>>
           \/ /\ e = NoElem
              /\ result' = [rc |-> ENOMEM, ret |-> NoPage]
              /\ Idle(c)
              /\ stale' = stale \ {c}
              /\ UNCHANGED <<arena, diff_ok, holders>>

\* phantom_phys_alloc_page() after the unlock: physalloc_check_diff(.., 1).
phantom_phys_alloc_page_leave(c) ==
    /\ pc[c] = "check_diff"
    /\ diff_ok' = physalloc_check_diff(prev_used[c], phantom_phys_stat_arena(map), 1)
    /\ Idle(c)
    /\ stale' = stale \ {c}
    /\ UNCHANGED <<arena, result, holders>>

\* phantom_phys_free_page(): sample, clear and compare, all under the lock.
phantom_phys_free_page(c, free) ==
    /\ pc[c] = "idle"
    /\ free \in Pages
    /\ free \in map
    /\ holders[free] > 0
    /\ map' = map \ {free}
    /\ n_used_pages' = n_used_pages - 1
    /\ diff_ok' = physalloc_check_diff(phantom_phys_stat_arena(map),
                                       phantom_phys_stat_arena(map'), -1)
    /\ holders' = Return({free})
    /\ stale' = Outdated(c)
    /\ UNCHANGED <<alloc_last_pos, locals, result>>

\* phantom_phys_free_region(): the three asserts on the arguments, then the
\* loop that clears whole elements where it can and single bits elsewhere.
phantom_phys_free_region(c, start, n) ==
    LET region == start .. start + n - 1
    IN  /\ pc[c] = "idle"
        /\ start < TotalSize /\ n < TotalSize /\ start + n < TotalSize
        /\ region \subseteq map
        /\ \A p \in region : holders[p] > 0
        /\ map' = map \ region
        /\ n_used_pages' = FreeRegionCount(n)
        /\ diff_ok' = physalloc_check_diff(phantom_phys_stat_arena(map),
                                           phantom_phys_stat_arena(map'), -n)
        /\ holders' = Return(region)
        /\ stale' = Outdated(c)
        /\ UNCHANGED <<alloc_last_pos, locals, result>>

\* phantom_phys_alloc_region() up to the lock.
phantom_phys_alloc_region_enter(c, n) ==
    /\ pc[c] = "idle"
    /\ pc' = [pc EXCEPT ![c] = "alloc_region"]
    /\ prev_used' = [prev_used EXCEPT ![c] = phantom_phys_stat_arena(map)]
    /\ npages' = [npages EXCEPT ![c] = n]
    /\ UNCHANGED <<arena, result, diff_ok, holders, stale>>

\* The locked section of phantom_phys_alloc_region(), its check_diff included.
phantom_phys_alloc_region_locked(c) ==
    LET n        == npages[c]
        elem_no  == n \div BitsPerElem
        elem_pos == n % BitsPerElem
        N        == ElemsNeeded(n)
        end      == RegionScan(alloc_last_pos, 0, alloc_last_pos, N)
        page_no  == (end.pos - N) * BitsPerElem
    IN  /\ pc[c] = "alloc_region"
        /\ alloc_last_pos < NMapElems
        /\ alloc_last_pos' = end.pos
        /\ Idle(c)
        /\ \/ /\ end.i # N
              /\ result' = [rc |-> ENOMEM, ret |-> NoPage]
              /\ stale' = stale \ {c}
              /\ UNCHANGED <<map, n_used_pages, diff_ok, holders>>
           \/ /\ end.i = N
              /\ map' = map \cup RegionBits(end.pos - N, elem_no, elem_pos)
              /\ n_used_pages' = n_used_pages + n
              /\ result' = [rc |-> 0, ret |-> page_no]
              /\ diff_ok' = physalloc_check_diff(prev_used[c],
                                                 phantom_phys_stat_arena(map'), n)
              /\ holders' = Hand(page_no .. page_no + n - 1)
              /\ stale' = Outdated(c) \ {c}

Next ==
    \E c \in Callers :
        \/ phantom_phys_alloc_page_enter(c)
        \/ phantom_phys_alloc_page_locked(c)
        \/ phantom_phys_alloc_page_leave(c)
        \/ \E p \in Pages : phantom_phys_free_page(c, p)
        \/ \E p \in Pages, n \in RegionSizes : phantom_phys_free_region(c, p, n)
        \/ \E n \in RegionSizes : phantom_phys_alloc_region_enter(c, n)
        \/ phantom_phys_alloc_region_locked(c)

Spec == Init /\ [][Next]_vars

-----------------------------------------------------------------------------
TypeOK ==
    /\ map \subseteq Pages
    /\ alloc_last_pos \in Elems
    /\ n_used_pages \in 0 .. TotalSize
    /\ pc \in [Callers -> {"idle", "alloc_page", "check_diff", "alloc_region"}]
    /\ prev_used \in [Callers -> 0 .. TotalSize]
    /\ npages \in [Callers -> RegionSizes \cup {0}]
    /\ result \in [rc : {0, ENOMEM}, ret : Pages \cup {NoPage}]
    /\ diff_ok \in BOOLEAN
    /\ holders \in [Pages -> Nat]
    /\ stale \subseteq Callers

\* A page is handed out exactly when its bit is set: phantom_phys_alloc_page()
\* and phantom_phys_alloc_region() never return a page somebody holds, the bits
\* a region call sets are the pages [ret, ret+npages) it returns, and
\* the two free routines clear exactly what they were given.
BitmapIsHeld ==
    \A p \in Pages : holders[p] = IF p \in map THEN 1 ELSE 0

\* arena->n_used_pages is the number of set bits, whichever path of
\* phantom_phys_free_region() and phantom_phys_alloc_region() changed them.
UsedCountExact == n_used_pages = Cardinality(map)

\* phantom_phys_alloc_page() returns ENOMEM only when every page its scan can
\* reach is in use, wherever alloc_last_pos was left by earlier calls of
\* either allocation routine.
PageAllocComplete ==
    [][\A c \in Callers :
          (pc[c] = "alloc_page" /\ pc'[c] = "idle")
              => \A e \in Elems : ~ ElemHasZeroBit(map, e)]_vars

\* The self-check of TRACE_USED has two causes to print "phys diff" and no
\* other: the prev_used sample that phantom_phys_alloc_page() and
\* phantom_phys_alloc_region() take before the lock was outdated by a call
\* of another caller before the comparison, or phantom_phys_free_page()
\* cleared a bit of the partial last element, which
\* phantom_phys_stat_arena() does not count.  The bits and the counter
\* themselves never give it one.
TraceDiffHasCause ==
    [][(diff_ok /\ ~diff_ok')
          => \/ \E c \in stale : pc[c] # "idle" /\ pc'[c] = "idle"
             \/ \E p \in map \ map' : ElemOf(p) >= NMapElems]_vars

\* A run of N free elements from element first that the do/while of
\* phantom_phys_alloc_region() counts to the end: between the cursor and the
\* element before the last, or below the cursor.
CountedFreeRun(first, N) ==
    /\ first + N - 1 \in Elems
    /\ \A e \in first .. first + N - 1 : ElemEmpty(map, e)
    /\ \/ alloc_last_pos <= first /\ first + N - 1 < NMapElems - 1
       \/ first + N - 1 < alloc_last_pos

\* The answer of phantom_phys_alloc_region() is a counted free run of the map
\* as the call found it under the lock, or ENOMEM ("not found") exactly when
\* there is none: a region handed out starts on an element boundary, lies in
\* the arena and was free, wherever earlier calls of either allocation left
\* the cursor.  A free run that ends at the last element (the counter is
\* cleared in the iteration that wraps) or that lies across the cursor (the
\* scan ends there) is not counted: the call refuses with the memory free.
RegionIsCountedRun ==
    [][\A c \in Callers :
          (pc[c] = "alloc_region" /\ pc'[c] = "idle")
              => IF result'.rc = ENOMEM
                 THEN ~ \E first \in Elems :
                          CountedFreeRun(first, ElemsNeeded(npages[c]))
                 ELSE /\ result'.ret % BitsPerElem = 0
                      /\ CountedFreeRun(result'.ret \div BitsPerElem,
                                        ElemsNeeded(npages[c]))
                      /\ result'.ret + npages[c] - 1 \in Pages]_vars

=============================================================================
