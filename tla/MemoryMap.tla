-------------------------------- MODULE MemoryMap --------------------------------
(***************************************************************************)
(* "generate mmu": mmu_gen.c turns the entries of mem.map into blocks, one   *)
(* list per translation level, and writes each list as a table of            *)
(* descriptors and each divided region as one linker script per core.        *)
(*                                                                         *)
(* Addresses are counted in pages of the finest level; a range that ends at  *)
(* the last byte of page n has upto = n + 1.                                 *)
(***************************************************************************)
EXTENDS Integers, SequencesExt

CONSTANTS
    Maps,       \* memory maps: sequences of the entries of mem.map, in order
    NumLvls,    \* num_lvls
    Sizes,      \* lvls: pages that one descriptor of each level stands for
    NumCores,   \* NUM_CORES
    Caches      \* CACHES: pages in a way, and the cores that share it

Levels == 0..(NumLvls - 1)
Sharing == {i \in DOMAIN Caches : Caches[i].shared > 1}

Entries == [from : Nat, upto : Nat, lvl : Levels, attr : STRING, cc : BOOLEAN]

\* Every mem.map of the repository lists its regions in ascending order.
Ascending(m) ==
    /\ \A i \in DOMAIN m : m[i].from < m[i].upto
    /\ \A i, k \in DOMAIN m : i < k => m[i].upto <= m[k].from

ASSUME MapAssumption ==
    /\ NumLvls \in Nat \ {0} /\ Sizes \in [Levels -> Nat \ {0}]
    /\ \A l \in Levels : l > 0 => Sizes[l - 1] % Sizes[l] = 0
    /\ NumCores \in Nat \ {0} /\ Sharing # {}
    /\ \A m \in Maps : m \in Seq(Entries) /\ m # <<>> /\ Ascending(m)

ASSUME CacheAssumption == Caches \in Seq([way : Nat, shared : Nat])

VARIABLES
    map,       \* SELECTED_ARCH.map
    coloring,  \* is CACHECOLORING defined when the table is assembled?
    entry,     \* entry_idx of mapToMMU, from 1
    level,     \* level of recurMMULevelCheck
    mmu,       \* the lists of blocks, by level
    refused    \* mapToMMU returned -1, which genMMU ignores

vars == <<map, coloring, entry, level, mmu, refused>>

Init ==
    /\ map \in Maps /\ coloring \in BOOLEAN
    /\ entry = 1 /\ level = map[1].lvl
    /\ mmu = [l \in Levels |-> <<>>]
    /\ refused = FALSE

------------------------------------------------------------------------------
(* mapToMMU: an entry gets blocks at its own level and at all coarser ones.  *)

\* Mutant: the division is rounded down.
Ceil_Down(pages, size) == pages \div size

Ceil(pages, size) == (pages + size - 1) \div size
BlockEnd(l, b) == b.init + b.size * Sizes[l]

\* Mutant: a block is found by its first page only.
Covering_ByStart(e, l) ==
    {i \in DOMAIN mmu[l] :
        /\ \A k \in 1..i : mmu[l][k].init <= e.from
        /\ BlockEnd(l, mmu[l][i]) > e.from}

\* checkMMUBlockAlloc: a block that holds the whole entry.
Covering(e, l) ==
    {i \in DOMAIN mmu[l] :
        /\ \A k \in 1..i : mmu[l][k].init <= e.from
        /\ BlockEnd(l, mmu[l][i]) >= e.upto}

\* getPreviousMMUBlock: how many blocks start below the end of the entry.
Previous(e, l) ==
    Cardinality({i \in DOMAIN mmu[l] : \A k \in 1..i : mmu[l][k].init < e.upto})

NewBlock(e, l, init) ==
    [init |-> init, size |-> Ceil(e.upto - init, Sizes[l]),
     terminal |-> l = e.lvl, attr |-> e.attr, cc |-> e.cc]

\* A contiguous block is extended: a terminal one if the attributes agree, one
\* that points to the next level in any case.
Joins(prev, e, l) ==
    /\ BlockEnd(l, prev) >= e.from
    /\ \/ prev.terminal /\ l = e.lvl /\ prev.attr = e.attr /\ prev.cc = e.cc
       \/ ~prev.terminal /\ l # e.lvl

\* Mutant: a new block starts where its entry does.
NewInit_Entry(e, end) == e.from

NewInit(e, end) == IF end > e.from THEN end ELSE e.from

\* addMMUBlock.
WithBlock(e, l) ==
    LET blocks == mmu[l]
        p      == Previous(e, l)
        end    == BlockEnd(l, blocks[p])
    IN  IF p = 0 THEN <<NewBlock(e, l, e.from)>>
        ELSE IF Joins(blocks[p], e, l)
        THEN [blocks EXCEPT ![p].size = @ + Ceil(e.upto - end, Sizes[l])]
        ELSE InsertAt(blocks, p + 1, NewBlock(e, l, NewInit(e, end)))

\* recurMMULevelCheck goes on with the coarser level, mapToMMU with the next entry.
Descend ==
    IF level > 0
    THEN level' = level - 1 /\ UNCHANGED entry
    ELSE /\ entry' = entry + 1
         /\ level' = IF entry < Len(map) THEN map[entry + 1].lvl ELSE 0

Mapping == entry <= Len(map) /\ ~refused

\* The block exists, with the terminality the entry needs.
FindBlock ==
    /\ Mapping
    /\ Covering(map[entry], level) # {}
    /\ mmu[level][Min(Covering(map[entry], level))].terminal
          = (level = map[entry].lvl)
    /\ Descend
    /\ UNCHANGED <<map, coloring, mmu, refused>>

RefuseEntry ==
    /\ Mapping
    /\ Covering(map[entry], level) # {}
    /\ mmu[level][Min(Covering(map[entry], level))].terminal
          # (level = map[entry].lvl)
    /\ refused' = TRUE
    /\ UNCHANGED <<map, coloring, entry, level, mmu>>

AddBlock ==
    /\ Mapping
    /\ Covering(map[entry], level) = {}
    /\ mmu' = [mmu EXCEPT ![level] = WithBlock(map[entry], level)]
    /\ Descend
    /\ UNCHANGED <<map, coloring, refused>>

Next == FindBlock \/ RefuseEntry \/ AddBlock

Spec == Init /\ [][Next]_vars

\* genTranslationTable and genLinkerSkeleton follow, in either case.
Generated == ~Mapping

------------------------------------------------------------------------------
(* genTranslationTable: the section of a level is its blocks, one after the  *)
(* other.  A descriptor is found by its index in that section.               *)

\* contiguousPages, for caches whose sizes are powers of two.
Contiguous ==
    Min({LET pages == Caches[i].way \div Caches[i].shared
         IN  IF pages = 0 THEN 1 ELSE pages : i \in Sharing})
Period == NumCores * Contiguous

Coloured(b) == coloring /\ b.terminal /\ b.cc

\* Descriptors written for a block: writeCCPageLoop writes whole periods only.
Written(b) == IF Coloured(b) THEN (b.size \div Period) * Period ELSE b.size

\* Index of the first descriptor of block n, and of its symbol MMUTableL<l>.<n - 1>.
FirstOf(l, n) ==
    LET first[k \in Nat] ==
            IF k <= 1 THEN 0 ELSE first[k - 1] + Written(mmu[l][k - 1])
    IN  first[n]
TableLength(l) == FirstOf(l, Len(mmu[l]) + 1)
BlockOf(l, i) == Max({n \in DOMAIN mmu[l] : FirstOf(l, n) <= i})

\* Mutant: the pages of each core follow one another.
ColourPlace_Uncoloured(b, j) == j

\* writeCCPageLoop: page of the block that descriptor j of it maps.
ColourPlace(b, j) ==
    LET rep   == b.size \div Period
        color == j \div (rep * Contiguous)
        k     == j % (rep * Contiguous)
        skip  == Contiguous + (Contiguous - 1) * NumCores
    IN  Contiguous * color + (k \div Contiguous) * skip + (k % Contiguous)

Place(b, j) == IF Coloured(b) THEN ColourPlace(b, j) ELSE j

\* Mutant: a table is named by the index of the block that points to it.
TableSymbol_ByBlock(l, n) == n

\* non_terminal_idx: the blocks of the next level are counted by those before
\* block n that point to that level.
TableSymbol(l, n) == Cardinality({k \in 1..n : ~mmu[l][k].terminal})

\* Descriptors that a table of level l + 1 holds.
Ratio(l) == Sizes[l] \div Sizes[l + 1]

Fault == [kind |-> "fault"]
Descriptor(l, i) ==
    IF i >= TableLength(l) THEN Fault
    ELSE LET n == BlockOf(l, i)
             b == mmu[l][n]
             j == i - FirstOf(l, n)
         IN  IF b.terminal
             THEN [kind |-> "page", attr |-> b.attr, size |-> Sizes[l],
                   base |-> b.init + Place(b, j) * Sizes[l]]
             ELSE [kind |-> "table",
                   base |-> FirstOf(l + 1, TableSymbol(l, n)) + j * Ratio(l)]

------------------------------------------------------------------------------
(* The walk of the processor: a table starts at a multiple of its length, so *)
(* the low bits of its address are ignored, and the index in it is taken     *)
(* from the virtual address.                                                 *)

Index(l, va) == IF l = 0 THEN va \div Sizes[0]
                         ELSE (va % Sizes[l - 1]) \div Sizes[l]

\* What the walk of va has found when it leaves level l.
Found(va, l) ==
    LET found[k \in Levels] ==
            IF k = 0 THEN Descriptor(0, Index(0, va))
            ELSE LET d == found[k - 1]
                     ratio == Ratio(k - 1)
                 IN  IF d.kind = "table"
                     THEN Descriptor(k, (d.base \div ratio) * ratio + Index(k, va))
                     ELSE d
    IN  found[l]

Translate(va) ==
    LET d == Found(va, NumLvls - 1)
    IN  IF d.kind = "page"
        THEN [kind |-> "page", attr |-> d.attr, page |-> d.base + (va % d.size)]
        ELSE Fault

\* genLinkerSkeleton: the pages of a divided region that are linked to a core.
Slice(e, core) ==
    LET share == (e.upto - e.from) \div NumCores
    IN  (e.from + core * share)..(e.from + (core + 1) * share - 1)

------------------------------------------------------------------------------
Blocks == [init : Nat, size : Nat \ {0}, terminal : BOOLEAN, attr : STRING,
           cc : BOOLEAN]

TypeOK ==
    /\ map \in Seq(Entries) /\ map # <<>> /\ Ascending(map)
    /\ coloring \in BOOLEAN /\ refused \in BOOLEAN
    /\ entry \in 1..(Len(map) + 1) /\ level \in Levels
    /\ entry <= Len(map) => level <= map[entry].lvl
    /\ mmu \in [Levels -> Seq(Blocks)]

\* Whatever the gaps and the alignment of the map, the blocks of a level are in
\* order and never overlap, extended or not.
BlocksInOrder ==
    \A l \in Levels : \A i \in 1..(Len(mmu[l]) - 1) :
        BlockEnd(l, mmu[l][i]) <= mmu[l][i + 1].init

\* Every page of an entry that has been handled is in a block, at the level of the
\* entry and at every coarser one.
Handled(i, l) == l <= map[i].lvl /\ (i < entry \/ (i = entry /\ level < l))
InBlock(l, va) ==
    \E i \in DOMAIN mmu[l] :
        mmu[l][i].init <= va /\ va < BlockEnd(l, mmu[l][i])
EntriesCovered ==
    \A i \in DOMAIN map, l \in Levels :
        Handled(i, l) =>
            \A va \in map[i].from..(map[i].upto - 1) : InBlock(l, va)

\* The strengthening that makes the two inductive: a block starts below the end of
\* an entry that has been handled, so a new one is always the last.
StartsBelow ==
    \A l \in Levels : \A i \in DOMAIN mmu[l] :
        \E k \in DOMAIN map : Handled(k, l) /\ mmu[l][i].init < map[k].upto
MapInv == TypeOK /\ BlocksInOrder /\ EntriesCovered /\ StartsBelow

\* What the generator gets right is decided level by level.  Each entry that reaches a
\* level either is the first to do so, at a multiple of its descriptors and, on level 0,
\* at address 0; or the one before it reaches the level too, is less than a descriptor
\* away, and, if it differs and ends or begins in descriptors of this level, not in the
\* middle of one.
Alike(e, f) == e.lvl = f.lvl /\ e.attr = f.attr /\ e.cc = f.cc
Begins(m, l, j) ==
    /\ \A i \in 1..(j - 1) : m[i].lvl < l
    /\ m[j].from % Sizes[l] = 0
    /\ l = 0 => m[j].from = 0
GoesOn(m, l, j) ==
    /\ j > 1 /\ m[j - 1].lvl >= l
    /\ m[j].from <= Ceil(m[j - 1].upto, Sizes[l]) * Sizes[l]
    /\ ~Alike(m[j - 1], m[j]) /\ (l = m[j].lvl \/ l = m[j - 1].lvl) =>
          m[j].from % Sizes[l] = 0
Sound(m, l, k) ==
    \A j \in 1..k : m[j].lvl >= l => Begins(m, l, j) \/ GoesOn(m, l, j)

\* So it is up to entry k, on every level that entry k reaches.  Of the maps of the
\* repository, those are all regions of rpi4b but its line 12, which is behind a gap, and
\* the regions up to line 22 of the two Zynq boards, whose line 23 is.
Unbroken(m, k) == \A l \in 0..m[k].lvl : Sound(m, l, k)

\* A coloured region is of whole periods of pages, from a multiple of one, does not
\* follow another, and is for a machine that the strides are right for.
StridesFit ==
    /\ Contiguous = NumCores
    /\ \A k \in Sharing : Caches[k].way % Period = 0
ColoursFit(m) ==
    \A i \in DOMAIN m : m[i].cc =>
        /\ StridesFit
        /\ Sizes[m[i].lvl] = 1
        /\ m[i].from % Period = 0 /\ m[i].upto % Period = 0
        /\ i > 1 => ~Alike(m[i - 1], m[i])

\* README.md:138: the map "defines MMU translation levels and memory regions".
\* The processor finds each address of an unbroken region in that region, with its
\* attributes, at the same address or, if it is coloured, within the region, whatever gaps
\* the map has behind it or on finer levels; and no such region is refused.
InRegion(e, va) ==
    LET t == Translate(va)
    IN  /\ t.kind = "page" /\ t.attr = e.attr
        /\ IF coloring /\ e.cc THEN t.page \in e.from..(e.upto - 1) ELSE t.page = va
RegionsMapped ==
    Generated /\ ColoursFit(map) =>
        /\ refused => ~Unbroken(map, entry)
        /\ \A i \in 1..(entry - 1) : Unbroken(map, i) =>
              \A va \in map[i].from..(map[i].upto - 1) : InRegion(map[i], va)

\* Two cores never share a set of a shared cache: the pages of an unbroken region that
\* are linked to one are mapped to other sets than those that are linked to another.
SameSets(c, p, q) == Caches[c].way > 0 => p % Caches[c].way = q % Caches[c].way
ColoursApart ==
    Generated /\ ColoursFit(map) /\ coloring =>
        \A i \in 1..(entry - 1) : map[i].cc /\ Unbroken(map, i) =>
            \A c, d \in 0..(NumCores - 1) : c # d =>
                \A va \in Slice(map[i], c), wa \in Slice(map[i], d), k \in Sharing :
                    ~SameSets(k, Translate(va).page, Translate(wa).page)
==============================================================================
