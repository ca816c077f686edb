----------------------------- MODULE MemoryMapProofs -----------------------------
(***************************************************************************)
(* For every ascending memory map, whatever its gaps and its alignment, and  *)
(* for every number and size of levels: the blocks of mmu_gen.c are in order *)
(* and do not overlap, and every region has blocks at each of its levels.    *)
(* For every coloured block, number of cores and caches: the strides of       *)
(* writeCCPageLoop keep the cores apart where StridesFit, and not otherwise.  *)
(* For every unbroken region of a map: the processor that walks the tables    *)
(* finds each page where its region says, and the pages linked to two cores   *)
(* in sets of their own.                                                     *)
(***************************************************************************)
EXTENDS MemoryMap, FiniteSetTheorems, WellFoundedInduction, TLAPS

\* Rounding up leaves no page out.
LEMMA CeilCovers ==
    ASSUME NEW n \in Nat \ {0}, NEW s \in Nat \ {0}
    PROVE  /\ Ceil(n, s) \in Nat \ {0}
           /\ Ceil(n, s) * s \in Nat /\ Ceil(n, s) * s >= n
<1>. DEFINE q == (n + s - 1) \div s
            r == (n + s - 1) % s
<1>1. q \in Int /\ r \in 0..(s - 1) /\ n + s - 1 = s * q + r
  OBVIOUS
<1>2. s * q >= n
  BY <1>1
<1>3. q > 0
  <2>1. SUFFICES ASSUME q <= 0 PROVE FALSE
    BY <1>1
  <2>2. s * q <= 0
    BY <2>1, <1>1
  <2>. QED
    BY <1>2, <2>2
<1>. QED
  BY <1>1, <1>2, <1>3 DEF Ceil

LEMMA EntryFields ==
    ASSUME MapAssumption, NEW m \in Seq(Entries), NEW i \in DOMAIN m
    PROVE  /\ m[i] \in Entries /\ m[i].from \in Nat /\ m[i].upto \in Nat
           /\ m[i].lvl \in Levels /\ m[i].lvl \in Nat
           /\ m[i].attr \in STRING /\ m[i].cc \in BOOLEAN
<1>1. m[i] \in Entries
  OBVIOUS
<1>2. Levels \subseteq Nat
  BY DEF Levels, MapAssumption
<1>. QED
  BY <1>1, <1>2 DEF Entries

LEMMA BlockFields ==
    ASSUME MapAssumption, NEW l \in Levels, NEW b \in Blocks
    PROVE  /\ b.init \in Nat /\ b.size \in Nat /\ b.terminal \in BOOLEAN
           /\ Sizes[l] \in Nat \ {0}
           /\ b.size * Sizes[l] \in Nat /\ BlockEnd(l, b) \in Nat
<1>1. b.init \in Nat /\ b.size \in Nat /\ b.terminal \in BOOLEAN
  BY DEF Blocks
<1>2. Sizes[l] \in Nat \ {0}
  BY DEF MapAssumption
<1>3. b.size * Sizes[l] \in Nat
  BY <1>1, <1>2
<1>. QED
  BY <1>1, <1>2, <1>3 DEF BlockEnd

\* A block for an entry reaches its end,
LEMMA NewBlockReaches ==
    ASSUME MapAssumption, NEW l \in Levels, NEW e \in Entries,
           NEW first \in Nat, first < e.upto
    PROVE  /\ NewBlock(e, l, first) \in Blocks
           /\ NewBlock(e, l, first).init = first
           /\ BlockEnd(l, NewBlock(e, l, first)) \in Nat
           /\ BlockEnd(l, NewBlock(e, l, first)) >= e.upto
<1>. DEFINE more == Ceil(e.upto - first, Sizes[l])
            b == NewBlock(e, l, first)
<1>1. e.upto \in Nat /\ e.attr \in STRING /\ e.cc \in BOOLEAN
  BY DEF Entries
<1>2. e.upto - first \in Nat \ {0}
  BY <1>1
<1>3. Sizes[l] \in Nat \ {0}
  BY DEF MapAssumption
<1>4. more \in Nat \ {0} /\ more * Sizes[l] \in Nat /\ more * Sizes[l] >= e.upto - first
  BY <1>2, <1>3, CeilCovers
<1>5. b.size = more /\ b.init = first /\ BlockEnd(l, b) = first + more * Sizes[l]
  BY DEF NewBlock, BlockEnd
<1>6. b \in Blocks
  <2>. HIDE DEF more
  <2>1. b = [init |-> first, size |-> more, terminal |-> l = e.lvl,
             attr |-> e.attr, cc |-> e.cc]
    BY DEF NewBlock, more
  <2>. QED
    BY <1>1, <1>4, <2>1 DEF Blocks
<1>. HIDE DEF more, b
<1>7. BlockEnd(l, b) \in Nat /\ BlockEnd(l, b) >= e.upto
  BY <1>1, <1>4, <1>5
<1>. QED
  BY <1>5, <1>6, <1>7 DEF b

\* and so does a block that is extended for it.
LEMMA WiderBlockReaches ==
    ASSUME MapAssumption, NEW l \in Levels, NEW e \in Entries, NEW b \in Blocks,
           NEW wide, BlockEnd(l, b) < e.upto,
           wide = [b EXCEPT !.size = @ + Ceil(e.upto - BlockEnd(l, b), Sizes[l])]
    PROVE  /\ wide \in Blocks /\ wide.init = b.init
           /\ BlockEnd(l, wide) \in Nat /\ BlockEnd(l, wide) >= e.upto
<1>. DEFINE more == Ceil(e.upto - BlockEnd(l, b), Sizes[l])
<1>1. /\ b.init \in Nat /\ b.size \in Nat /\ BlockEnd(l, b) \in Nat
      /\ Sizes[l] \in Nat \ {0} /\ b.size * Sizes[l] \in Nat
  BY BlockFields
<1>2. e.upto - BlockEnd(l, b) \in Nat \ {0} /\ e.upto \in Nat
  BY <1>1 DEF Entries
<1>3. /\ more \in Nat \ {0} /\ more * Sizes[l] \in Nat
      /\ more * Sizes[l] >= e.upto - BlockEnd(l, b)
  BY <1>1, <1>2, CeilCovers
<1>. HIDE DEF more
<1>4. wide = [b EXCEPT !.size = b.size + more]
  BY DEF more
<1>5. wide \in Blocks /\ wide.init = b.init /\ wide.size = b.size + more
  <2>1. \A n \in Nat, k \in Nat \ {0} : n + k \in Nat \ {0}
    OBVIOUS
  <2>2. b.size + more \in Nat \ {0}
    BY <1>1, <1>3, <2>1
  <2>. QED
    BY <2>2, <1>4 DEF Blocks
<1>6. (b.size + more) * Sizes[l] = b.size * Sizes[l] + more * Sizes[l]
  BY <1>1, <1>3
<1>7. BlockEnd(l, wide) = BlockEnd(l, b) + more * Sizes[l]
  <2>1. BlockEnd(l, wide) = b.init + (b.size * Sizes[l] + more * Sizes[l])
    BY <1>5, <1>6 DEF BlockEnd
  <2>2. BlockEnd(l, b) = b.init + b.size * Sizes[l]
    BY DEF BlockEnd
  <2>. DEFINE x == b.size * Sizes[l]
              y == more * Sizes[l]
  <2>3. x \in Nat /\ y \in Nat
    BY <1>1, <1>3
  <2>. HIDE DEF x, y
  <2>4. b.init + (x + y) = (b.init + x) + y
    BY <1>1, <2>3
  <2>. QED
    BY <2>1, <2>2, <2>4 DEF x, y
<1>. QED
  BY <1>1, <1>2, <1>3, <1>5, <1>7, SMTT(30)

LEMMA InitInv ==
    ASSUME MapAssumption, Init
    PROVE  MapInv
<1>1. map \in Seq(Entries) /\ map # <<>> /\ Ascending(map)
  BY DEF MapAssumption, Init
<1>2. 1 \in DOMAIN map /\ map[1].lvl \in Levels /\ map[1].lvl \in Nat
  <2>1. 1 \in DOMAIN map
    BY <1>1
  <2>. QED
    BY <1>1, <2>1, EntryFields
<1>3. \A l \in Levels : mmu[l] = <<>>
  BY DEF Init
<1>4. \A i \in DOMAIN map, l \in Levels : ~Handled(i, l)
  <2>1. DOMAIN map \subseteq Nat \ {0} /\ Levels \subseteq Nat
    BY <1>1 DEF Levels, MapAssumption
  <2>. QED
    BY <1>2, <2>1 DEF Init, Handled
<1>5. TypeOK
  <2>1. mmu \in [Levels -> Seq(Blocks)]
    BY DEF Init
  <2>2. entry = 1 /\ entry \in 1..(Len(map) + 1) /\ level = map[entry].lvl
    BY <1>1, <1>2 DEF Init
  <2>3. entry <= Len(map) => level <= map[entry].lvl
    BY <1>2, <2>2
  <2>. QED
    BY <1>1, <1>2, <2>1, <2>2, <2>3 DEF Init, TypeOK
<1>6. BlocksInOrder /\ StartsBelow
  BY <1>3 DEF BlocksInOrder, StartsBelow
<1>7. EntriesCovered
  BY <1>4 DEF EntriesCovered
<1>. QED
  BY <1>5, <1>6, <1>7 DEF MapInv

\* What holds when an entry comes to a level: the entry is the first not handled
\* there, and every block of the level starts below it.
LEMMA AtLevel ==
    ASSUME MapAssumption, MapInv, Mapping
    PROVE  /\ entry \in DOMAIN map /\ level \in Levels /\ level \in Nat
           /\ Sizes[level] \in Nat \ {0}
           /\ map[entry] \in Entries /\ level <= map[entry].lvl
           /\ map[entry].from \in Nat /\ map[entry].upto \in Nat
           /\ map[entry].from < map[entry].upto
           /\ mmu[level] \in Seq(Blocks)
           /\ \A i \in DOMAIN mmu[level] :
                 /\ mmu[level][i] \in Blocks
                 /\ mmu[level][i].init <= map[entry].from
<1>. USE DEF MapInv
<1>1. /\ entry \in DOMAIN map /\ level \in Levels /\ level \in Nat
      /\ level <= map[entry].lvl
  BY DEF TypeOK, Mapping, Levels, MapAssumption
<1>2. Sizes[level] \in Nat \ {0}
  BY <1>1 DEF MapAssumption
<1>3. \A k \in DOMAIN map :
          /\ map[k] \in Entries /\ map[k].from \in Nat /\ map[k].upto \in Nat
          /\ map[k].from < map[k].upto
  BY EntryFields DEF TypeOK, Ascending
<1>4. /\ map[entry].from \in Nat /\ map[entry].upto \in Nat
      /\ map[entry].from < map[entry].upto
  BY <1>1, <1>3
<1>5. mmu[level] \in Seq(Blocks)
  BY <1>1 DEF TypeOK
<1>6. ASSUME NEW i \in DOMAIN mmu[level]
      PROVE  mmu[level][i] \in Blocks /\ mmu[level][i].init <= map[entry].from
  <2>1. mmu[level][i] \in Blocks
    BY <1>5
  <2>2. PICK k \in DOMAIN map : Handled(k, level) /\ mmu[level][i].init < map[k].upto
    BY <1>1 DEF StartsBelow
  <2>3. k < entry
    BY <1>1, <2>2 DEF Handled
  <2>4. map[k].upto <= map[entry].from
    BY <1>1, <2>3 DEF TypeOK, Ascending
  <2>5. map[k].upto \in Nat /\ mmu[level][i].init \in Nat
    BY <1>3, <2>1 DEF Blocks
  <2>. QED
    BY <1>4, <2>1, <2>2, <2>4, <2>5
<1>. QED
  BY <1>1, <1>2, <1>3, <1>4, <1>5, <1>6

\* The entry is handled at its level by the step that leaves the level.
LEMMA DescendHandles ==
    ASSUME MapAssumption, MapInv, Mapping, Descend, UNCHANGED map
    PROVE  /\ entry' \in 1..(Len(map') + 1) /\ level' \in Levels
           /\ entry' <= Len(map') => level' <= map'[entry'].lvl
           /\ \A i \in DOMAIN map, l \in Levels :
                 Handled(i, l)' <=> Handled(i, l) \/ (i = entry /\ l = level)
<1>1. /\ entry \in DOMAIN map /\ level \in Levels /\ level \in Nat
      /\ level <= map[entry].lvl
  BY AtLevel
<1>2. Len(map) \in Nat /\ DOMAIN map = 1..Len(map)
  BY DEF MapInv, TypeOK
<1>3. \A i \in DOMAIN map : map[i].lvl \in Levels /\ map[i].lvl \in Nat
  BY EntryFields DEF MapInv, TypeOK
<1>4. Levels \subseteq Nat /\ 0 \in Levels
  BY DEF Levels, MapAssumption
<1>5. CASE level > 0
  <2>1. level' = level - 1 /\ entry' = entry
    BY <1>5 DEF Descend
  <2>2. level - 1 \in Levels
    BY <1>1, <1>5 DEF Levels, MapAssumption
  <2>3. \A i \in DOMAIN map, l \in Levels :
            Handled(i, l)' <=> Handled(i, l) \/ (i = entry /\ l = level)
    BY <1>1, <1>2, <1>3, <1>4, <2>1 DEF Handled
  <2>4. level' <= map'[entry'].lvl
    BY <1>1, <1>3, <2>1
  <2>5. entry' \in 1..(Len(map') + 1) /\ level' \in Levels
    BY <1>1, <1>2, <2>1, <2>2
  <2>. QED
    BY <2>3, <2>4, <2>5
<1>6. CASE level = 0
  <2>1. /\ entry' = entry + 1
        /\ level' = IF entry < Len(map) THEN map[entry + 1].lvl ELSE 0
    BY <1>6 DEF Descend
  <2>2. /\ level' \in Levels
        /\ entry' <= Len(map) => level' = map[entry'].lvl
    <3>1. CASE entry < Len(map)
      <4>1. entry + 1 \in DOMAIN map /\ level' = map[entry + 1].lvl
        BY <1>1, <1>2, <2>1, <3>1
      <4>. QED
        BY <1>3, <2>1, <4>1
    <3>2. CASE ~(entry < Len(map))
      BY <1>1, <1>2, <1>4, <2>1, <3>2
    <3>. QED
      BY <3>1, <3>2
  <2>3. \A i \in DOMAIN map, l \in Levels :
            Handled(i, l)' <=> Handled(i, l) \/ (i = entry /\ l = level)
    <3>. SUFFICES ASSUME NEW i \in DOMAIN map, NEW l \in Levels
                  PROVE  Handled(i, l)' <=> Handled(i, l) \/ (i = entry /\ l = level)
      OBVIOUS
    <3>1. /\ i \in Nat /\ l \in Nat /\ map' = map
          /\ entry \in 1..Len(map) /\ Len(map) \in Nat
      BY <1>1, <1>2, <1>4
    <3>2. i = entry' => ~(level' < l /\ l <= map[i].lvl)
      BY <1>2, <1>3, <2>1, <2>2, <3>1
    <3>. QED
      BY <1>1, <1>3, <1>6, <2>1, <3>1, <3>2 DEF Handled
  <2>4. entry' \in 1..(Len(map') + 1)
    BY <1>1, <1>2, <2>1
  <2>5. ASSUME entry' <= Len(map') PROVE level' <= map'[entry'].lvl
    <3>1. entry' \in DOMAIN map
      BY <1>1, <1>2, <2>1, <2>5
    <3>. QED
      BY <1>3, <2>2, <2>5, <3>1
  <2>. QED
    BY <2>2, <2>3, <2>4, <2>5
<1>. QED
  BY <1>1, <1>5, <1>6

\* addMMUBlock appends a block or extends the last one, and the entry is covered.
LEMMA WithBlockCovers ==
    ASSUME MapAssumption, MapInv, Mapping, Covering(map[entry], level) = {},
           NEW blocks, blocks = WithBlock(map[entry], level)
    PROVE  /\ blocks \in Seq(Blocks)
           /\ \A i \in 1..(Len(blocks) - 1) :
                 BlockEnd(level, blocks[i]) <= blocks[i + 1].init
           /\ \A i \in DOMAIN blocks : blocks[i].init < map[entry].upto
           /\ \A va \in Nat :
                 InBlock(level, va) \/ va \in map[entry].from..(map[entry].upto - 1) =>
                     \E i \in DOMAIN blocks :
                        blocks[i].init <= va /\ va < BlockEnd(level, blocks[i])
<1>. DEFINE e == map[entry]
            l == level
            old == mmu[l]
            n == Len(old)
<1>1. /\ l \in Levels
      /\ e \in Entries /\ e.from \in Nat /\ e.upto \in Nat /\ e.from < e.upto
      /\ old \in Seq(Blocks)
      /\ \A i \in DOMAIN old : old[i] \in Blocks /\ old[i].init <= e.from
  BY AtLevel
<1>. HIDE DEF e, l
<1>2. n \in Nat /\ DOMAIN old = 1..n
  BY <1>1
<1>3. \A i \in 1..n :
          /\ old[i] \in Blocks /\ old[i].init \in Nat
          /\ old[i].init <= e.from /\ old[i].init < e.upto
          /\ BlockEnd(l, old[i]) \in Nat /\ BlockEnd(l, old[i]) < e.upto
  <2>. SUFFICES ASSUME NEW i \in 1..n
                PROVE  /\ old[i] \in Blocks /\ old[i].init \in Nat
                       /\ old[i].init <= e.from /\ old[i].init < e.upto
                       /\ BlockEnd(l, old[i]) \in Nat
                       /\ BlockEnd(l, old[i]) < e.upto
    OBVIOUS
  <2>1. old[i] \in Blocks /\ old[i].init <= e.from
    BY <1>1, <1>2
  <2>2. old[i].init \in Nat /\ BlockEnd(l, old[i]) \in Nat
    BY <1>1, <2>1, BlockFields
  <2>3. ~(BlockEnd(l, old[i]) >= e.upto)
    <3>1. \A k \in 1..i : old[k].init <= e.from
      BY <1>1, <1>2
    <3>2. i \in DOMAIN mmu[l] /\ Covering(e, l) = {}
      BY <1>2 DEF e, l
    <3>3. ASSUME BlockEnd(l, mmu[l][i]) >= e.upto PROVE i \in Covering(e, l)
      BY <3>1, <3>2, <3>3, Zenon DEF Covering
    <3>. QED
      BY <3>2, <3>3
  <2>. QED
    BY <1>1, <2>1, <2>2, <2>3
<1>4. Previous(e, l) = n
  <2>1. ASSUME NEW i \in DOMAIN old, NEW k \in 1..i PROVE old[k].init < e.upto
    BY <1>2, <1>3
  <2>2. {i \in DOMAIN old : \A k \in 1..i : old[k].init < e.upto} = 1..n
    BY <1>2, <2>1
  <2>3. Cardinality(1..n) = n
    <3>. HIDE DEF n
    <3>1. 1 \in Int /\ n \in Int
      BY <1>2
    <3>2. Cardinality(1..n) = IF 1 > n THEN 0 ELSE n - 1 + 1
      BY <3>1, FS_Interval
    <3>. QED
      BY <1>2, <3>2
  <2>. QED
    BY <2>2, <2>3 DEF Previous
<1>5. CASE n = 0
  <2>. DEFINE new == NewBlock(e, l, e.from)
  <2>1. blocks = <<new>>
    BY <1>4, <1>5 DEF WithBlock, e, l
  <2>2. new \in Blocks /\ new.init = e.from /\ BlockEnd(l, new) >= e.upto
        /\ BlockEnd(l, new) \in Nat
    BY <1>1, NewBlockReaches
  <2>3. \A va \in Nat : ~InBlock(l, va)
    BY <1>2, <1>5 DEF InBlock
  <2>. HIDE DEF new
  <2>4. DOMAIN blocks = {1} /\ Len(blocks) = 1 /\ blocks[1] = new
    BY <2>1
  <2>5. \A va \in e.from..(e.upto - 1) : new.init <= va /\ va < BlockEnd(l, new)
    BY <1>1, <2>2
  <2>6. blocks \in Seq(Blocks)
    BY <2>1, <2>2
  <2>. QED
    BY <1>1, <2>2, <2>3, <2>4, <2>5, <2>6 DEF e, l
<1>6. CASE n > 0 /\ Joins(old[n], e, l)
  <2>. DEFINE wide == [old[n] EXCEPT
                         !.size = @ + Ceil(e.upto - BlockEnd(l, old[n]), Sizes[l])]
  <2>1. n \in 1..n /\ BlockEnd(l, old[n]) >= e.from
    BY <1>2, <1>6 DEF Joins
  <2>2. blocks = [old EXCEPT ![n] = wide]
    BY <1>4, <1>6 DEF WithBlock, e, l
  <2>3. /\ wide \in Blocks /\ wide.init = old[n].init
        /\ BlockEnd(l, wide) \in Nat /\ BlockEnd(l, wide) >= e.upto
    BY <1>1, <1>3, <2>1, WiderBlockReaches
  <2>. HIDE DEF wide
  <2>4. /\ blocks \in Seq(Blocks) /\ Len(blocks) = n /\ DOMAIN blocks = 1..n
        /\ blocks[n] = wide
        /\ \A i \in 1..n : i # n => blocks[i] = old[i]
    BY <1>1, <1>2, <2>1, <2>2, <2>3
  <2>5. \A i \in 1..(n - 1) : BlockEnd(l, blocks[i]) <= blocks[i + 1].init
    <3>1. \A i \in 1..(n - 1) : BlockEnd(l, old[i]) <= old[i + 1].init
      BY <1>1 DEF MapInv, BlocksInOrder
    <3>2. \A i \in 1..(n - 1) : i \in 1..n /\ i # n /\ i + 1 \in 1..n
      BY <1>2
    <3>. QED
      BY <2>3, <2>4, <3>1, <3>2
  <2>6. \A i \in 1..n : blocks[i].init < e.upto
    BY <1>3, <2>3, <2>4
  <2>7. \A va \in e.from..(e.upto - 1) :
            blocks[n].init <= va /\ va < BlockEnd(l, blocks[n])
    <3>1. blocks[n].init <= e.from /\ blocks[n].init \in Nat
      BY <1>3, <2>1, <2>3, <2>4
    <3>2. BlockEnd(l, blocks[n]) >= e.upto /\ BlockEnd(l, blocks[n]) \in Nat
      BY <2>3, <2>4
    <3>. QED
      BY <1>1, <3>1, <3>2
  <2>8. ASSUME NEW va \in Nat, InBlock(l, va)
        PROVE  \E i \in 1..n : blocks[i].init <= va /\ va < BlockEnd(l, blocks[i])
    <3>1. PICK i \in 1..n : old[i].init <= va /\ va < BlockEnd(l, old[i])
      BY <1>2, <2>8 DEF InBlock
    <3>2. blocks[i].init <= va /\ va < BlockEnd(l, blocks[i])
      <4>1. CASE i # n
        BY <2>4, <3>1, <4>1
      <4>2. CASE i = n
        <5>1. BlockEnd(l, old[n]) <= BlockEnd(l, wide)
          <6>1. BlockEnd(l, old[n]) \in Nat /\ BlockEnd(l, old[n]) < e.upto
            BY <1>3, <2>1
          <6>. QED
            BY <1>1, <2>3, <6>1
        <5>2. va < BlockEnd(l, wide)
          BY <1>3, <2>1, <2>3, <3>1, <4>2, <5>1
        <5>. QED
          BY <2>3, <2>4, <3>1, <4>2, <5>2
      <4>. QED
        BY <4>1, <4>2
    <3>. QED
      BY <3>2
  <2>. QED
    BY <2>1, <2>4, <2>5, <2>6, <2>7, <2>8 DEF e, l
<1>7. CASE n > 0 /\ ~Joins(old[n], e, l)
  <2>. DEFINE end == BlockEnd(l, old[n])
              first == NewInit(e, end)
              new == NewBlock(e, l, first)
  <2>1. n \in 1..n /\ end \in Nat /\ end < e.upto /\ old[n].init <= e.from
    BY <1>2, <1>3, <1>7
  <2>2. first \in Nat /\ first < e.upto /\ end <= first /\ (first <= e.from \/ first = end)
    <3>. HIDE DEF end
    <3>. QED
      BY <1>1, <2>1 DEF NewInit
  <2>3. /\ new \in Blocks /\ new.init = first
        /\ BlockEnd(l, new) >= e.upto /\ BlockEnd(l, new) \in Nat
    <3>. HIDE DEF first
    <3>. QED
      BY <1>1, <2>2, NewBlockReaches
  <2>4. blocks = InsertAt(old, n + 1, new)
    BY <1>4, <1>7 DEF WithBlock, e, l
  <2>. HIDE DEF new
  <2>5. /\ blocks \in Seq(Blocks) /\ Len(blocks) = n + 1 /\ DOMAIN blocks = 1..(n + 1)
        /\ blocks[n + 1] = new
        /\ \A i \in 1..n : blocks[i] = old[i]
    <3>1. InsertAt(old, n + 1, new) = SubSeq(old, 1, n) \o <<new>> \o SubSeq(old, n + 1, n)
      <4>1. (n + 1) - 1 = n
        BY <1>2
      <4>. QED
        BY <4>1 DEF InsertAt
    <3>2. SubSeq(old, 1, n) = old /\ SubSeq(old, n + 1, n) = <<>>
      BY <1>1, <1>2
    <3>3. blocks = Append(old, new)
      <4>. HIDE DEF old, n
      <4>. SUFFICES \A o \in Seq(Blocks), b \in Blocks : (o \o <<b>>) \o <<>> = Append(o, b)
        BY <1>1, <2>3, <2>4, <3>1, <3>2
      <4>. QED
        OBVIOUS
    <3>. QED
      BY <1>1, <1>2, <2>3, <3>3
  <2>. HIDE DEF end, first
  <2>6. \A i \in 1..n : BlockEnd(l, blocks[i]) <= blocks[i + 1].init
    <3>1. \A i \in 1..(n - 1) : BlockEnd(l, old[i]) <= old[i + 1].init
      BY <1>1 DEF MapInv, BlocksInOrder
    <3>2. BlockEnd(l, blocks[n]) <= blocks[n + 1].init
      BY <2>1, <2>2, <2>3, <2>5 DEF end
    <3>3. \A i \in 1..n : i = n \/ (i \in 1..(n - 1) /\ i + 1 \in 1..n)
      BY <1>2
    <3>. QED
      BY <2>5, <3>1, <3>2, <3>3
  <2>7. \A i \in 1..(n + 1) : blocks[i].init < e.upto
    BY <1>2, <1>3, <2>2, <2>3, <2>5
  <2>8. ASSUME NEW va \in e.from..(e.upto - 1)
        PROVE  \E i \in 1..(n + 1) : blocks[i].init <= va /\ va < BlockEnd(l, blocks[i])
    <3>1. CASE first <= va
      <4>1. blocks[n + 1].init <= va /\ va < BlockEnd(l, blocks[n + 1])
        BY <1>1, <2>2, <2>3, <2>5, <3>1
      <4>. QED
        BY <1>2, <4>1
    <3>2. CASE va < first
      <4>1. blocks[n].init <= va /\ va < BlockEnd(l, blocks[n])
        <5>1. blocks[n] = old[n] /\ first = end
          <6>1. va \in Int /\ e.from <= va
            BY <1>1
          <6>2. first = end
            BY <1>1, <2>2, <3>2, <6>1
          <6>. QED
            BY <2>1, <2>5, <6>2
        <5>2. old[n].init \in Nat /\ old[n].init <= e.from
          BY <1>3, <2>1
        <5>3. old[n].init <= va /\ va < end
          BY <1>1, <3>2, <5>1, <5>2
        <5>. QED
          BY <5>1, <5>3 DEF end
      <4>. QED
        BY <1>2, <2>1, <4>1
    <3>. QED
      BY <1>1, <2>2, <3>1, <3>2
  <2>9. ASSUME NEW va \in Nat, InBlock(l, va)
        PROVE  \E i \in 1..(n + 1) : blocks[i].init <= va /\ va < BlockEnd(l, blocks[i])
    <3>1. PICK i \in 1..n : old[i].init <= va /\ va < BlockEnd(l, old[i])
      BY <1>2, <2>9 DEF InBlock
    <3>. QED
      BY <1>2, <2>5, <3>1, SMTT(30)
  <2>10. \A i \in 1..(Len(blocks) - 1) : BlockEnd(l, blocks[i]) <= blocks[i + 1].init
    BY <1>2, <2>5, <2>6
  <2>. QED
    BY <2>5, <2>7, <2>8, <2>9, <2>10 DEF e, l
<1>. QED
  BY <1>2, <1>5, <1>6, <1>7

LEMMA AddBlockInv ==
    ASSUME MapAssumption, MapInv, AddBlock
    PROVE  MapInv'
<1>. DEFINE new == WithBlock(map[entry], level)
<1>1. /\ Mapping /\ Covering(map[entry], level) = {} /\ Descend
      /\ mmu' = [mmu EXCEPT ![level] = new]
      /\ UNCHANGED <<map, coloring, refused>>
  BY DEF AddBlock
<1>2. /\ new \in Seq(Blocks)
      /\ \A i \in 1..(Len(new) - 1) : BlockEnd(level, new[i]) <= new[i + 1].init
      /\ \A i \in DOMAIN new : new[i].init < map[entry].upto
      /\ \A va \in Nat :
            InBlock(level, va) \/ va \in map[entry].from..(map[entry].upto - 1) =>
                \E i \in DOMAIN new : new[i].init <= va /\ va < BlockEnd(level, new[i])
  BY <1>1, WithBlockCovers
<1>. HIDE DEF new
<1>3. /\ entry \in DOMAIN map /\ level \in Levels /\ level <= map[entry].lvl
  BY <1>1, AtLevel
<1>4. /\ mmu' \in [Levels -> Seq(Blocks)] /\ mmu'[level] = new
      /\ \A l \in Levels : l # level => mmu'[l] = mmu[l]
  BY <1>1, <1>2, <1>3 DEF MapInv, TypeOK
<1>5. /\ entry' \in 1..(Len(map') + 1) /\ level' \in Levels
      /\ entry' <= Len(map') => level' <= map'[entry'].lvl
      /\ \A i \in DOMAIN map, l \in Levels :
            Handled(i, l)' <=> Handled(i, l) \/ (i = entry /\ l = level)
  BY <1>1, DescendHandles
<1>6. TypeOK'
  BY <1>1, <1>4, <1>5 DEF MapInv, TypeOK
<1>7. BlocksInOrder'
  BY <1>2, <1>4 DEF MapInv, BlocksInOrder, BlockEnd
<1>8. ASSUME NEW l \in Levels, NEW va \in Nat,
             InBlock(l, va) \/ (l = level /\ va \in map[entry].from..(map[entry].upto - 1))
      PROVE  InBlock(l, va)'
  BY <1>2, <1>4, <1>8 DEF InBlock, BlockEnd
<1>9. EntriesCovered'
  <2>. SUFFICES ASSUME NEW i \in DOMAIN map, NEW l \in Levels, Handled(i, l)',
                       NEW va \in map[i].from..(map[i].upto - 1)
                PROVE  InBlock(l, va)'
    BY <1>1 DEF EntriesCovered
  <2>1. va \in Nat
    BY EntryFields DEF MapInv, TypeOK
  <2>2. CASE Handled(i, l)
    <3>1. InBlock(l, va)
      BY <2>2 DEF MapInv, EntriesCovered
    <3>. QED
      BY <1>8, <2>1, <3>1
  <2>3. CASE i = entry /\ l = level
    BY <1>8, <2>1, <2>3
  <2>. QED
    BY <1>5, <2>2, <2>3
<1>10. StartsBelow'
  <2>. SUFFICES ASSUME NEW l \in Levels, NEW i \in DOMAIN mmu'[l]
                PROVE  \E k \in DOMAIN map : Handled(k, l)' /\ mmu'[l][i].init < map[k].upto
    BY <1>1 DEF StartsBelow
  <2>1. CASE l = level
    <3>1. mmu'[l] = new /\ i \in DOMAIN new
      BY <1>4, <2>1
    <3>2. mmu'[l][i].init < map[entry].upto
      BY <1>2, <3>1
    <3>3. PICK k \in DOMAIN map : k = entry /\ l = level
      BY <1>3, <2>1
    <3>4. Handled(k, l)' /\ mmu'[l][i].init < map[k].upto
      BY <1>5, <3>2, <3>3
    <3>. QED
      BY <3>3, <3>4
  <2>2. CASE l # level
    <3>1. mmu'[l] = mmu[l] /\ i \in DOMAIN mmu[l]
      BY <1>4, <2>2
    <3>2. StartsBelow
      BY DEF MapInv
    <3>3. PICK k \in DOMAIN map : Handled(k, l) /\ mmu[l][i].init < map[k].upto
      BY <3>1, <3>2 DEF StartsBelow
    <3>4. Handled(k, l)'
      BY <1>5, <3>3
    <3>. QED
      BY <3>1, <3>3, <3>4
  <2>. QED
    BY <2>1, <2>2
<1>. QED
  BY <1>6, <1>7, <1>9, <1>10 DEF MapInv

LEMMA FindBlockInv ==
    ASSUME MapAssumption, MapInv, FindBlock
    PROVE  MapInv'
<1>1. /\ Mapping /\ Covering(map[entry], level) # {} /\ Descend
      /\ UNCHANGED <<map, coloring, mmu, refused>>
  BY DEF FindBlock
<1>2. /\ entry \in DOMAIN map /\ level \in Levels
      /\ map[entry].from \in Nat /\ map[entry].upto \in Nat
      /\ mmu[level] \in Seq(Blocks)
  BY <1>1, AtLevel
<1>3. /\ entry' \in 1..(Len(map') + 1) /\ level' \in Levels
      /\ entry' <= Len(map') => level' <= map'[entry'].lvl
      /\ \A i \in DOMAIN map, l \in Levels :
            Handled(i, l)' <=> Handled(i, l) \/ (i = entry /\ l = level)
  BY <1>1, DescendHandles
<1>4. ASSUME NEW va \in map[entry].from..(map[entry].upto - 1)
      PROVE  InBlock(level, va)
  <2>1. PICK i \in DOMAIN mmu[level] :
            /\ \A k \in 1..i : mmu[level][k].init <= map[entry].from
            /\ BlockEnd(level, mmu[level][i]) >= map[entry].upto
    BY <1>1 DEF Covering
  <2>2. i \in 1..i /\ mmu[level][i] \in Blocks
    BY <1>2
  <2>3. mmu[level][i].init \in Nat /\ BlockEnd(level, mmu[level][i]) \in Nat
    BY <1>2, <2>2, BlockFields
  <2>4. mmu[level][i].init <= map[entry].from
    BY <2>1, <2>2
  <2>5. va \in Int /\ map[entry].from <= va /\ va < map[entry].upto
    BY <1>2
  <2>6. mmu[level][i].init <= va /\ va < BlockEnd(level, mmu[level][i])
    BY <1>2, <2>1, <2>3, <2>4, <2>5
  <2>. QED
    BY <2>6 DEF InBlock
<1>5. TypeOK'
  BY <1>1, <1>3 DEF MapInv, TypeOK
<1>6. BlocksInOrder'
  BY <1>1 DEF MapInv, BlocksInOrder, BlockEnd
<1>7. EntriesCovered'
  <2>1. \A l \in Levels, va \in Int : InBlock(l, va) => InBlock(l, va)'
    BY <1>1 DEF InBlock, BlockEnd
  <2>. SUFFICES ASSUME NEW i \in DOMAIN map, NEW l \in Levels, Handled(i, l)',
                       NEW va \in map[i].from..(map[i].upto - 1)
                PROVE  InBlock(l, va)'
    BY <1>1 DEF EntriesCovered
  <2>2. InBlock(l, va)
    BY <1>3, <1>4 DEF MapInv, EntriesCovered
  <2>. QED
    BY <2>1, <2>2
<1>8. StartsBelow'
  BY <1>1, <1>3 DEF MapInv, StartsBelow
<1>. QED
  BY <1>5, <1>6, <1>7, <1>8 DEF MapInv

LEMMA UnchangedInv ==
    ASSUME MapInv, UNCHANGED <<map, entry, level, mmu>>, coloring' \in BOOLEAN,
           refused' \in BOOLEAN
    PROVE  MapInv'
<1>1. TypeOK' /\ BlocksInOrder'
  BY DEF MapInv, TypeOK, BlocksInOrder, BlockEnd
<1>2. \A i, l : Handled(i, l)' <=> Handled(i, l)
  BY DEF Handled
<1>3. \A l, va : InBlock(l, va)' <=> InBlock(l, va)
  BY DEF InBlock, BlockEnd
<1>4. EntriesCovered' /\ StartsBelow'
  BY <1>2, <1>3 DEF MapInv, EntriesCovered, StartsBelow
<1>. QED
  BY <1>1, <1>4 DEF MapInv

LEMMA StepInv == MapAssumption /\ MapInv /\ [Next]_vars => MapInv'
<1>. SUFFICES ASSUME MapAssumption, MapInv, [Next]_vars PROVE MapInv'
  OBVIOUS
<1>1. CASE FindBlock
  BY <1>1, FindBlockInv
<1>2. CASE AddBlock
  BY <1>2, AddBlockInv
<1>3. CASE RefuseEntry
  BY <1>3, UnchangedInv DEF RefuseEntry, MapInv, TypeOK
<1>4. CASE UNCHANGED vars
  BY <1>4, UnchangedInv DEF vars, MapInv, TypeOK
<1>. QED
  BY <1>1, <1>2, <1>3, <1>4 DEF Next

\* The inductive invariant, for every ascending map and every levels.
THEOREM MapInvariant == Spec => []MapInv
<1>1. Init => MapInv
  BY InitInv, MapAssumption
<1>2. MapInv /\ [Next]_vars => MapInv'
  BY StepInv, MapAssumption
<1>. QED
  BY <1>1, <1>2, PTL DEF Spec

\* The lists that genTranslationTable writes are in order and nothing is in two
\* blocks of a level, however addMMUBlock extended them.
THEOREM BlocksStayInOrder == Spec => []BlocksInOrder
<1>1. MapInv => BlocksInOrder
  BY DEF MapInv
<1>. QED
  BY <1>1, MapInvariant, PTL

\* Every page of a handled region has a block at the level of the region and at
\* every coarser one, gaps and misaligned regions included.
THEOREM EntriesStayCovered == Spec => []EntriesCovered
<1>1. MapInv => EntriesCovered
  BY DEF MapInv
<1>. QED
  BY <1>1, MapInvariant, PTL
------------------------------------------------------------------------------
(* The colours.  writeCCPageLoop repeats, for each core, Contiguous pages and *)
(* a gap; the gap is of the pages of the other cores only when as many pages *)
(* are contiguous as there are cores, as on the boards of the repository.    *)

\* The number whose quotient and remainder by s are q and r.
At(s, q, r) == s * q + r

LEMMA AtParts ==
    \A s \in Nat \ {0}, q \in Int : \A r \in 0..(s - 1) :
        At(s, q, r) \in Int /\ At(s, q, r) \div s = q /\ At(s, q, r) % s = r
<1>. SUFFICES ASSUME NEW s \in Nat \ {0}, NEW q \in Int, NEW r \in 0..(s - 1)
              PROVE  /\ At(s, q, r) \in Int
                     /\ At(s, q, r) \div s = q /\ At(s, q, r) % s = r
  OBVIOUS
<1>. DEFINE a == s * q + r
            d == a \div s
            m == a % s
<1>1. a \in Int /\ d \in Int /\ m \in 0..(s - 1) /\ a = s * d + m
  <2>1. a \in Int
    OBVIOUS
  <2>. HIDE DEF a
  <2>. QED
    BY <2>1
<1>2. s * (q - d) = m - r
  BY <1>1
<1>3. ~(q - d >= 1)
  <2>1. SUFFICES ASSUME q - d >= 1 PROVE FALSE
    OBVIOUS
  <2>. HIDE DEF d, m
  <2>2. s * (q - d) >= s
    BY <2>1, <1>1
  <2>. QED
    BY <2>2, <1>1, <1>2
<1>4. ~(q - d <= -1)
  <2>1. SUFFICES ASSUME q - d <= -1 PROVE FALSE
    OBVIOUS
  <2>. HIDE DEF d, m
  <2>2. s * (q - d) <= -s
    BY <2>1, <1>1
  <2>. QED
    BY <2>2, <1>1, <1>2
<1>5. q = d
  BY <1>1, <1>3, <1>4
<1>6. r = m
  BY <1>1, <1>2, <1>5
<1>. QED
  BY <1>1, <1>5, <1>6 DEF At

\* Division by a positive number, as a sum.
LEMMA Divided ==
    ASSUME NEW a \in Nat, NEW s \in Nat \ {0}
    PROVE  /\ a \div s \in Nat /\ a % s \in 0..(s - 1)
           /\ a = s * (a \div s) + (a % s)
<1>1. a \div s \in Int /\ a % s \in 0..(s - 1) /\ a = s * (a \div s) + (a % s)
  OBVIOUS
<1>2. a \div s >= 0
  <2>1. SUFFICES ASSUME a \div s <= -1 PROVE FALSE
    BY <1>1
  <2>. DEFINE q == a \div s
  <2>. HIDE DEF q
  <2>2. s * q <= -s
    BY <2>1, <1>1 DEF q
  <2>. QED
    BY <2>2, <1>1 DEF q
<1>. QED
  BY <1>1, <1>2

\* The quotient of a number below a multiple is below its factor.
LEMMA Quotient ==
    ASSUME NEW s \in Nat \ {0}, NEW n \in Nat, NEW a \in 0..(s * n - 1)
    PROVE  a \div s \in 0..(n - 1)
<1>. DEFINE q == a \div s
<1>1. a \in Nat
  OBVIOUS
<1>2. q \in Nat /\ a >= s * q
  BY <1>1, Divided
<1>. HIDE DEF q
<1>3. ~(q >= n)
  <2>1. SUFFICES ASSUME q >= n PROVE FALSE
    OBVIOUS
  <2>2. s * q >= s * n
    BY <2>1, <1>2
  <2>. QED
    BY <2>2, <1>2
<1>. QED
  BY <1>2, <1>3 DEF q

\* Where a descriptor of a coloured block points: repetition n of core c, page r of
\* those that are contiguous.
LEMMA ColourParts ==
    ASSUME Contiguous = NumCores,
           NEW b \in Blocks, b.size % Period = 0, NEW j \in 0..(b.size - 1)
    PROVE  \E c \in 0..(NumCores - 1), n \in Nat, r \in 0..(NumCores - 1) :
              /\ n < b.size \div Period
              /\ c = j \div (b.size \div NumCores)
              /\ j = (b.size \div NumCores) * c + NumCores * n + r
              /\ ColourPlace(b, j) = At(Period, n, At(NumCores, c, r))
              /\ b.size = Period * (b.size \div Period)
<1>. DEFINE N == NumCores
            P == N * N
            rep == b.size \div P
            S == rep * N
            c == j \div S
            k == j % S
            n == k \div N
            r == k % N
<1>1. N \in Nat \ {0} /\ Period = P /\ b.size \in Nat /\ j \in Nat
  BY MapAssumption DEF Period, Blocks
<1>2. P \in Nat \ {0}
  BY <1>1
<1>. HIDE DEF N, P
<1>3. rep \in Nat /\ b.size = P * rep
  <2>1. b.size % P = 0
    BY <1>1
  <2>2. b.size \div P \in Nat /\ b.size = P * (b.size \div P) + (b.size % P)
    BY <1>1, <1>2, Divided
  <2>3. P * (b.size \div P) \in Int
    BY <2>2, <1>2
  <2>. QED
    BY <2>1, <2>2, <2>3
<1>. HIDE DEF rep
<1>4. S \in Nat /\ b.size = N * S
  BY <1>1, <1>3 DEF P
<1>5. S # 0
  BY <1>1, <1>4
<1>. HIDE DEF S
<1>6. c \in 0..(N - 1)
  <2>1. j \in 0..(S * N - 1)
    BY <1>1, <1>4
  <2>. QED
    BY <2>1, <1>1, <1>4, <1>5, Quotient
<1>7. k \in 0..(S - 1) /\ j = S * c + k
  BY <1>1, <1>4, <1>5, Divided
<1>8. b.size \div N = S
  <2>1. 0 \in 0..(N - 1)
    BY <1>1
  <2>2. At(N, S, 0) \div N = S
    <3>1. N \in Nat \ {0} /\ S \in Int
      BY <1>1, <1>4
    <3>2. \A e \in 0..(N - 1) : At(N, S, e) \div N = S
      BY <3>1, AtParts
    <3>. QED
      BY <3>2, <2>1
  <2>3. At(N, S, 0) = N * S
    BY <1>1, <1>4 DEF At
  <2>. QED
    BY <2>2, <2>3, <1>4
<1>9. n \in 0..(rep - 1)
  <2>1. k \in 0..(N * rep - 1)
    BY <1>1, <1>3, <1>7 DEF S
  <2>. QED
    BY <2>1, <1>1, <1>3, Quotient
<1>10. r \in 0..(N - 1) /\ k = N * n + r
  <2>1. k \in Nat
    BY <1>4, <1>7
  <2>. QED
    BY <2>1, <1>1, Divided
<1>11. ColourPlace(b, j) = N * c + n * (N + (N - 1) * N) + r
  <2>1. NumCores = N /\ Contiguous = N
    BY DEF N
  <2>2. S = rep * Contiguous /\ rep = b.size \div Period
    BY <1>1, <2>1 DEF S, rep
  <2>. QED
    BY <2>1, <2>2 DEF ColourPlace
<1>12. n * (N + (N - 1) * N) = P * n
  <2>1. N + (N - 1) * N = N * N
    BY <1>1
  <2>. QED
    BY <2>1, <1>1, <1>9 DEF P
<1>13. ColourPlace(b, j) = At(P, n, At(N, c, r))
  <2>. HIDE DEF c, n, r
  <2>1. N * c \in Int /\ P * n \in Int
    BY <1>1, <1>2, <1>3, <1>6, <1>9
  <2>2. ColourPlace(b, j) = P * n + (N * c + r)
    BY <2>1, <1>1, <1>11, <1>12, <1>10
  <2>. QED
    BY <2>2 DEF At
<1>14. j = S * c + N * n + r
  <2>. HIDE DEF c, n, r
  <2>1. S * c \in Int /\ N * n \in Int
    BY <1>1, <1>3, <1>4, <1>6, <1>9
  <2>. QED
    BY <2>1, <1>7, <1>10
<1>. HIDE DEF c, n, r
<1>15. /\ n \in Nat /\ n < b.size \div Period
       /\ c = j \div (b.size \div NumCores)
       /\ j = (b.size \div NumCores) * c + NumCores * n + r
       /\ ColourPlace(b, j) = At(Period, n, At(NumCores, c, r))
       /\ b.size = Period * (b.size \div Period)
  <2>1. NumCores = N /\ Period = P /\ b.size \div Period = rep
    BY <1>1 DEF N, rep
  <2>2. n \in Nat /\ n < rep
    BY <1>3, <1>9
  <2>3. c = j \div S
    BY DEF c
  <2>. QED
    BY <2>1, <2>2, <2>3, <1>3, <1>8, <1>13, <1>14
<1>16. c \in 0..(NumCores - 1) /\ r \in 0..(NumCores - 1)
  BY <1>6, <1>10 DEF N
<1>. QED
  BY <1>15, <1>16

\* A position within a period tells its core and page,
LEMMA WithinPeriod ==
    ASSUME NEW N \in Nat \ {0}, NEW c \in 0..(N - 1), NEW r \in 0..(N - 1)
    PROVE  At(N, c, r) \in 0..(N * N - 1)
<1>1. N * c <= N * (N - 1) /\ N * c >= 0 /\ N * c \in Int
  OBVIOUS
<1>2. N * (N - 1) = N * N - N
  OBVIOUS
<1>. QED
  BY <1>1, <1>2 DEF At

\* and a position in the block its repetition as well.
LEMMA PlaceParts ==
    ASSUME NEW N \in Nat \ {0}, NEW P, P = N * N, NEW n \in Nat,
           NEW c \in 0..(N - 1), NEW r \in 0..(N - 1)
    PROVE  LET p == At(P, n, At(N, c, r))
           IN  /\ p \in Nat /\ p < P * n + P
               /\ p \div P = n /\ (p % P) \div N = c /\ (p % P) % N = r
               /\ p % P = At(N, c, r) /\ (p \div N) % N = c
<1>. DEFINE y == At(N, c, r)
            z == At(N, n, c)
            p == At(P, n, y)
<1>1. P \in Nat \ {0} /\ y \in 0..(P - 1) /\ n \in Int /\ c \in Int
  BY WithinPeriod
<1>2. y \div N = c /\ y % N = r
  BY <1>1, AtParts
<1>3. z \in Int /\ z % N = c
  BY <1>1, AtParts
<1>. HIDE DEF y
<1>4. p \div P = n /\ p % P = y
  BY <1>1, AtParts
<1>5. p \in Nat /\ p < P * n + P
  <2>1. P * n \in Nat
    BY <1>1
  <2>. QED
    BY <2>1, <1>1 DEF At
<1>6. p = At(N, z, r)
  <2>1. P * n = N * (N * n)
    OBVIOUS
  <2>2. N * (N * n + c) = N * (N * n) + N * c
    BY <1>1
  <2>3. N * (N * n) \in Int /\ N * c \in Int
    BY <1>1
  <2>4. p = P * n + (N * c + r)
    BY DEF At, y
  <2>5. At(N, z, r) = N * (N * n + c) + r
    BY DEF At
  <2>. QED
    BY <2>1, <2>2, <2>3, <2>4, <2>5
<1>. HIDE DEF p, z
<1>7. At(N, z, r) \div N = z
  BY <1>3, AtParts
<1>8. (p \div N) % N = c
  BY <1>3, <1>6, <1>7
<1>9. /\ p \in Nat /\ p < P * n + P
      /\ p \div P = n /\ (p % P) \div N = c /\ (p % P) % N = r
      /\ p % P = y /\ (p \div N) % N = c
  BY <1>2, <1>4, <1>5, <1>8
<1>. QED
  BY <1>9 DEF p, y

\* Each page of a coloured region is mapped once, by the core whose colour it has: the
\* descriptors of a core, the ones of the pages linked to it, point to the pages of
\* the block whose group of Contiguous pages is that core's, and no two to the same page.
THEOREM ColoursFillBlock ==
    ASSUME Contiguous = NumCores,
           NEW b \in Blocks, b.size % Period = 0, NEW j \in 0..(b.size - 1)
    PROVE  /\ ColourPlace(b, j) \in 0..(b.size - 1)
           /\ (ColourPlace(b, j) \div Contiguous) % NumCores
                 = j \div (b.size \div NumCores)
           /\ \A i \in 0..(b.size - 1) :
                 ColourPlace(b, i) = ColourPlace(b, j) => i = j
<1>. DEFINE N == NumCores
            P == N * N
            rep == b.size \div Period
<1>1. N \in Nat \ {0} /\ Period = P /\ b.size \in Nat
  BY MapAssumption DEF Period, Blocks
<1>2. P \in Nat \ {0}
  BY <1>1
<1>. HIDE DEF P, rep
<1>3. ASSUME NEW i \in 0..(b.size - 1)
      PROVE  \E c \in 0..(N - 1), n \in Nat, r \in 0..(N - 1) :
                /\ n < rep
                /\ c = i \div (b.size \div N)
                /\ i = (b.size \div N) * c + N * n + r
                /\ ColourPlace(b, i) = At(P, n, At(N, c, r))
                /\ b.size = P * rep
  BY <1>1, ColourParts DEF rep
<1>4. PICK c \in 0..(N - 1), n \in Nat, r \in 0..(N - 1) :
         /\ n < rep
         /\ c = j \div (b.size \div N)
         /\ j = (b.size \div N) * c + N * n + r
         /\ ColourPlace(b, j) = At(P, n, At(N, c, r))
         /\ b.size = P * rep
  BY <1>3
<1>5. ASSUME NEW d \in 0..(N - 1), NEW m \in Nat, NEW q \in 0..(N - 1)
      PROVE  LET p == At(P, m, At(N, d, q))
             IN  /\ p \in Nat /\ p < P * m + P
                 /\ p \div P = m /\ (p % P) \div N = d /\ (p % P) % N = q
                 /\ (p \div N) % N = d
  <2>1. N \in Nat \ {0} /\ P = N * N
    BY <1>1 DEF P
  <2>. HIDE DEF N
  <2>. QED
    BY <2>1, PlaceParts
<1>. DEFINE p == ColourPlace(b, j)
<1>6. /\ p \in Nat /\ p < P * n + P
      /\ p \div P = n /\ (p % P) \div N = c /\ (p % P) % N = r
      /\ (p \div N) % N = c
  BY <1>4, <1>5
<1>. HIDE DEF p
<1>7. p \in 0..(b.size - 1)
  <2>1. rep \in Int
    BY <1>1, <1>2, Divided DEF rep
  <2>2. P * n + P <= P * rep
    <3>1. P * n + P = P * (n + 1)
      BY <1>2
    <3>2. n + 1 <= rep
      BY <1>4, <2>1
    <3>. QED
      BY <3>1, <3>2, <1>2, <2>1
  <2>3. P * n \in Int /\ P * rep \in Int /\ b.size = P * rep
    BY <1>2, <1>4, <2>1
  <2>. QED
    BY <2>2, <2>3, <1>2, <1>6
<1>8. ASSUME NEW i \in 0..(b.size - 1), ColourPlace(b, i) = ColourPlace(b, j)
      PROVE  i = j
  <2>1. PICK d \in 0..(N - 1), m \in Nat, q \in 0..(N - 1) :
           /\ i = (b.size \div N) * d + N * m + q
           /\ ColourPlace(b, i) = At(P, m, At(N, d, q))
    BY <1>3
  <2>2. p = At(P, m, At(N, d, q))
    BY <2>1, <1>8 DEF p
  <2>3. p \div P = m /\ (p % P) \div N = d /\ (p % P) % N = q
    BY <2>2, <1>5
  <2>4. d = c /\ m = n /\ q = r
    BY <2>3, <1>6
  <2>. QED
    BY <2>1, <2>4, <1>4
<1>. QED
  BY <1>4, <1>6, <1>7, <1>8 DEF p

\* Numbers that agree modulo a multiple of a number agree modulo that number.
LEMMA Coarser ==
    ASSUME NEW P \in Nat \ {0}, NEW w \in Nat \ {0}, w % P = 0,
           NEW p \in Nat, NEW q \in Nat, p % w = q % w
    PROVE  p % P = q % P
<1>. DEFINE f == w \div P
            a == p \div w
            z == q \div w
            x == p % P
            y == p \div P
<1>1. w = P * f /\ f \in Nat
  <2>1. f \in Nat /\ w = P * f + (w % P)
    BY Divided
  <2>. QED
    BY <2>1
<1>2. a \in Nat /\ z \in Nat /\ p = w * a + (p % w) /\ q = w * z + (q % w)
  BY Divided
<1>3. x \in 0..(P - 1) /\ y \in Nat /\ p = P * y + x
  BY Divided
<1>. HIDE DEF f, a, z, x, y
<1>4. q = p + w * z - w * a
  <2>1. w * z \in Int /\ w * a \in Int /\ p % w \in Int
    BY <1>2
  <2>. QED
    BY <2>1, <1>2
<1>5. w * z = P * (f * z) /\ w * a = P * (f * a)
  BY <1>1, <1>2
<1>6. q = P * (y + f * z - f * a) + x
  <2>1. f * z \in Int /\ f * a \in Int
    BY <1>1, <1>2
  <2>2. P * (y + f * z - f * a) = P * y + P * (f * z) - P * (f * a)
    BY <2>1, <1>3
  <2>3. P * (f * z) \in Int /\ P * (f * a) \in Int /\ P * y \in Int
    BY <2>1, <1>3
  <2>. QED
    BY <2>2, <2>3, <1>3, <1>4, <1>5
<1>7. y + f * z - f * a \in Int
  BY <1>1, <1>2, <1>3
<1>8. q % P = x
  <2>. DEFINE g == y + f * z - f * a
  <2>1. q = At(P, g, x) /\ g \in Int
    BY <1>6, <1>7 DEF At
  <2>. HIDE DEF g
  <2>. QED
    BY <2>1, <1>3, AtParts
<1>. QED
  BY <1>8 DEF x

\* A multiple of s does not change a remainder by s.
LEMMA Shifted ==
    ASSUME NEW s \in Nat \ {0}, NEW m \in Nat, m % s = 0,
           NEW q \in Nat, NEW r \in 0..(s - 1)
    PROVE  m + At(s, q, r) \in Nat /\ (m + At(s, q, r)) % s = r
<1>. DEFINE f == m \div s
            g == f + q
<1>1. f \in Nat /\ m = s * f
  <2>1. f \in Nat /\ m = s * f + (m % s)
    BY Divided
  <2>. QED
    BY <2>1
<1>. HIDE DEF f
<1>2. s * f \in Nat /\ s * q \in Nat /\ s * (f + q) = s * f + s * q
  BY <1>1
<1>3. m + At(s, q, r) = At(s, g, r)
  BY <1>1, <1>2 DEF At
<1>4. m + At(s, q, r) \in Nat
  BY <1>1, <1>2 DEF At
<1>5. g \in Int
  BY <1>1
<1>. HIDE DEF g
<1>6. At(s, g, r) % s = r
  BY <1>5, AtParts
<1>. QED
  BY <1>3, <1>4, <1>6

\* Two cores never meet in a shared cache: the pages that descriptors of different
\* cores of a coloured block point to fall in different sets, on the machines that
\* the strides are right for, if the block starts at a multiple of a period.
THEOREM ColoursNeverMeet ==
    ASSUME StridesFit, NEW k \in Sharing, Caches[k].way # 0,
           NEW b \in Blocks, b.size % Period = 0, b.init % Period = 0,
           NEW i \in 0..(b.size - 1), NEW j \in 0..(b.size - 1),
           i \div (b.size \div NumCores) # j \div (b.size \div NumCores)
    PROVE  ~SameSets(k, b.init + ColourPlace(b, i), b.init + ColourPlace(b, j))
<1>. DEFINE N == NumCores
            P == N * N
            w == Caches[k].way
<1>1. /\ N \in Nat \ {0} /\ Period = P /\ b.init \in Nat
      /\ Contiguous = NumCores /\ w % Period = 0
  BY MapAssumption DEF StridesFit, Period, Blocks
<1>2. P \in Nat \ {0}
  BY <1>1
<1>. HIDE DEF P
<1>3. w \in Nat \ {0} /\ w % P = 0
  <2>1. k \in DOMAIN Caches
    BY DEF Sharing
  <2>. DEFINE R == [way : Nat, shared : Nat]
  <2>2. Caches \in Seq(R)
    BY CacheAssumption
  <2>3. Caches[k] \in R
    <3>. HIDE DEF R
    <3>. QED
      BY <2>1, <2>2
  <2>. QED
    BY <2>3, <1>1
<1>4. b.init % P = 0
  BY <1>1
<1>. HIDE DEF w
<1>5. ASSUME NEW h \in 0..(b.size - 1)
      PROVE  /\ b.init + ColourPlace(b, h) \in Nat
             /\ ((b.init + ColourPlace(b, h)) % P) \div N = h \div (b.size \div N)
  <2>1. \E c \in 0..(N - 1), n \in Nat, r \in 0..(N - 1) :
           /\ c = h \div (b.size \div N)
           /\ ColourPlace(b, h) = At(P, n, At(N, c, r))
    <3>1. \E c \in 0..(N - 1), n \in Nat, r \in 0..(N - 1) :
             /\ n < b.size \div Period
             /\ c = h \div (b.size \div N)
             /\ h = (b.size \div N) * c + N * n + r
             /\ ColourPlace(b, h) = At(Period, n, At(N, c, r))
             /\ b.size = Period * (b.size \div Period)
      BY <1>1, ColourParts
    <3>. QED
      BY <3>1, <1>1
  <2>2. PICK c \in 0..(N - 1), n \in Nat, r \in 0..(N - 1) :
           /\ c = h \div (b.size \div N)
           /\ ColourPlace(b, h) = At(P, n, At(N, c, r))
    BY <2>1
  <2>. DEFINE y == At(N, c, r)
  <2>3. y \in 0..(P - 1)
    BY <1>1, WithinPeriod DEF P
  <2>4. y \div N = c
    <3>1. c \in Int
      OBVIOUS
    <3>. QED
      BY <3>1, <1>1, AtParts
  <2>. HIDE DEF y
  <2>5. b.init + At(P, n, y) \in Nat /\ (b.init + At(P, n, y)) % P = y
    BY <1>1, <1>2, <1>4, <2>3, Shifted
  <2>. QED
    BY <2>2, <2>4, <2>5 DEF y
<1>. DEFINE s == b.init + ColourPlace(b, i)
            t == b.init + ColourPlace(b, j)
<1>6. s \in Nat /\ t \in Nat /\ (s % P) \div N # (t % P) \div N
  BY <1>5
<1>. HIDE DEF s, t
<1>7. s % w # t % w
  <2>1. SUFFICES ASSUME s % w = t % w PROVE FALSE
    OBVIOUS
  <2>2. s % P = t % P
    <3>1. s \in Nat /\ t \in Nat
      BY <1>6
    <3>2. \A p, q \in Nat : p % w = q % w => p % P = q % P
      BY <1>2, <1>3, Coarser
    <3>. QED
      BY <3>1, <3>2, <2>1
  <2>. QED
    BY <2>2, <1>6
<1>. QED
  BY <1>3, <1>7 DEF SameSets, s, t, w

\* The pages of a way that each of the cores of a cache gets.
WayPages(i) ==
    LET pages == Caches[i].way \div Caches[i].shared
    IN  IF pages = 0 THEN 1 ELSE pages

LEMMA WayPagesPositive ==
    /\ \A i \in Sharing : WayPages(i) \in Nat \ {0}
    /\ \A i \in Sharing : Caches[i].way \in Nat
    /\ \A i \in Sharing : Caches[i].way = 0 => WayPages(i) = 1
<1>. DEFINE R == [way : Nat, shared : Nat]
<1>. SUFFICES ASSUME NEW i \in Sharing
              PROVE  /\ WayPages(i) \in Nat \ {0} /\ Caches[i].way \in Nat
                     /\ Caches[i].way = 0 => WayPages(i) = 1
  OBVIOUS
<1>1. i \in DOMAIN Caches /\ Caches[i].shared > 1
  BY DEF Sharing
<1>2. Caches[i] \in R
  <2>1. Caches \in Seq(R)
    BY CacheAssumption
  <2>. HIDE DEF R
  <2>. QED
    BY <2>1, <1>1
<1>3. Caches[i].way \in Nat /\ Caches[i].shared \in Nat \ {0}
  BY <1>1, <1>2
<1>4. Caches[i].way \div Caches[i].shared \in Nat
  BY <1>3, Divided
<1>5. ASSUME Caches[i].way = 0
      PROVE  Caches[i].way \div Caches[i].shared = 0
  <2>. DEFINE s == Caches[i].shared
  <2>1. 0 \div s \in Nat /\ 0 = s * (0 \div s) + (0 % s) /\ 0 % s \in 0..(s - 1)
    BY <1>3, Divided
  <2>2. s \in Nat \ {0}
    BY <1>3
  <2>. HIDE DEF s
  <2>. DEFINE q == 0 \div s
  <2>. HIDE DEF q
  <2>3. q # 0 => s * q >= s
    BY <2>1, <2>2 DEF q
  <2>4. q = 0
    BY <2>1, <2>2, <2>3 DEF q
  <2>. QED
    BY <1>5, <2>4 DEF q, s
<1>. QED
  BY <1>3, <1>4, <1>5 DEF WayPages

\* contiguousPages returns at least one page, whatever the caches are.
LEMMA ContiguousPositive == Contiguous \in Nat \ {0}
<1>. DEFINE S == {WayPages(i) : i \in Sharing}
            Below == {p \in Nat \X Nat : p[1] < p[2]}
<1>1. S # {} /\ S \subseteq Nat \ {0}
  <2>1. Sharing # {}
    BY MapAssumption
  <2>. QED
    BY <2>1, WayPagesPositive
<1>2. Below = OpToRel(<, Nat)
  BY DEF OpToRel
<1>3. IsWellFoundedOn(Below, Nat)
  BY <1>2, NatLessThanWellFounded
<1>4. Contiguous = Min(S)
  BY DEF Contiguous, WayPages
<1>. HIDE DEF S
<1>5. PICK n \in S : \A m \in S : <<m, n>> \notin Below
  <2>1. S \subseteq Nat
    BY <1>1
  <2>. HIDE DEF Below
  <2>. QED
    BY <1>1, <1>3, <2>1, WFMin
<1>6. \A m \in S : n =< m
  <2>. SUFFICES ASSUME NEW m \in S, m < n PROVE FALSE
    BY <1>1
  <2>1. m \in Nat /\ n \in Nat
    BY <1>1
  <2>2. <<m, n>> \in Below
    BY <2>1
  <2>. QED
    BY <2>2, <1>5
<1>7. Min(S) \in S
  BY <1>5, <1>6 DEF Min
<1>. QED
  BY <1>1, <1>4, <1>7

\* The second repetition of core 0: the gap that precedes it is too short or too long.
LEMMA GapMisses ==
    ASSUME NEW C \in Nat \ {0}, NEW N \in Nat, N > 1, C # N
    PROVE  \E e \in 0..(C - 1) : ((C + (C - 1) * N + e) \div C) % N # 0
<1>1. (C - 1) * N = C * N - N /\ C * N \in Nat
  OBVIOUS
<1>2. CASE C > N
  <2>. DEFINE r == C - N - 1
              v == C + (C - 1) * N + (C - 1)
  <2>1. r \in 0..(C - 1) /\ C * (N + 1) = C * N + C
    BY <1>2
  <2>2. v = At(C, N + 1, r)
    BY <2>1, <1>1 DEF At
  <2>. HIDE DEF r, v
  <2>3. v \div C = N + 1
    <3>1. N + 1 \in Int
      OBVIOUS
    <3>. QED
      BY <3>1, <2>1, <2>2, AtParts
  <2>4. At(N, 1, 1) % N = 1
    <3>1. 1 \in Int /\ 1 \in 0..(N - 1) /\ N \in Nat \ {0}
      OBVIOUS
    <3>. QED
      BY <3>1, AtParts, Zenon
  <2>5. At(N, 1, 1) = N + 1
    BY DEF At
  <2>6. (v \div C) % N # 0
    BY <2>3, <2>4, <2>5
  <2>. QED
    BY <2>6 DEF v
<1>3. CASE C < N
  <2>. DEFINE v == C + (C - 1) * N + 0
              q == v \div C
  <2>1. C * N >= N
    OBVIOUS
  <2>2. v \in 0..(C * N - 1) /\ v >= C
    BY <1>1, <1>3, <2>1
  <2>. HIDE DEF v
  <2>3. q \in 0..(N - 1)
    BY <2>2, Quotient
  <2>4. v = C * q + (v % C) /\ v % C \in 0..(C - 1)
    BY <2>2, Divided
  <2>5. q # 0
    BY <2>2, <2>4
  <2>. HIDE DEF q
  <2>6. q % N = q
    BY <2>3
  <2>7. (v \div C) % N # 0
    BY <2>5, <2>6 DEF q
  <2>. QED
    BY <2>7 DEF v
<1>. QED
  BY <1>2, <1>3

\* The other direction: unless as many pages are contiguous as there are cores, the
\* gap of mmu_gen.c:251 leads a core into pages of another colour, in every block of
\* two periods or more.  So the colours are apart exactly where the two agree.
THEOREM ColoursMeetOtherwise ==
    ASSUME Contiguous # NumCores, NumCores > 1,
           NEW b \in Blocks, b.size % Period = 0, b.size >= 2 * Period
    PROVE  \E j \in 0..(b.size - 1) :
              /\ j \div (b.size \div NumCores) = 0
              /\ (ColourPlace(b, j) \div Contiguous) % NumCores # 0
<1>. DEFINE N == NumCores
            C == Contiguous
            P == Period
            rep == b.size \div P
            S == rep * C
<1>1. N \in Nat /\ N > 1 /\ C \in Nat \ {0} /\ C # N /\ b.size \in Nat
  BY MapAssumption, ContiguousPositive DEF Blocks
<1>2. P = N * C /\ P \in Nat \ {0}
  <2>1. P = N * C
    BY DEF Period
  <2>. QED
    BY <2>1, <1>1
<1>3. PICK e \in 0..(C - 1) : ((C + (C - 1) * N + e) \div C) % N # 0
  BY <1>1, GapMisses
<1>. HIDE DEF P
<1>4. rep \in Nat /\ b.size = P * rep
  <2>1. rep \in Nat /\ b.size = P * rep + (b.size % P)
    BY <1>1, <1>2, Divided
  <2>2. b.size % P = 0
    BY DEF P
  <2>. QED
    BY <2>1, <2>2, <1>2
<1>. HIDE DEF rep
<1>5. rep >= 2
  <2>1. SUFFICES ASSUME rep <= 1 PROVE FALSE
    BY <1>4
  <2>2. P * rep <= P
    BY <2>1, <1>2, <1>4
  <2>. QED
    BY <2>2, <1>2, <1>4 DEF P
<1>6. S \in Nat \ {0} /\ S >= 2 * C /\ b.size = N * S /\ S <= b.size
  <2>1. S >= 2 * C
    BY <1>1, <1>4, <1>5
  <2>2. b.size = N * S
    BY <1>1, <1>2, <1>4
  <2>3. S \in Nat \ {0}
    BY <2>1, <1>1, <1>4
  <2>. HIDE DEF S
  <2>4. N * S >= S
    BY <2>3, <1>1
  <2>. QED
    BY <2>1, <2>2, <2>3, <2>4
<1>. DEFINE j == At(C, 1, e)
<1>7. j \in 0..(S - 1) /\ j \in 0..(b.size - 1)
  BY <1>1, <1>6 DEF At
<1>8. j \div C = 1 /\ j % C = e
  <2>. DEFINE q == 1
  <2>1. q \in Int /\ C \in Nat \ {0} /\ e \in 0..(C - 1) /\ j = At(C, q, e)
    BY <1>1
  <2>. HIDE DEF j, C, q
  <2>2. At(C, q, e) \div C = q /\ At(C, q, e) % C = e
    BY <2>1, AtParts
  <2>. QED
    BY <2>1, <2>2 DEF q
<1>. HIDE DEF j, S
<1>9. j \div S = 0 /\ j % S = j
  BY <1>6, <1>7
<1>10. b.size \div N = S
  <2>1. N \in Nat \ {0} /\ S \in Int /\ 0 \in 0..(N - 1)
    BY <1>1, <1>6
  <2>2. At(N, S, 0) \div N = S
    BY <2>1, AtParts, Zenon
  <2>3. At(N, S, 0) = b.size
    BY <1>1, <1>6 DEF At
  <2>. QED
    BY <2>2, <2>3
<1>11. ColourPlace(b, j) = C + (C - 1) * N + e
  <2>1. ColourPlace(b, j) = C * (j \div S) + ((j % S) \div C) * (C + (C - 1) * N) + ((j % S) % C)
    BY DEF ColourPlace, S, rep, P
  <2>2. ColourPlace(b, j) = C * 0 + 1 * (C + (C - 1) * N) + e
    BY <2>1, <1>8, <1>9
  <2>3. (C - 1) * N \in Int
    BY <1>1
  <2>. QED
    BY <2>2, <2>3, <1>1
<1>12. (ColourPlace(b, j) \div C) % N # 0
  BY <1>3, <1>11
<1>. QED
  BY <1>7, <1>9, <1>10, <1>12

------------------------------------------------------------------------------
(* Multiples of the pages of a descriptor, and induction.                    *)

\* A set that has 0, and with a number the next one, has every number.
LEMMA Induction ==
    ASSUME NEW S, 0 \in S, \A n \in Nat : n \in S => n + 1 \in S
    PROVE  Nat \subseteq S
<1>. DEFINE Below == {p \in Nat \X Nat : p[1] < p[2]}
<1>1. Below = OpToRel(<, Nat)
  BY DEF OpToRel
<1>2. IsWellFoundedOn(Below, Nat)
  BY <1>1, NatLessThanWellFounded
<1>3. ASSUME Nat \ S # {} PROVE FALSE
  <2>1. PICK n \in Nat \ S : \A m \in Nat \ S : <<m, n>> \notin Below
    BY <1>2, <1>3, WFMin
  <2>. QED
    BY <2>1, <<n - 1, n>> \in Nat \X Nat
<1>. QED
  BY <1>3

LEMMA Multiple ==
    ASSUME NEW s \in Nat \ {0}
    PROVE  /\ \A k \in Nat : s * k \in Nat /\ (s * k) % s = 0 /\ (s * k) \div s = k
           /\ \A a \in Nat : a % s = 0 => \E k \in Nat : a = s * k
<1>1. ASSUME NEW k \in Nat
      PROVE  s * k \in Nat /\ (s * k) % s = 0 /\ (s * k) \div s = k
  <2>1. s * k \in Nat
    OBVIOUS
  <2>2. 0 \in 0..(s - 1) /\ k \in Int
    OBVIOUS
  <2>3. At(s, k, 0) = s * k
    BY <2>1 DEF At
  <2>4. At(s, k, 0) % s = 0 /\ At(s, k, 0) \div s = k
    BY <2>2, AtParts, Zenon
  <2>. QED
    BY <2>1, <2>3, <2>4
<1>2. ASSUME NEW a \in Nat, a % s = 0
      PROVE  \E k \in Nat : a = s * k
  <2>1. a \div s \in Nat /\ a = s * (a \div s) + (a % s)
    BY Divided
  <2>2. s * (a \div s) \in Nat
    BY <2>1
  <2>. QED
    BY <1>2, <2>1, <2>2
<1>. QED
  BY <1>1, <1>2

\* Two multiples less than s apart are one.
LEMMA SameMultiple ==
    ASSUME NEW s \in Nat \ {0}, NEW a \in Nat, NEW b \in Nat,
           a % s = 0, b % s = 0, a <= b, b < a + s
    PROVE  a = b
<1>1. PICK j \in Nat : a = s * j
  BY Multiple
<1>2. PICK k \in Nat : b = s * k
  BY Multiple
<1>3. ~(k >= j + 1)
  <2>1. SUFFICES ASSUME k >= j + 1 PROVE FALSE
    OBVIOUS
  <2>2. s * k >= s * (j + 1)
    BY <2>1
  <2>3. s * (j + 1) = s * j + s
    OBVIOUS
  <2>. QED
    BY <2>2, <2>3, <1>1, <1>2
<1>4. ~(k <= j - 1)
  <2>1. SUFFICES ASSUME k <= j - 1 PROVE FALSE
    OBVIOUS
  <2>2. s * k <= s * (j - 1)
    BY <2>1
  <2>3. s * (j - 1) = s * j - s
    OBVIOUS
  <2>. QED
    BY <2>2, <2>3, <1>1, <1>2
<1>. QED
  BY <1>1, <1>2, <1>3, <1>4

\* Whole descriptors more, still a multiple.
LEMMA MoreMultiple ==
    ASSUME NEW s \in Nat \ {0}, NEW a \in Nat, a % s = 0, NEW k \in Nat
    PROVE  a + k * s \in Nat /\ (a + k * s) % s = 0
<1>1. PICK j \in Nat : a = s * j
  BY Multiple
<1>2. a + k * s = s * (j + k) /\ j + k \in Nat
  BY <1>1
<1>. QED
  BY <1>2, Multiple

\* There is no gap between the levels.
LEMMA LevelBelow ==
    ASSUME NEW h \in Nat, h + 1 \in Levels
    PROVE  h \in Levels
<1>1. NumLvls \in Nat /\ h + 1 \in 0..(NumLvls - 1)
  BY MapAssumption DEF Levels
<1>2. h \in 0..(NumLvls - 1)
  BY <1>1
<1>. QED
  BY <1>2 DEF Levels

\* Rounding up adds less than a descriptor.
LEMMA CeilTight ==
    ASSUME NEW n \in Nat \ {0}, NEW s \in Nat \ {0}
    PROVE  Ceil(n, s) * s < n + s
<1>. DEFINE a == n + s - 1
            q == a \div s
<1>1. a \in Nat
  OBVIOUS
<1>2. q \in Nat /\ a % s \in 0..(s - 1) /\ a = s * q + (a % s)
  BY <1>1, Divided
<1>3. s * q <= a /\ s * q = q * s
  BY <1>1, <1>2
<1>. QED
  BY <1>3 DEF Ceil

\* Entry k is the first of map m that reaches level l.
FirstAt(m, l, k) == m[k].lvl >= l /\ \A i \in 1..(k - 1) : m[i].lvl < l

\* Page va is in block i of a list of level l.
InBlockOf(l, blocks, i, va) == blocks[i].init <= va /\ va < BlockEnd(l, blocks[i])

\* A block that serves an entry at a level: a terminal one has its attributes.
Serves(e, l, b) ==
    /\ b.terminal <=> l = e.lvl
    /\ b.terminal => b.attr = e.attr /\ b.cc = e.cc

\* A block does not begin behind the entries done, and the last one reaches no full
\* page behind them.
Tight(m, l, blocks, done) ==
    /\ \A i \in DOMAIN blocks : \E k \in done : blocks[i].init < m[k].upto
    /\ blocks # <<>> =>
        \E k \in done : BlockEnd(l, blocks[Len(blocks)]) < m[k].upto + Sizes[l]

\* The list of a level has no gap, from the first entry that reaches it on.
Seamless(m, l, blocks, done) ==
    /\ blocks # <<>> => \E k \in done : FirstAt(m, l, k) /\ blocks[1].init = m[k].from
    /\ \A i \in DOMAIN blocks : blocks[i].init % Sizes[l] = 0
    /\ \A i \in 1..(Len(blocks) - 1) : BlockEnd(l, blocks[i]) = blocks[i + 1].init

\* A block that points to the next level begins with an entry that goes there, and
\* where that level does if the level is sound up to that entry.
Pointing(m, l, blocks, done) ==
    \A i \in DOMAIN blocks : ~blocks[i].terminal =>
        \E k \in done : /\ m[k].lvl > l /\ blocks[i].init = m[k].from
                        /\ Sound(m, l + 1, k) => FirstAt(m, l + 1, k)

\* Each page of the entries done is in a block that serves its entry.
Served(m, l, blocks, done) ==
    \A k \in done : \A va \in m[k].from..(m[k].upto - 1) :
        \E i \in DOMAIN blocks : InBlockOf(l, blocks, i, va) /\ Serves(m[k], l, blocks[i])

\* A coloured block is exactly one region.
Whole(m, l, blocks, done) ==
    \A i \in DOMAIN blocks : blocks[i].terminal /\ blocks[i].cc =>
        \E k \in done : /\ m[k].lvl = l /\ m[k].cc /\ blocks[i].attr = m[k].attr
                        /\ blocks[i].init = m[k].from
                        /\ BlockEnd(l, blocks[i]) = m[k].upto

LevelOk(m, l, blocks, done) ==
    /\ blocks \in Seq(Blocks)
    /\ Tight(m, l, blocks, done) /\ Seamless(m, l, blocks, done)
    /\ Pointing(m, l, blocks, done) /\ Served(m, l, blocks, done)
    /\ Whole(m, l, blocks, done)

Done(l) == {k \in DOMAIN map : Handled(k, l)}
Good(l) == {k \in Done(l) : Sound(map, l, k)}

\* A list begins with the blocks of its core, but the last of them may have been
\* extended if it is not coloured.
Extends(blocks, core) ==
    /\ Len(core) <= Len(blocks)
    /\ \A i \in DOMAIN core :
          /\ blocks[i].init = core[i].init /\ blocks[i].terminal = core[i].terminal
          /\ blocks[i].attr = core[i].attr /\ blocks[i].cc = core[i].cc
          /\ blocks[i].size >= core[i].size
          /\ i < Len(core) \/ (core[i].terminal /\ core[i].cc) => blocks[i] = core[i]

\* The list of a level is fit for the entries up to which the level is sound, whatever
\* comes after them.
CoreOf(l, core) ==
    /\ LevelOk(map, l, core, Good(l)) /\ Extends(mmu[l], core)
    /\ Good(l) = Done(l) => core = mmu[l]
TablesFit == \A l \in Levels : \E core : CoreOf(l, core)
UnbrokenInv == ColoursFit(map) => TablesFit /\ (refused => ~Unbroken(map, entry))

------------------------------------------------------------------------------
(* How a list of blocks grows.                                               *)

\* An entry comes to a level that is sound: the entries before it that reach the level
\* are done.
Comes(m, j, l, blocks, done) ==
    /\ m \in Seq(Entries) /\ m # <<>> /\ Ascending(m) /\ ColoursFit(m)
    /\ j \in DOMAIN m /\ l \in Levels /\ l <= m[j].lvl /\ Sound(m, l, j)
    /\ done = {k \in DOMAIN m : k < j /\ m[k].lvl >= l}
    /\ LevelOk(m, l, blocks, done)

LEMMA MapFields ==
    ASSUME NEW m \in Seq(Entries), Ascending(m), NEW k \in DOMAIN m
    PROVE  /\ m[k] \in Entries /\ m[k].from \in Nat /\ m[k].upto \in Nat
           /\ m[k].from < m[k].upto /\ m[k].cc \in BOOLEAN
           /\ m[k].lvl \in Levels /\ m[k].lvl \in Nat
<1>1. m[k].from < m[k].upto
  BY DEF Ascending
<1>. QED
  BY <1>1, EntryFields, MapAssumption

LEMMA LevelFields ==
    /\ \A l \in Levels : l \in Nat /\ Sizes[l] \in Nat \ {0}
    /\ \A l \in Levels, b \in Blocks :
          /\ b.init \in Nat /\ b.size \in Nat \ {0} /\ b.terminal \in BOOLEAN
          /\ b.cc \in BOOLEAN
          /\ b.size * Sizes[l] \in Nat /\ BlockEnd(l, b) \in Nat
          /\ b.init < BlockEnd(l, b)
<1>1. \A l \in Levels : l \in Nat /\ Sizes[l] \in Nat \ {0}
  BY MapAssumption DEF Levels
<1>2. ASSUME NEW l \in Levels, NEW b \in Blocks
      PROVE  /\ b.init \in Nat /\ b.size \in Nat \ {0} /\ b.terminal \in BOOLEAN
             /\ b.cc \in BOOLEAN
             /\ b.size * Sizes[l] \in Nat /\ BlockEnd(l, b) \in Nat
             /\ b.init < BlockEnd(l, b)
  <2>1. /\ b.init \in Nat /\ b.size \in Nat \ {0} /\ b.terminal \in BOOLEAN
        /\ b.cc \in BOOLEAN
    BY DEF Blocks
  <2>. DEFINE s == Sizes[l]
              z == b.size
  <2>2. s \in Nat \ {0} /\ z \in Nat \ {0}
    BY <1>1, <2>1
  <2>3. BlockEnd(l, b) = b.init + z * s
    BY DEF BlockEnd
  <2>. HIDE DEF s, z
  <2>4. z * s \in Nat /\ z * s > 0
    BY <2>2
  <2>5. BlockEnd(l, b) \in Nat /\ b.init < BlockEnd(l, b)
    BY <2>1, <2>3, <2>4
  <2>. QED
    BY <2>1, <2>4, <2>5 DEF s, z
<1>. QED
  BY <1>1, <1>2

\* A block without a gap to the next ends where or before any later one begins.
LEMMA Ordered ==
    ASSUME NEW l \in Levels, NEW blocks \in Seq(Blocks),
           \A i \in 1..(Len(blocks) - 1) : BlockEnd(l, blocks[i]) = blocks[i + 1].init,
           NEW i \in DOMAIN blocks, NEW k \in DOMAIN blocks, i < k
    PROVE  BlockEnd(l, blocks[i]) <= blocks[k].init
<1>. DEFINE n == Len(blocks)
            S == {d \in Nat : i + 1 + d <= n =>
                                  BlockEnd(l, blocks[i]) <= blocks[i + 1 + d].init}
<1>1. n \in Nat /\ DOMAIN blocks = 1..n /\ i \in 1..n /\ k \in 1..n
  OBVIOUS
<1>2. \A h \in 1..n : /\ blocks[h].init \in Nat /\ BlockEnd(l, blocks[h]) \in Nat
                      /\ blocks[h].init < BlockEnd(l, blocks[h])
  <2>1. \A h \in 1..n : blocks[h] \in Blocks
    BY <1>1
  <2>. QED
    BY <2>1, LevelFields
<1>3. 0 \in S
  <2>1. i + 1 + 0 = i + 1 /\ (i + 1 <= n => i \in 1..(n - 1) /\ i + 1 \in 1..n)
    BY <1>1
  <2>2. i + 1 <= n => BlockEnd(l, blocks[i]) <= blocks[i + 1].init
    BY <1>2, <2>1
  <2>. QED
    BY <2>1, <2>2
<1>4. ASSUME NEW d \in Nat, d \in S PROVE d + 1 \in S
  <2>1. SUFFICES ASSUME i + 1 + (d + 1) <= n
                 PROVE  BlockEnd(l, blocks[i]) <= blocks[i + 1 + (d + 1)].init
    OBVIOUS
  <2>. DEFINE h == i + 1 + d
  <2>2. h \in 1..(n - 1) /\ h + 1 = i + 1 + (d + 1) /\ h \in 1..n /\ h + 1 \in 1..n
    BY <1>1, <2>1
  <2>3. BlockEnd(l, blocks[i]) <= blocks[h].init
    BY <1>4, <2>2
  <2>4. BlockEnd(l, blocks[h]) = blocks[h + 1].init
    BY <2>2
  <2>. HIDE DEF h
  <2>5. BlockEnd(l, blocks[i]) <= blocks[h + 1].init
    BY <1>1, <1>2, <2>2, <2>3, <2>4
  <2>. QED
    BY <2>2, <2>5
<1>. HIDE DEF S
<1>5. Nat \subseteq S
  BY <1>3, <1>4, Induction
<1>6. k - i - 1 \in S /\ i + 1 + (k - i - 1) = k /\ k <= n
  BY <1>1, <1>5
<1>. QED
  BY <1>6 DEF S

\* The entry before one that comes to a level.
LEMMA Before ==
    ASSUME NEW m, NEW j, NEW l, NEW blocks, NEW done, Comes(m, j, l, blocks, done)
    PROVE  /\ done = {} => FirstAt(m, l, j) /\ m[j].from % Sizes[l] = 0
           /\ done # {} =>
                 /\ j - 1 \in done /\ j > 1 /\ m[j - 1].upto <= m[j].from
                 /\ m[j].from <= Ceil(m[j - 1].upto, Sizes[l]) * Sizes[l]
                 /\ \A k \in done : m[k].upto <= m[j - 1].upto
                 /\ ~Alike(m[j - 1], m[j]) /\ (l = m[j].lvl \/ l = m[j - 1].lvl) =>
                       m[j].from % Sizes[l] = 0
<1>. USE DEF Comes
<1>1. /\ Len(m) \in Nat /\ DOMAIN m = 1..Len(m) /\ j \in 1..Len(m) /\ l \in Nat
      /\ \A k \in DOMAIN m : /\ m[k].from \in Nat /\ m[k].upto \in Nat
                             /\ m[k].from < m[k].upto
                             /\ m[k].lvl \in Levels /\ m[k].lvl \in Nat
  BY MapFields, LevelFields
<1>2. Begins(m, l, j) \/ GoesOn(m, l, j)
  <2>1. j \in 1..j /\ m[j].lvl >= l
    BY <1>1
  <2>. QED
    BY <2>1 DEF Sound
<1>3. ASSUME done = {}
      PROVE  FirstAt(m, l, j) /\ m[j].from % Sizes[l] = 0
  <2>1. FirstAt(m, l, j)
    BY <1>1, <1>3 DEF FirstAt
  <2>2. ~GoesOn(m, l, j)
    <3>1. SUFFICES ASSUME j > 1, m[j - 1].lvl >= l PROVE FALSE
      BY DEF GoesOn
    <3>2. j - 1 \in DOMAIN m /\ j - 1 < j
      BY <1>1, <3>1
    <3>. QED
      BY <1>3, <3>1, <3>2
  <2>. QED
    BY <1>2, <2>1, <2>2 DEF Begins
<1>4. ASSUME done # {}
      PROVE  /\ j - 1 \in done /\ j > 1 /\ m[j - 1].upto <= m[j].from
             /\ m[j].from <= Ceil(m[j - 1].upto, Sizes[l]) * Sizes[l]
             /\ \A k \in done : m[k].upto <= m[j - 1].upto
             /\ ~Alike(m[j - 1], m[j]) /\ (l = m[j].lvl \/ l = m[j - 1].lvl) =>
                   m[j].from % Sizes[l] = 0
  <2>1. GoesOn(m, l, j)
    <3>1. PICK k \in DOMAIN m : k < j /\ m[k].lvl >= l
      BY <1>4
    <3>2. k \in 1..(j - 1) /\ ~(m[k].lvl < l)
      BY <1>1, <3>1
    <3>. QED
      BY <1>2, <3>2 DEF Begins
  <2>2. j > 1 /\ j - 1 \in DOMAIN m /\ j - 1 < j /\ m[j - 1].lvl >= l
    BY <1>1, <2>1 DEF GoesOn
  <2>3. j - 1 \in done
    BY <2>2
  <2>4. m[j - 1].upto <= m[j].from
    BY <2>2 DEF Ascending
  <2>5. ASSUME NEW k \in done PROVE m[k].upto <= m[j - 1].upto
    <3>1. k \in DOMAIN m /\ (k = j - 1 \/ k < j - 1)
      BY <1>1
    <3>2. k < j - 1 => m[k].upto <= m[j - 1].from
      BY <2>2, <3>1 DEF Ascending
    <3>. QED
      BY <1>1, <2>2, <3>1, <3>2
  <2>. QED
    BY <2>1, <2>2, <2>3, <2>4, <2>5 DEF GoesOn
<1>. QED
  BY <1>3, <1>4

\* A multiple that is not below a number is not below the next multiple from it.
LEMMA CeilLeast ==
    ASSUME NEW s \in Nat \ {0}, NEW n \in Nat \ {0}, NEW a \in Nat, a % s = 0, n <= a
    PROVE  Ceil(n, s) * s <= a
<1>1. PICK k \in Nat : a = s * k
  BY Multiple
<1>. DEFINE q == Ceil(n, s)
<1>2. q \in Nat /\ q * s < n + s
  BY CeilCovers, CeilTight
<1>. HIDE DEF q
<1>3. q <= k
  <2>1. SUFFICES ASSUME k + 1 <= q PROVE FALSE
    BY <1>2
  <2>. DEFINE d == q - (k + 1)
  <2>2. d \in Nat /\ q = (k + 1) + d
    BY <1>2, <2>1
  <2>. HIDE DEF d
  <2>3. q * s = s * k + s + d * s /\ d * s \in Nat /\ s * k \in Nat
    BY <2>2
  <2>. QED
    BY <1>1, <1>2, <2>3
<1>. DEFINE d == k - q
<1>4. d \in Nat /\ k = q + d
  BY <1>2, <1>3
<1>. HIDE DEF d
<1>5. s * k = q * s + d * s /\ d * s \in Nat /\ q * s \in Nat
  BY <1>2, <1>4
<1>6. q * s <= a
  BY <1>1, <1>5
<1>. QED
  BY <1>6 DEF q

\* The last block of a level reaches the entry that comes, and less than a descriptor
\* into it: no further than its first page if the entry differs from the one before.
LEMMA Prior ==
    ASSUME NEW m, NEW j, NEW l, NEW blocks, NEW done, Comes(m, j, l, blocks, done),
           blocks # <<>>, NEW n, n = Len(blocks), NEW end, end = BlockEnd(l, blocks[n])
    PROVE  /\ n \in Nat \ {0} /\ DOMAIN blocks = 1..n /\ done # {}
           /\ blocks[n].init < m[j].from
           /\ end \in Nat /\ end % Sizes[l] = 0
           /\ m[j].from <= end /\ end < m[j].from + Sizes[l]
           /\ Serves(m[j - 1], l, blocks[n])
           /\ \A i \in 1..(n - 1) : BlockEnd(l, blocks[i]) <= blocks[n].init
           /\ ~Alike(m[j - 1], m[j]) /\ (l = m[j].lvl \/ l = m[j - 1].lvl) =>
                 end = m[j].from
<1>1. /\ blocks \in Seq(Blocks) /\ l \in Levels
      /\ Tight(m, l, blocks, done) /\ Seamless(m, l, blocks, done)
      /\ Served(m, l, blocks, done)
  BY DEF Comes, LevelOk
<1>2. n \in Nat \ {0} /\ DOMAIN blocks = 1..n /\ n \in 1..n
  <2>1. Len(blocks) \in Nat /\ DOMAIN blocks = 1..Len(blocks) /\ Len(blocks) # 0
    BY <1>1
  <2>. QED
    BY <2>1
<1>3. \A h \in 1..n : /\ blocks[h] \in Blocks
                      /\ blocks[h].init \in Nat /\ BlockEnd(l, blocks[h]) \in Nat
                      /\ blocks[h].init < BlockEnd(l, blocks[h])
  BY <1>1, <1>2, LevelFields
<1>4. Sizes[l] \in Nat \ {0}
  BY <1>1, LevelFields
<1>5. done # {}
  BY <1>1, <1>2 DEF Tight
<1>6. /\ j - 1 \in done /\ j > 1 /\ m[j - 1].upto <= m[j].from
      /\ m[j].from <= Ceil(m[j - 1].upto, Sizes[l]) * Sizes[l]
      /\ \A k \in done : m[k].upto <= m[j - 1].upto
      /\ ~Alike(m[j - 1], m[j]) /\ (l = m[j].lvl \/ l = m[j - 1].lvl) =>
            m[j].from % Sizes[l] = 0
  BY <1>5, Before
<1>7. /\ \A k \in DOMAIN m : m[k].from \in Nat /\ m[k].upto \in Nat /\ m[k].from < m[k].upto
      /\ done \subseteq DOMAIN m /\ j \in DOMAIN m
  BY MapFields DEF Comes
<1>8. blocks[n].init < m[j - 1].upto /\ blocks[n].init < m[j].from
  <2>1. PICK k \in done : blocks[n].init < m[k].upto
    BY <1>1, <1>2 DEF Tight
  <2>. QED
    BY <2>1, <1>2, <1>3, <1>6, <1>7
<1>9. end < m[j].from + Sizes[l]
  <2>1. PICK k \in done : end < m[k].upto + Sizes[l]
    BY <1>1, <1>2 DEF Tight
  <2>2. m[k].upto <= m[j].from /\ m[k].upto \in Nat /\ m[j].from \in Nat /\ end \in Nat
    BY <1>2, <1>3, <1>6, <1>7, <2>1
  <2>. QED
    BY <2>1, <2>2, <1>4
<1>10. \A i \in 1..(n - 1) : BlockEnd(l, blocks[i]) <= blocks[n].init
  <2>1. \A i \in 1..(Len(blocks) - 1) : BlockEnd(l, blocks[i]) = blocks[i + 1].init
    BY <1>1 DEF Seamless
  <2>2. \A i \in 1..(n - 1) : i \in DOMAIN blocks /\ n \in DOMAIN blocks /\ i < n
    BY <1>2
  <2>. QED
    BY <1>1, <2>1, <2>2, Ordered
<1>11. m[j - 1].upto <= end /\ Serves(m[j - 1], l, blocks[n])
  <2>. DEFINE va == m[j - 1].upto - 1
  <2>1. /\ va \in m[j - 1].from..(m[j - 1].upto - 1) /\ va \in Nat
        /\ m[j - 1].upto \in Nat
    BY <1>6, <1>7
  <2>2. PICK i \in 1..n : InBlockOf(l, blocks, i, va) /\ Serves(m[j - 1], l, blocks[i])
    BY <1>1, <1>2, <1>6, <2>1 DEF Served
  <2>3. i = n
    <3>1. SUFFICES ASSUME i \in 1..(n - 1) PROVE FALSE
      BY <1>2, <2>2
    <3>2. BlockEnd(l, blocks[i]) <= blocks[n].init /\ va < BlockEnd(l, blocks[i])
      BY <1>10, <2>2, <3>1 DEF InBlockOf
    <3>3. BlockEnd(l, blocks[i]) \in Nat /\ blocks[n].init \in Nat
      BY <1>2, <1>3, <2>2
    <3>. QED
      BY <2>1, <3>2, <3>3, <1>8
  <2>4. va < end
    BY <2>2, <2>3 DEF InBlockOf
  <2>. QED
    BY <2>1, <2>2, <2>3, <2>4, <1>2, <1>3
<1>12. end \in Nat /\ end % Sizes[l] = 0
  <2>1. /\ blocks[n].init \in Nat /\ blocks[n].init % Sizes[l] = 0
        /\ blocks[n].size \in Nat
        /\ end = blocks[n].init + blocks[n].size * Sizes[l]
    BY <1>1, <1>2, <1>3, LevelFields DEF Seamless, BlockEnd
  <2>. DEFINE a == blocks[n].init
              k == blocks[n].size
              s == Sizes[l]
  <2>. HIDE DEF a, k, s
  <2>2. a \in Nat /\ a % s = 0 /\ k \in Nat /\ s \in Nat \ {0} /\ end = a + k * s
    BY <2>1, <1>4 DEF a, k, s
  <2>3. \A x, y \in Nat, z \in Nat \ {0} :
            x % z = 0 => x + y * z \in Nat /\ (x + y * z) % z = 0
    BY MoreMultiple
  <2>4. a + k * s \in Nat /\ (a + k * s) % s = 0
    BY <2>2, <2>3, Zenon
  <2>5. end \in Nat /\ end % s = 0
    BY <2>2, <2>4, Zenon
  <2>. QED
    BY <2>5 DEF s
<1>13. m[j].from <= end
  <2>1. m[j - 1].upto \in Nat \ {0} /\ m[j].from \in Nat
    BY <1>6, <1>7
  <2>. DEFINE c == Ceil(m[j - 1].upto, Sizes[l]) * Sizes[l]
  <2>2. c <= end
    BY <1>4, <1>11, <1>12, <2>1, CeilLeast
  <2>3. c \in Nat
    BY <1>4, <2>1, CeilCovers
  <2>4. m[j].from <= c
    BY <1>6
  <2>. HIDE DEF c
  <2>. QED
    BY <1>12, <2>1, <2>2, <2>3, <2>4
<1>14. ASSUME m[j].from % Sizes[l] = 0 PROVE end = m[j].from
  BY <1>4, <1>7, <1>9, <1>12, <1>13, <1>14, SameMultiple
<1>. QED
  BY <1>2, <1>5, <1>6, <1>8, <1>9, <1>10, <1>11, <1>12, <1>13, <1>14

\* An entry that a block holds whole: the block is the last one and serves it.
LEMMA FoundServes ==
    ASSUME NEW m, NEW j, NEW l, NEW blocks, NEW done, Comes(m, j, l, blocks, done),
           NEW i \in DOMAIN blocks, BlockEnd(l, blocks[i]) >= m[j].upto
    PROVE  i = Len(blocks) /\ Serves(m[j], l, blocks[i])
<1>. DEFINE n == Len(blocks)
            end == BlockEnd(l, blocks[n])
            b == blocks[n]
<1>1. blocks # <<>> /\ \A h \in DOMAIN blocks : blocks[h] \in Blocks
  <2>1. blocks \in Seq(Blocks)
    BY DEF Comes, LevelOk
  <2>. QED
    BY <2>1
<1>2. /\ n \in Nat \ {0} /\ DOMAIN blocks = 1..n /\ done # {}
      /\ b.init < m[j].from /\ end \in Nat
      /\ Serves(m[j - 1], l, b)
      /\ \A h \in 1..(n - 1) : BlockEnd(l, blocks[h]) <= b.init
      /\ ~Alike(m[j - 1], m[j]) /\ (l = m[j].lvl \/ l = m[j - 1].lvl) => end = m[j].from
  BY <1>1, Prior
<1>3. m[j].from \in Nat /\ m[j].upto \in Nat /\ m[j].from < m[j].upto /\ l \in Levels
  BY MapFields DEF Comes
<1>4. i = n
  <2>1. SUFFICES ASSUME i \in 1..(n - 1) PROVE FALSE
    BY <1>2
  <2>2. b.init \in Nat /\ BlockEnd(l, blocks[i]) \in Nat
    BY <1>1, <1>2, <1>3, LevelFields
  <2>3. BlockEnd(l, blocks[i]) <= b.init
    BY <1>2, <2>1
  <2>. QED
    BY <2>2, <2>3, <1>2, <1>3
<1>5. end # m[j].from
  BY <1>3, <1>4
<1>6. Alike(m[j - 1], m[j]) \/ (l # m[j].lvl /\ l # m[j - 1].lvl)
  BY <1>2, <1>5
<1>. HIDE DEF n, b
<1>7. Serves(m[j], l, b)
  BY <1>2, <1>6 DEF Serves, Alike
<1>. QED
  BY <1>4, <1>7 DEF b, n

\* Nothing needs to be done for such an entry.
LEMMA FoundKeeps ==
    ASSUME NEW m, NEW j, NEW l, NEW blocks, NEW done, Comes(m, j, l, blocks, done),
           NEW i \in DOMAIN blocks, BlockEnd(l, blocks[i]) >= m[j].upto
    PROVE  LevelOk(m, l, blocks, done \cup {j})
<1>1. i = Len(blocks) /\ Serves(m[j], l, blocks[i])
  BY FoundServes
<1>2. /\ blocks \in Seq(Blocks)
      /\ Tight(m, l, blocks, done) /\ Seamless(m, l, blocks, done)
      /\ Pointing(m, l, blocks, done) /\ Served(m, l, blocks, done)
      /\ Whole(m, l, blocks, done)
  BY DEF Comes, LevelOk
<1>3. blocks # <<>> /\ blocks[i] \in Blocks
  BY <1>2
<1>4. blocks[i].init < m[j].from
  BY <1>1, <1>3, Prior
<1>5. Served(m, l, blocks, done \cup {j})
  <2>1. ASSUME NEW va \in m[j].from..(m[j].upto - 1) PROVE InBlockOf(l, blocks, i, va)
    <3>1. m[j].from \in Nat /\ m[j].upto \in Nat /\ l \in Levels
      BY MapFields DEF Comes
    <3>2. blocks[i].init \in Nat /\ BlockEnd(l, blocks[i]) \in Nat
      BY <1>3, <3>1, LevelFields
    <3>3. va \in Int /\ m[j].from <= va /\ va < m[j].upto
      BY <3>1
    <3>. QED
      BY <1>4, <3>1, <3>2, <3>3 DEF InBlockOf
  <2>. QED
    BY <1>1, <1>2, <2>1 DEF Served
<1>6. Tight(m, l, blocks, done \cup {j}) /\ Seamless(m, l, blocks, done \cup {j})
  BY <1>2 DEF Tight, Seamless
<1>7. Pointing(m, l, blocks, done \cup {j}) /\ Whole(m, l, blocks, done \cup {j})
  BY <1>2 DEF Pointing, Whole
<1>. QED
  BY <1>2, <1>5, <1>6, <1>7 DEF LevelOk

\* A new block reaches no full page of its level behind its entry,
LEMMA NewBlockTight ==
    ASSUME NEW l \in Levels, NEW e \in Entries, NEW first \in Nat, first < e.upto,
           NEW b, b = NewBlock(e, l, first)
    PROVE  /\ b \in Blocks /\ b.init = first
           /\ (b.terminal <=> l = e.lvl) /\ b.attr = e.attr /\ b.cc = e.cc
           /\ BlockEnd(l, b) \in Nat /\ BlockEnd(l, b) >= e.upto
           /\ BlockEnd(l, b) < e.upto + Sizes[l]
<1>1. /\ b \in Blocks /\ b.init = first
      /\ BlockEnd(l, b) \in Nat /\ BlockEnd(l, b) >= e.upto
  BY NewBlockReaches, MapAssumption
<1>2. (b.terminal <=> l = e.lvl) /\ b.attr = e.attr /\ b.cc = e.cc
  BY DEF NewBlock
<1>3. BlockEnd(l, b) < e.upto + Sizes[l]
  <2>. DEFINE s == Sizes[l]
              c == Ceil(e.upto - first, s) * s
  <2>1. e.upto \in Nat /\ e.upto - first \in Nat \ {0}
    BY DEF Entries
  <2>2. s \in Nat \ {0}
    BY LevelFields
  <2>3. BlockEnd(l, b) = first + c
    BY DEF NewBlock, BlockEnd
  <2>4. c < (e.upto - first) + s /\ c \in Nat
    <3>. HIDE DEF s
    <3>. QED
      BY <2>1, <2>2, CeilTight, CeilCovers
  <2>. HIDE DEF s, c
  <2>5. first + c < e.upto + s
    BY <2>1, <2>2, <2>4
  <2>. QED
    BY <2>3, <2>5 DEF s
<1>. QED
  BY <1>1, <1>2, <1>3

\* and no more does a block that is extended.
LEMMA WiderBlockTight ==
    ASSUME NEW l \in Levels, NEW e \in Entries, NEW b \in Blocks,
           NEW wide, BlockEnd(l, b) < e.upto,
           wide = [b EXCEPT !.size = @ + Ceil(e.upto - BlockEnd(l, b), Sizes[l])]
    PROVE  /\ wide \in Blocks /\ wide.init = b.init
           /\ wide.terminal = b.terminal /\ wide.attr = b.attr /\ wide.cc = b.cc
           /\ BlockEnd(l, wide) \in Nat /\ BlockEnd(l, wide) >= e.upto
           /\ BlockEnd(l, wide) < e.upto + Sizes[l]
<1>. DEFINE s == Sizes[l]
            more == Ceil(e.upto - BlockEnd(l, b), s)
<1>1. /\ b.init \in Nat /\ b.size \in Nat /\ BlockEnd(l, b) \in Nat
      /\ s \in Nat \ {0} /\ b.size * s \in Nat
  BY LevelFields
<1>2. e.upto - BlockEnd(l, b) \in Nat \ {0} /\ e.upto \in Nat
  BY <1>1 DEF Entries
<1>3. /\ wide \in Blocks /\ wide.init = b.init
      /\ BlockEnd(l, wide) \in Nat /\ BlockEnd(l, wide) >= e.upto
  BY WiderBlockReaches, MapAssumption
<1>4. wide.terminal = b.terminal /\ wide.attr = b.attr /\ wide.cc = b.cc
      /\ wide.size = b.size + more
  <2>. HIDE DEF more
  <2>1. wide = [b EXCEPT !.size = b.size + more]
    BY DEF more
  <2>. QED
    BY <2>1 DEF Blocks
<1>5. more \in Nat /\ more * s \in Nat /\ more * s < (e.upto - BlockEnd(l, b)) + s
  <2>. HIDE DEF s
  <2>. QED
    BY <1>1, <1>2, CeilCovers, CeilTight
<1>6. BlockEnd(l, wide) = BlockEnd(l, b) + more * s
  <2>. DEFINE z == b.size
  <2>1. BlockEnd(l, wide) = b.init + (z + more) * s /\ BlockEnd(l, b) = b.init + z * s
    BY <1>3, <1>4 DEF BlockEnd
  <2>. HIDE DEF more, s, z
  <2>2. z \in Nat /\ more \in Nat /\ s \in Nat
    BY <1>1, <1>5 DEF z
  <2>3. (z + more) * s = z * s + more * s /\ z * s \in Nat /\ more * s \in Nat
    BY <2>2
  <2>. QED
    BY <2>1, <2>3, <1>1
<1>. HIDE DEF more, s
<1>7. BlockEnd(l, wide) < e.upto + s
  BY <1>1, <1>2, <1>5, <1>6
<1>. QED
  BY <1>3, <1>4, <1>7 DEF s

\* Where a region that is coloured and its descriptors are one page each.
LEMMA ColourFields ==
    ASSUME NEW m \in Seq(Entries), Ascending(m), ColoursFit(m), NEW k \in DOMAIN m,
           m[k].cc
    PROVE  /\ StridesFit /\ Sizes[m[k].lvl] = 1
           /\ m[k].from % Period = 0 /\ m[k].upto % Period = 0
           /\ k > 1 => ~Alike(m[k - 1], m[k])
  BY DEF ColoursFit

\* The first block of a level.
LEMMA FirstKeeps ==
    ASSUME NEW m, NEW j, NEW l, NEW done, Comes(m, j, l, <<>>, done),
           NEW b, b = NewBlock(m[j], l, m[j].from)
    PROVE  LevelOk(m, l, <<b>>, done \cup {j})
<1>1. /\ m \in Seq(Entries) /\ Ascending(m) /\ ColoursFit(m)
      /\ j \in DOMAIN m /\ l \in Levels
      /\ done \subseteq DOMAIN m
      /\ l <= m[j].lvl /\ Served(m, l, <<>>, done) /\ l \in Nat
  BY LevelFields DEF Comes, LevelOk
<1>2. /\ m[j] \in Entries /\ m[j].from \in Nat /\ m[j].upto \in Nat
      /\ m[j].from < m[j].upto /\ m[j].lvl \in Nat
  BY <1>1, MapFields
<1>3. done = {}
  <2>1. SUFFICES ASSUME NEW k \in done PROVE FALSE
    OBVIOUS
  <2>2. m[k].from \in m[k].from..(m[k].upto - 1)
    <3>1. m[k].from \in Nat /\ m[k].upto \in Nat /\ m[k].from < m[k].upto
      BY <1>1, MapFields
    <3>. QED
      BY <3>1
  <2>. QED
    BY <1>1, <2>2 DEF Served
<1>4. FirstAt(m, l, j) /\ m[j].from % Sizes[l] = 0
  BY <1>3, Before
<1>5. /\ b \in Blocks /\ b.init = m[j].from
      /\ (b.terminal <=> l = m[j].lvl) /\ b.attr = m[j].attr /\ b.cc = m[j].cc
      /\ BlockEnd(l, b) \in Nat /\ BlockEnd(l, b) >= m[j].upto
      /\ BlockEnd(l, b) < m[j].upto + Sizes[l]
  BY <1>1, <1>2, NewBlockTight
<1>. DEFINE bs == <<b>>
            D == done \cup {j}
<1>6. bs \in Seq(Blocks) /\ DOMAIN bs = {1} /\ Len(bs) = 1 /\ bs[1] = b /\ bs # <<>>
  BY <1>5
<1>7. D = {j}
  BY <1>3
<1>. HIDE DEF bs, D
<1>8. Tight(m, l, bs, D)
  BY <1>2, <1>5, <1>6, <1>7 DEF Tight
<1>9. Seamless(m, l, bs, D)
  BY <1>4, <1>5, <1>6, <1>7 DEF Seamless
<1>10. Pointing(m, l, bs, D)
  <2>1. SUFFICES ASSUME ~b.terminal PROVE m[j].lvl > l /\ FirstAt(m, l + 1, j)
    BY <1>5, <1>6, <1>7 DEF Pointing
  <2>2. l + 1 <= m[j].lvl /\ m[j].lvl > l
    BY <1>1, <1>2, <1>5, <2>1
  <2>3. \A i \in 1..(j - 1) : m[i].lvl < l + 1
    <3>1. \A i \in 1..(j - 1) : i \in DOMAIN m
      BY <1>1
    <3>2. \A i \in 1..(j - 1) : m[i].lvl \in Nat
      BY <1>1, <3>1, MapFields
    <3>. QED
      BY <1>1, <1>4, <3>2 DEF FirstAt
  <2>. QED
    BY <2>2, <2>3 DEF FirstAt
<1>11. Served(m, l, bs, D)
  <2>1. ASSUME NEW va \in m[j].from..(m[j].upto - 1)
        PROVE  InBlockOf(l, bs, 1, va)
    <3>1. va \in Int /\ m[j].from <= va /\ va < m[j].upto
      BY <1>2
    <3>. QED
      BY <1>2, <1>5, <1>6, <3>1 DEF InBlockOf
  <2>2. Serves(m[j], l, b)
    BY <1>5 DEF Serves
  <2>. QED
    BY <1>6, <1>7, <2>1, <2>2 DEF Served
<1>12. Whole(m, l, bs, D)
  <2>1. SUFFICES ASSUME b.terminal, b.cc PROVE BlockEnd(l, b) = m[j].upto
    BY <1>5, <1>6, <1>7 DEF Whole
  <2>2. Sizes[l] = 1
    BY <1>1, <1>5, <2>1, ColourFields
  <2>. QED
    BY <2>2, <1>2, <1>5
<1>13. LevelOk(m, l, bs, D)
  BY <1>6, <1>8, <1>9, <1>10, <1>11, <1>12 DEF LevelOk
<1>. QED
  BY <1>13 DEF bs, D

\* The last block of a level is extended for the entry.
LEMMA JoinKeeps ==
    ASSUME NEW m, NEW j, NEW l, NEW old, NEW done, Comes(m, j, l, old, done),
           old # <<>>, NEW n, n = Len(old),
           Joins(old[n], m[j], l), BlockEnd(l, old[n]) < m[j].upto,
           NEW wide,
           wide = [old[n] EXCEPT
                     !.size = @ + Ceil(m[j].upto - BlockEnd(l, old[n]), Sizes[l])],
           NEW blocks, blocks = [old EXCEPT ![n] = wide]
    PROVE  LevelOk(m, l, blocks, done \cup {j})
<1>. DEFINE e == m[j]
            D == done \cup {j}
            end == BlockEnd(l, old[n])
<1>1. /\ m \in Seq(Entries) /\ Ascending(m) /\ ColoursFit(m)
      /\ j \in DOMAIN m /\ l \in Levels
      /\ done \subseteq DOMAIN m
      /\ old \in Seq(Blocks)
      /\ Tight(m, l, old, done) /\ Seamless(m, l, old, done)
      /\ Pointing(m, l, old, done) /\ Served(m, l, old, done)
      /\ Whole(m, l, old, done)
  BY DEF Comes, LevelOk
<1>2. /\ e \in Entries /\ e.from \in Nat /\ e.upto \in Nat
      /\ e.from < e.upto /\ e.lvl \in Nat
  BY <1>1, MapFields
<1>3. /\ n \in Nat \ {0} /\ DOMAIN old = 1..n /\ n \in 1..n /\ done # {}
      /\ old[n].init < e.from /\ end \in Nat
      /\ e.from <= end
      /\ Serves(m[j - 1], l, old[n])
  BY Prior
<1>4. j - 1 \in done /\ j > 1
  BY <1>3, Before
<1>5. \A h \in 1..n : /\ old[h] \in Blocks /\ old[h].init \in Nat
                      /\ BlockEnd(l, old[h]) \in Nat
  <2>1. \A h \in 1..n : old[h] \in Blocks
    BY <1>1, <1>3
  <2>. QED
    BY <1>1, <2>1, LevelFields
<1>6. /\ wide \in Blocks /\ wide.init = old[n].init
      /\ wide.terminal = old[n].terminal /\ wide.attr = old[n].attr /\ wide.cc = old[n].cc
      /\ BlockEnd(l, wide) \in Nat /\ BlockEnd(l, wide) >= e.upto
      /\ BlockEnd(l, wide) < e.upto + Sizes[l]
  <2>1. old[n] \in Blocks
    BY <1>3, <1>5
  <2>. QED
    BY <1>1, <1>2, <2>1, WiderBlockTight
<1>7. \/ wide.terminal /\ l = e.lvl /\ wide.attr = e.attr /\ wide.cc = e.cc
      \/ ~wide.terminal /\ l # e.lvl
  <2>1. \/ old[n].terminal /\ l = e.lvl /\ old[n].attr = e.attr /\ old[n].cc = e.cc
        \/ ~old[n].terminal /\ l # e.lvl
    BY DEF Joins
  <2>. QED
    BY <2>1, <1>6, Zenon
<1>8. /\ blocks \in Seq(Blocks) /\ Len(blocks) = n /\ DOMAIN blocks = 1..n
      /\ blocks # <<>> /\ blocks[n] = wide
      /\ \A i \in 1..n : i # n => blocks[i] = old[i]
  <2>1. /\ blocks \in Seq(Blocks) /\ Len(blocks) = n /\ DOMAIN blocks = 1..n
        /\ blocks[n] = wide
        /\ \A i \in 1..n : i # n => blocks[i] = old[i]
    <3>1. wide \in Blocks
      BY <1>6
    <3>2. \A o \in Seq(Blocks), w \in Blocks : \A h \in DOMAIN o :
             LET new == [o EXCEPT ![h] = w]
             IN  /\ new \in Seq(Blocks) /\ Len(new) = Len(o) /\ DOMAIN new = DOMAIN o
                 /\ new[h] = w /\ \A i \in DOMAIN o : i # h => new[i] = o[i]
      OBVIOUS
    <3>. QED
      BY <3>1, <3>2, <1>1, <1>3, ZenonT(30)
  <2>. QED
    BY <2>1, <1>3
<1>9. \A i \in 1..n : /\ blocks[i].init = old[i].init
                      /\ blocks[i].terminal = old[i].terminal
                      /\ blocks[i].attr = old[i].attr /\ blocks[i].cc = old[i].cc
                      /\ BlockEnd(l, old[i]) <= BlockEnd(l, blocks[i])
  <2>. SUFFICES ASSUME NEW i \in 1..n
                PROVE  /\ blocks[i].init = old[i].init
                       /\ blocks[i].terminal = old[i].terminal
                       /\ blocks[i].attr = old[i].attr /\ blocks[i].cc = old[i].cc
                       /\ BlockEnd(l, old[i]) <= BlockEnd(l, blocks[i])
    OBVIOUS
  <2>1. CASE i = n
    <3>1. blocks[i] = wide /\ end <= BlockEnd(l, wide)
      BY <1>2, <1>3, <1>6, <1>8, <2>1
    <3>. QED
      BY <3>1, <1>6, <2>1
  <2>2. CASE i # n
    <3>1. blocks[i] = old[i]
      BY <1>8, <2>2
    <3>. QED
      BY <3>1, <1>5
  <2>. QED
    BY <2>1, <2>2
<1>. HIDE DEF e
<1>10. Tight(m, l, blocks, D)
  <2>1. \A i \in 1..n : \E k \in done : blocks[i].init < m[k].upto
    BY <1>1, <1>3, <1>9 DEF Tight
  <2>2. j \in D /\ done \subseteq D /\ BlockEnd(l, blocks[Len(blocks)]) < m[j].upto + Sizes[l]
    BY <1>6, <1>8 DEF e
  <2>. HIDE DEF D
  <2>. QED
    BY <1>8, <2>1, <2>2 DEF Tight
<1>11. Seamless(m, l, blocks, D)
  <2>1. \E k \in D : FirstAt(m, l, k) /\ blocks[1].init = m[k].from
    <3>1. PICK k \in done : FirstAt(m, l, k) /\ old[1].init = m[k].from
      BY <1>1 DEF Seamless
    <3>2. 1 \in 1..n
      BY <1>3
    <3>3. k \in D /\ FirstAt(m, l, k) /\ blocks[1].init = m[k].from
      BY <3>1, <3>2, <1>9
    <3>. QED
      BY <3>3
  <2>2. \A i \in 1..n : blocks[i].init % Sizes[l] = 0
    <3>1. \A i \in 1..n : old[i].init % Sizes[l] = 0
      BY <1>1, <1>3 DEF Seamless
    <3>. QED
      BY <3>1, <1>9
  <2>3. \A i \in 1..(n - 1) : BlockEnd(l, blocks[i]) = blocks[i + 1].init
    <3>1. \A i \in 1..(n - 1) : BlockEnd(l, old[i]) = old[i + 1].init
      BY <1>1 DEF Seamless
    <3>2. \A i \in 1..(n - 1) : i \in 1..n /\ i # n /\ i + 1 \in 1..n
      BY <1>3
    <3>. QED
      BY <3>1, <3>2, <1>8, <1>9
  <2>. QED
    BY <1>8, <2>1, <2>2, <2>3 DEF Seamless
<1>12. Pointing(m, l, blocks, D)
  <2>1. SUFFICES ASSUME NEW i \in 1..n, ~blocks[i].terminal
                 PROVE  \E k \in D : /\ m[k].lvl > l /\ blocks[i].init = m[k].from
                                     /\ Sound(m, l + 1, k) => FirstAt(m, l + 1, k)
    BY <1>8 DEF Pointing
  <2>2. ~old[i].terminal /\ blocks[i].init = old[i].init /\ i \in DOMAIN old
    BY <1>3, <1>9, <2>1
  <2>3. \E k \in done : /\ m[k].lvl > l /\ old[i].init = m[k].from
                        /\ Sound(m, l + 1, k) => FirstAt(m, l + 1, k)
    BY <1>1, <2>2 DEF Pointing
  <2>. QED
    BY <2>2, <2>3
<1>13. Served(m, l, blocks, D)
  <2>1. ASSUME NEW k \in done, NEW va \in m[k].from..(m[k].upto - 1)
        PROVE  \E i \in 1..n : InBlockOf(l, blocks, i, va) /\ Serves(m[k], l, blocks[i])
    <3>1. PICK i \in 1..n : InBlockOf(l, old, i, va) /\ Serves(m[k], l, old[i])
      BY <1>1, <1>3 DEF Served
    <3>2. va \in Int
      <4>1. m[k].from \in Nat /\ m[k].upto \in Nat
        BY <1>1, MapFields
      <4>. QED
        BY <4>1
    <3>3. BlockEnd(l, blocks[i]) \in Nat /\ BlockEnd(l, old[i]) \in Nat
      <4>1. blocks[i] \in Blocks
        BY <1>8
      <4>. QED
        BY <1>1, <1>5, <4>1, LevelFields
    <3>4. InBlockOf(l, blocks, i, va)
      BY <3>1, <3>2, <3>3, <1>9 DEF InBlockOf
    <3>5. Serves(m[k], l, blocks[i])
      BY <3>1, <1>9 DEF Serves
    <3>. QED
      BY <3>4, <3>5
  <2>2. ASSUME NEW va \in e.from..(e.upto - 1)
        PROVE  InBlockOf(l, blocks, n, va)
    <3>1. va \in Int /\ e.from <= va /\ va < e.upto
      BY <1>2
    <3>2. blocks[n].init \in Nat /\ blocks[n].init < e.from
      BY <1>3, <1>5, <1>6, <1>8
    <3>3. BlockEnd(l, blocks[n]) \in Nat /\ BlockEnd(l, blocks[n]) >= e.upto
      BY <1>6, <1>8
    <3>. QED
      BY <1>2, <3>1, <3>2, <3>3 DEF InBlockOf
  <2>3. Serves(e, l, blocks[n])
    BY <1>7, <1>8 DEF Serves
  <2>. QED
    BY <1>3, <1>8, <2>1, <2>2, <2>3 DEF Served, e
<1>14. Whole(m, l, blocks, D)
  <2>1. SUFFICES ASSUME NEW i \in 1..n, blocks[i].terminal /\ blocks[i].cc
                 PROVE  \E k \in D : /\ m[k].lvl = l /\ m[k].cc /\ blocks[i].attr = m[k].attr
                                     /\ blocks[i].init = m[k].from
                                     /\ BlockEnd(l, blocks[i]) = m[k].upto
    BY <1>8 DEF Whole
  <2>2. i # n
    <3>1. SUFFICES ASSUME i = n PROVE FALSE
      OBVIOUS
    <3>2. wide.terminal /\ wide.cc /\ l = e.lvl /\ wide.attr = e.attr /\ wide.cc = e.cc
      BY <1>7, <1>8, <2>1, <3>1
    <3>3. old[n].terminal /\ old[n].attr = wide.attr /\ old[n].cc = wide.cc
      BY <1>6, <3>2
    <3>4. Alike(m[j - 1], e)
      BY <1>3, <3>2, <3>3 DEF Serves, Alike
    <3>5. ~Alike(m[j - 1], e)
      BY <1>1, <1>4, <3>2, ColourFields DEF e
    <3>. QED
      BY <3>4, <3>5
  <2>3. blocks[i] = old[i] /\ i \in DOMAIN old
    BY <1>3, <1>8, <2>2
  <2>4. \E k \in done : /\ m[k].lvl = l /\ m[k].cc /\ old[i].attr = m[k].attr
                        /\ old[i].init = m[k].from
                        /\ BlockEnd(l, old[i]) = m[k].upto
    BY <1>1, <2>1, <2>3 DEF Whole
  <2>. QED
    BY <2>3, <2>4
<1>. QED
  BY <1>8, <1>10, <1>11, <1>12, <1>13, <1>14 DEF LevelOk

\* A block is appended for the entry.
LEMMA AppendKeeps ==
    ASSUME NEW m, NEW j, NEW l, NEW old, NEW done, Comes(m, j, l, old, done),
           old # <<>>, NEW n, n = Len(old),
           ~Joins(old[n], m[j], l), BlockEnd(l, old[n]) < m[j].upto,
           NEW b, b = NewBlock(m[j], l, NewInit(m[j], BlockEnd(l, old[n]))),
           NEW blocks, blocks = Append(old, b)
    PROVE  LevelOk(m, l, blocks, done \cup {j})
<1>. DEFINE e == m[j]
            D == done \cup {j}
            end == BlockEnd(l, old[n])
<1>1. /\ m \in Seq(Entries) /\ Ascending(m) /\ ColoursFit(m)
      /\ j \in DOMAIN m /\ l \in Levels
      /\ done \subseteq DOMAIN m /\ l <= m[j].lvl /\ l \in Nat
      /\ old \in Seq(Blocks)
      /\ Tight(m, l, old, done) /\ Seamless(m, l, old, done)
      /\ Pointing(m, l, old, done) /\ Served(m, l, old, done)
      /\ Whole(m, l, old, done)
  BY LevelFields DEF Comes, LevelOk
<1>2. /\ e \in Entries /\ e.from \in Nat /\ e.upto \in Nat
      /\ e.from < e.upto /\ e.lvl \in Nat
  BY <1>1, MapFields
<1>3. /\ n \in Nat \ {0} /\ DOMAIN old = 1..n /\ n \in 1..n /\ done # {}
      /\ end \in Nat /\ end % Sizes[l] = 0
      /\ e.from <= end
      /\ Serves(m[j - 1], l, old[n])
      /\ ~Alike(m[j - 1], m[j]) /\ (l = m[j].lvl \/ l = m[j - 1].lvl) => end = m[j].from
  BY Prior
<1>4. j - 1 \in DOMAIN m /\ j > 1
  BY <1>1, <1>3, Before
<1>5. /\ ~(old[n].terminal /\ l = e.lvl /\ old[n].attr = e.attr /\ old[n].cc = e.cc)
      /\ ~(~old[n].terminal /\ l # e.lvl)
  BY <1>3 DEF Joins
<1>6. end = e.from
  <2>1. /\ old[n].terminal <=> l = m[j - 1].lvl
        /\ old[n].terminal => old[n].attr = m[j - 1].attr /\ old[n].cc = m[j - 1].cc
    BY <1>3 DEF Serves
  <2>2. ~Alike(m[j - 1], m[j]) /\ (l = m[j].lvl \/ l = m[j - 1].lvl)
    BY <1>5, <2>1, Zenon DEF Alike
  <2>. QED
    BY <1>3, <2>2
<1>7. NewInit(e, end) = e.from
  BY <1>6 DEF NewInit
<1>8. /\ b \in Blocks /\ b.init = e.from
      /\ (b.terminal <=> l = e.lvl) /\ b.attr = e.attr /\ b.cc = e.cc
      /\ BlockEnd(l, b) \in Nat /\ BlockEnd(l, b) >= e.upto
      /\ BlockEnd(l, b) < e.upto + Sizes[l]
  <2>1. b = NewBlock(e, l, e.from)
    BY <1>7
  <2>. HIDE DEF e
  <2>. QED
    BY <1>1, <1>2, <2>1, NewBlockTight
<1>9. /\ blocks \in Seq(Blocks) /\ Len(blocks) = n + 1 /\ DOMAIN blocks = 1..(n + 1)
      /\ blocks # <<>> /\ blocks[n + 1] = b
      /\ \A i \in 1..n : blocks[i] = old[i]
  BY <1>1, <1>3, <1>8
<1>10. \A i \in 1..(n + 1) : i = n + 1 \/ i \in 1..n
  BY <1>3
<1>. HIDE DEF e
<1>11. Tight(m, l, blocks, D)
  <2>1. \A i \in 1..n : \E k \in D : blocks[i].init < m[k].upto
    BY <1>1, <1>3, <1>9 DEF Tight
  <2>2. /\ j \in D /\ BlockEnd(l, b) < m[j].upto + Sizes[l]
        /\ b.init < m[j].upto
    BY <1>2, <1>8 DEF e
  <2>. HIDE DEF D
  <2>. QED
    BY <1>9, <1>10, <2>1, <2>2 DEF Tight
<1>12. Seamless(m, l, blocks, D)
  <2>1. \E k \in D : FirstAt(m, l, k) /\ blocks[1].init = m[k].from
    <3>1. PICK k \in done : FirstAt(m, l, k) /\ old[1].init = m[k].from
      BY <1>1 DEF Seamless
    <3>2. 1 \in 1..n
      BY <1>3
    <3>3. k \in D /\ FirstAt(m, l, k) /\ blocks[1].init = m[k].from
      BY <3>1, <3>2, <1>9
    <3>. QED
      BY <3>3
  <2>2. \A i \in 1..(n + 1) : blocks[i].init % Sizes[l] = 0
    <3>1. \A i \in 1..n : blocks[i].init % Sizes[l] = 0
      BY <1>1, <1>3, <1>9 DEF Seamless
    <3>2. blocks[n + 1].init % Sizes[l] = 0
      BY <1>3, <1>6, <1>8, <1>9
    <3>. QED
      BY <3>1, <3>2, <1>10
  <2>3. \A i \in 1..n : BlockEnd(l, blocks[i]) = blocks[i + 1].init
    <3>1. \A i \in 1..(n - 1) : BlockEnd(l, old[i]) = old[i + 1].init
      BY <1>1 DEF Seamless
    <3>2. \A i \in 1..n : i = n \/ (i \in 1..(n - 1) /\ i + 1 \in 1..n)
      BY <1>3
    <3>3. BlockEnd(l, blocks[n]) = blocks[n + 1].init
      BY <1>3, <1>6, <1>8, <1>9
    <3>. QED
      BY <3>1, <3>2, <3>3, <1>9
  <2>4. Len(blocks) - 1 = n
    BY <1>3, <1>9
  <2>. QED
    BY <1>9, <2>1, <2>2, <2>3, <2>4 DEF Seamless
<1>13. Pointing(m, l, blocks, D)
  <2>1. ASSUME NEW i \in 1..n, ~blocks[i].terminal
        PROVE  \E k \in D : /\ m[k].lvl > l /\ blocks[i].init = m[k].from
                            /\ Sound(m, l + 1, k) => FirstAt(m, l + 1, k)
    <3>1. \E k \in done : /\ m[k].lvl > l /\ old[i].init = m[k].from
                          /\ Sound(m, l + 1, k) => FirstAt(m, l + 1, k)
      BY <1>1, <1>3, <1>9, <2>1 DEF Pointing
    <3>. QED
      BY <3>1, <1>9
  <2>2. ASSUME ~b.terminal
        PROVE  m[j].lvl > l /\ (Sound(m, l + 1, j) => FirstAt(m, l + 1, j))
    <3>1. l # e.lvl /\ l + 1 <= m[j].lvl /\ m[j].lvl > l
      BY <1>1, <1>2, <1>8, <2>2 DEF e
    <3>2. m[j - 1].lvl = l
      BY <1>3, <1>5, <3>1 DEF Serves
    <3>3. ~GoesOn(m, l + 1, j)
      BY <1>1, <3>2 DEF GoesOn
    <3>4. Sound(m, l + 1, j) => Begins(m, l + 1, j)
      <4>1. j \in 1..j /\ m[j].lvl >= l + 1
        BY <1>1, <1>2, <3>1 DEF e
      <4>. QED
        BY <3>3, <4>1 DEF Sound
    <3>. QED
      BY <1>1, <1>2, <3>1, <3>4 DEF Begins, FirstAt, e
  <2>. QED
    BY <1>8, <1>9, <1>10, <2>1, <2>2 DEF Pointing, e
<1>14. Served(m, l, blocks, D)
  <2>1. ASSUME NEW k \in done, NEW va \in m[k].from..(m[k].upto - 1)
        PROVE  \E i \in 1..(n + 1) :
                  InBlockOf(l, blocks, i, va) /\ Serves(m[k], l, blocks[i])
    <3>1. PICK i \in 1..n : InBlockOf(l, old, i, va) /\ Serves(m[k], l, old[i])
      BY <1>1, <1>3 DEF Served
    <3>2. i \in 1..(n + 1) /\ InBlockOf(l, blocks, i, va) /\ Serves(m[k], l, blocks[i])
      BY <3>1, <1>3, <1>9 DEF InBlockOf
    <3>. QED
      BY <3>2
  <2>2. ASSUME NEW va \in e.from..(e.upto - 1)
        PROVE  InBlockOf(l, blocks, n + 1, va)
    <3>1. va \in Int /\ e.from <= va /\ va < e.upto
      BY <1>2
    <3>. QED
      BY <1>2, <1>8, <1>9, <3>1 DEF InBlockOf
  <2>3. Serves(e, l, b)
    BY <1>8 DEF Serves
  <2>4. n + 1 \in 1..(n + 1)
    BY <1>3
  <2>. QED
    BY <1>9, <2>1, <2>2, <2>3, <2>4 DEF Served, e
<1>15. Whole(m, l, blocks, D)
  <2>1. ASSUME NEW i \in 1..n, blocks[i].terminal /\ blocks[i].cc
        PROVE  \E k \in D : /\ m[k].lvl = l /\ m[k].cc /\ blocks[i].attr = m[k].attr
                            /\ blocks[i].init = m[k].from
                            /\ BlockEnd(l, blocks[i]) = m[k].upto
    <3>1. \E k \in done : /\ m[k].lvl = l /\ m[k].cc /\ old[i].attr = m[k].attr
                          /\ old[i].init = m[k].from
                          /\ BlockEnd(l, old[i]) = m[k].upto
      BY <1>1, <1>3, <1>9, <2>1 DEF Whole
    <3>. QED
      BY <3>1, <1>9
  <2>2. ASSUME b.terminal, b.cc
        PROVE  e.lvl = l /\ e.cc /\ b.init = e.from /\ BlockEnd(l, b) = e.upto
    <3>1. e.lvl = l /\ e.cc
      BY <1>8, <2>2
    <3>2. Sizes[l] = 1
      BY <1>1, <3>1, ColourFields DEF e
    <3>. QED
      BY <3>1, <3>2, <1>2, <1>8
  <2>. QED
    BY <1>8, <1>9, <1>10, <2>1, <2>2 DEF Whole, e
<1>. QED
  BY <1>9, <1>11, <1>12, <1>13, <1>14, <1>15 DEF LevelOk

------------------------------------------------------------------------------
(* The cores of the tables.                                                  *)

\* The three forms that addMMUBlock leaves a list in.
LEMMA WithBlockForm ==
    ASSUME MapAssumption, MapInv, Mapping, Covering(map[entry], level) = {},
           NEW e, e = map[entry], NEW l, l = level, NEW old, old = mmu[l],
           NEW n, n = Len(old), NEW blocks, blocks = WithBlock(e, l)
    PROVE  /\ old \in Seq(Blocks)
           /\ old # <<>> => BlockEnd(l, old[n]) < e.upto
           /\ \/ old = <<>> /\ blocks = <<NewBlock(e, l, e.from)>>
              \/ /\ old # <<>> /\ Joins(old[n], e, l)
                 /\ blocks = [old EXCEPT ![n] =
                       [old[n] EXCEPT
                          !.size = @ + Ceil(e.upto - BlockEnd(l, old[n]), Sizes[l])]]
              \/ /\ old # <<>> /\ ~Joins(old[n], e, l)
                 /\ blocks = Append(old, NewBlock(e, l, NewInit(e, BlockEnd(l, old[n]))))
<1>1. /\ l \in Levels
      /\ e \in Entries /\ e.from \in Nat /\ e.upto \in Nat /\ e.from < e.upto
      /\ old \in Seq(Blocks)
      /\ \A i \in DOMAIN old : old[i] \in Blocks /\ old[i].init <= e.from
  BY AtLevel
<1>2. n \in Nat /\ DOMAIN old = 1..n /\ (old = <<>> <=> n = 0)
  <2>1. Len(old) \in Nat /\ DOMAIN old = 1..Len(old) /\ (old = <<>> <=> Len(old) = 0)
    BY <1>1
  <2>. QED
    BY <2>1
<1>3. ASSUME NEW i \in 1..n
      PROVE  /\ old[i].init < e.upto
             /\ BlockEnd(l, old[i]) \in Nat /\ BlockEnd(l, old[i]) < e.upto
  <2>1. old[i] \in Blocks /\ old[i].init <= e.from
    BY <1>1, <1>2
  <2>2. old[i].init \in Nat /\ BlockEnd(l, old[i]) \in Nat
    BY <1>1, <2>1, LevelFields
  <2>3. ~(BlockEnd(l, old[i]) >= e.upto)
    <3>1. \A k \in 1..i : old[k].init <= e.from
      BY <1>1, <1>2
    <3>2. i \in DOMAIN mmu[l] /\ Covering(e, l) = {}
      BY <1>2
    <3>3. ASSUME BlockEnd(l, mmu[l][i]) >= e.upto PROVE i \in Covering(e, l)
      BY <3>1, <3>2, <3>3, Zenon DEF Covering
    <3>. QED
      BY <3>2, <3>3
  <2>. QED
    BY <1>1, <2>1, <2>2, <2>3
<1>4. Previous(e, l) = n
  <2>1. ASSUME NEW i \in DOMAIN old, NEW k \in 1..i PROVE old[k].init < e.upto
    BY <1>2, <1>3
  <2>2. {i \in DOMAIN old : \A k \in 1..i : old[k].init < e.upto} = 1..n
    BY <1>2, <2>1
  <2>3. Cardinality(1..n) = n
    <3>1. 1 \in Int /\ n \in Int
      BY <1>2
    <3>2. Cardinality(1..n) = IF 1 > n THEN 0 ELSE n - 1 + 1
      BY <3>1, FS_Interval
    <3>. QED
      BY <1>2, <3>2
  <2>. QED
    BY <2>2, <2>3 DEF Previous
<1>5. n # 0 => BlockEnd(l, old[n]) < e.upto
  BY <1>2, <1>3
<1>6. CASE n = 0
  BY <1>1, <1>2, <1>4, <1>6 DEF WithBlock
<1>7. CASE n # 0 /\ Joins(old[n], e, l)
  BY <1>1, <1>2, <1>4, <1>5, <1>7 DEF WithBlock
<1>8. CASE n # 0 /\ ~Joins(old[n], e, l)
  <2>. DEFINE new == NewBlock(e, l, NewInit(e, BlockEnd(l, old[n])))
  <2>1. blocks = InsertAt(old, n + 1, new)
    BY <1>4, <1>8 DEF WithBlock
  <2>. HIDE DEF new
  <2>2. InsertAt(old, n + 1, new) = SubSeq(old, 1, n) \o <<new>> \o SubSeq(old, n + 1, n)
    <3>1. (n + 1) - 1 = n
      BY <1>2
    <3>. QED
      BY <3>1 DEF InsertAt
  <2>3. SubSeq(old, 1, n) = old /\ SubSeq(old, n + 1, n) = <<>>
    BY <1>1, <1>2
  <2>4. \A o \in Seq(Blocks) : \A b : (o \o <<b>>) \o <<>> = Append(o, b)
    OBVIOUS
  <2>5. blocks = Append(old, new)
    BY <1>1, <2>1, <2>2, <2>3, <2>4
  <2>. QED
    BY <1>1, <1>2, <1>5, <1>8, <2>5 DEF new
<1>. QED
  BY <1>2, <1>6, <1>7, <1>8

LEMMA SoundBelow ==
    ASSUME NEW m, NEW l, NEW k \in Nat, Sound(m, l, k), NEW i \in Nat, i <= k
    PROVE  Sound(m, l, i)
<1>1. 1..i \subseteq 1..k
  OBVIOUS
<1>. QED
  BY <1>1 DEF Sound

\* Up to a sound entry, the list is its own core.
LEMMA ComesNow ==
    ASSUME MapInv, Mapping, ColoursFit(map), TablesFit, Sound(map, level, entry)
    PROVE  Comes(map, entry, level, mmu[level], Done(level)) /\ Good(level) = Done(level)
<1>1. entry \in DOMAIN map /\ level \in Levels /\ level <= map[entry].lvl /\ level \in Nat
  BY AtLevel, MapAssumption
<1>2. map \in Seq(Entries) /\ map # <<>> /\ Ascending(map)
  BY DEF MapInv, TypeOK
<1>3. Done(level) = {k \in DOMAIN map : k < entry /\ map[k].lvl >= level}
  <2>1. \A k \in DOMAIN map : map[k].lvl \in Nat
    BY <1>2, MapFields
  <2>2. \A k \in DOMAIN map : Handled(k, level) <=> k < entry /\ map[k].lvl >= level
    BY <1>1, <2>1 DEF Handled
  <2>. QED
    BY <2>2 DEF Done
<1>4. Good(level) = Done(level)
  <2>1. ASSUME NEW k \in Done(level) PROVE Sound(map, level, k)
    <3>1. k \in Nat /\ entry \in Nat /\ k <= entry
      BY <1>1, <1>2, <1>3
    <3>. QED
      BY <3>1, SoundBelow
  <2>. QED
    BY <2>1 DEF Good
<1>5. LevelOk(map, level, mmu[level], Done(level))
  <2>1. PICK core : CoreOf(level, core)
    BY <1>1 DEF TablesFit
  <2>. QED
    BY <1>4, <2>1 DEF CoreOf
<1>. QED
  BY <1>1, <1>2, <1>3, <1>4, <1>5 DEF Comes

\* What a step leaves: the lists of the other levels, and at its own one entry more if
\* the level is sound up to it, else the core.
LEMMA StepKeeps ==
    ASSUME MapInv, Mapping, Descend, UNCHANGED map, ColoursFit(map), TablesFit,
           NEW blocks, mmu' = [mmu EXCEPT ![level] = blocks],
           Sound(map, level, entry) =>
              LevelOk(map, level, blocks, Done(level) \cup {entry}),
           ~Sound(map, level, entry) =>
              \A core : CoreOf(level, core) => Extends(blocks, core)
    PROVE  TablesFit'
<1>1. entry \in DOMAIN map /\ level \in Levels
  BY AtLevel, MapAssumption
<1>2. \A i \in DOMAIN map, l \in Levels :
          Handled(i, l)' <=> Handled(i, l) \/ (i = entry /\ l = level)
  BY DescendHandles, MapAssumption
<1>3. \A l \in Levels :
          /\ l = level => Done(l)' = Done(l) \cup {entry}
          /\ l # level => Done(l)' = Done(l)
  BY <1>1, <1>2 DEF Done
<1>4. \A l \in Levels : Good(l)' = {k \in Done(l)' : Sound(map, l, k)}
  BY DEF Good, Sound, Begins, GoesOn
<1>5. /\ mmu'[level] = blocks
      /\ \A l \in Levels : l # level => mmu'[l] = mmu[l]
  BY <1>1 DEF MapInv, TypeOK
<1>6. ASSUME NEW l \in Levels, NEW core, LevelOk(map, l, core, Good(l)'),
             Extends(mmu'[l], core), Good(l)' = Done(l)' => core = mmu'[l]
      PROVE  \E c : CoreOf(l, c)'
  <2>1. CoreOf(l, core)'
    BY <1>6 DEF CoreOf
  <2>. QED
    BY <2>1
<1>7. ASSUME NEW l \in Levels PROVE \E c : CoreOf(l, c)'
  <2>1. CASE l = level /\ Sound(map, level, entry)
    <3>1. Good(l)' = Done(l)' /\ Done(l)' = Done(level) \cup {entry}
      <4>1. Good(l) = Done(l)
        BY <2>1, ComesNow
      <4>. QED
        BY <1>3, <1>4, <2>1, <4>1 DEF Good
    <3>2. LevelOk(map, l, blocks, Good(l)') /\ mmu'[l] = blocks
      BY <1>5, <2>1, <3>1
    <3>3. Extends(blocks, blocks)
      <4>1. blocks \in Seq(Blocks)
        BY <3>2 DEF LevelOk
      <4>2. Len(blocks) \in Nat /\ \A i \in DOMAIN blocks : blocks[i].size \in Nat
        <5>1. \A i \in DOMAIN blocks : blocks[i] \in Blocks
          BY <4>1
        <5>. QED
          BY <4>1, <5>1 DEF Blocks
      <4>. QED
        BY <4>2 DEF Extends
    <3>. QED
      BY <1>6, <3>2, <3>3
  <2>2. CASE l = level /\ ~Sound(map, level, entry)
    <3>1. PICK core : CoreOf(l, core)
      BY DEF TablesFit
    <3>2. Good(l)' = Good(l) /\ Good(l)' # Done(l)'
      <4>1. entry \in Done(l)' /\ entry \notin Good(l)'
        BY <1>3, <1>4, <2>2
      <4>2. Good(l)' = Good(l)
        BY <1>3, <1>4, <2>2 DEF Good
      <4>. QED
        BY <4>1, <4>2
    <3>3. LevelOk(map, l, core, Good(l)') /\ Extends(mmu'[l], core)
      BY <1>5, <2>2, <3>1, <3>2 DEF CoreOf
    <3>. QED
      BY <1>6, <3>2, <3>3
  <2>3. CASE l # level
    <3>1. PICK core : CoreOf(l, core)
      BY DEF TablesFit
    <3>2. Good(l)' = Good(l) /\ Done(l)' = Done(l) /\ mmu'[l] = mmu[l]
      BY <1>3, <1>4, <1>5, <2>3 DEF Good
    <3>. QED
      BY <1>6, <3>1, <3>2 DEF CoreOf
  <2>. QED
    BY <2>1, <2>2, <2>3
<1>. QED
  BY <1>7 DEF TablesFit

\* A coloured block at the end of the core is not extended by an entry that comes later:
\* the entry behind its region would have to be like it.
LEMMA ColouredStays ==
    ASSUME MapInv, Mapping, ColoursFit(map), NEW core, CoreOf(level, core),
           NEW n \in DOMAIN core, core[n].terminal, core[n].cc
    PROVE  ~Joins(core[n], map[entry], level)
<1>. DEFINE e == map[entry]
<1>. SUFFICES ASSUME Joins(core[n], e, level) PROVE FALSE
  OBVIOUS
<1>1. /\ entry \in DOMAIN map /\ level \in Levels /\ level \in Nat
      /\ map \in Seq(Entries) /\ Ascending(map) /\ e.from \in Nat /\ e.from < e.upto
  BY AtLevel, MapAssumption DEF MapInv, TypeOK
<1>2. PICK k \in Good(level) :
         /\ map[k].lvl = level /\ map[k].cc /\ core[n].attr = map[k].attr
         /\ core[n].init = map[k].from /\ BlockEnd(level, core[n]) = map[k].upto
  BY DEF CoreOf, LevelOk, Whole
<1>3. k \in DOMAIN map /\ k < entry /\ entry \in Nat /\ k \in Nat
  <2>1. k \in DOMAIN map /\ entry \in DOMAIN map /\ DOMAIN map = 1..Len(map)
        /\ Len(map) \in Nat /\ Handled(k, level)
    BY <1>1, <1>2 DEF Good, Done
  <2>. QED
    BY <1>1, <2>1 DEF Handled
<1>4. /\ level = e.lvl /\ core[n].attr = e.attr /\ core[n].cc = e.cc
      /\ map[k].upto >= e.from
  BY <1>2 DEF Joins
<1>5. k = entry - 1
  <2>1. SUFFICES ASSUME k < entry - 1 PROVE FALSE
    BY <1>3
  <2>2. entry - 1 \in DOMAIN map /\ entry - 1 < entry
    BY <1>1, <1>3
  <2>3. /\ map[k].upto <= map[entry - 1].from /\ map[entry - 1].upto <= e.from
        /\ map[entry - 1].from < map[entry - 1].upto
    BY <1>1, <1>3, <2>1, <2>2 DEF Ascending
  <2>4. /\ map[k].upto \in Nat /\ map[entry - 1].from \in Nat
        /\ map[entry - 1].upto \in Nat
    BY <1>1, <1>3, <2>2, MapFields
  <2>. QED
    BY <1>1, <1>4, <2>3, <2>4
<1>6. e.cc /\ map[k].cc = e.cc
  <2>1. core[n] \in Blocks
    BY DEF CoreOf, LevelOk
  <2>2. map[k].cc \in BOOLEAN /\ core[n].cc \in BOOLEAN
    BY <1>1, <1>3, <2>1, MapFields DEF Blocks
  <2>. QED
    BY <1>2, <1>4, <2>2
<1>7. Alike(map[entry - 1], e) /\ entry > 1
  <2>1. entry > 1
    BY <1>1, <1>3, <1>5
  <2>. QED
    BY <1>2, <1>4, <1>5, <1>6, <2>1 DEF Alike
<1>. QED
  BY <1>1, <1>6, <1>7, ColourFields

LEMMA Replaced ==
    ASSUME NEW o \in Seq(Blocks), NEW w \in Blocks, NEW h \in DOMAIN o,
           NEW new, new = [o EXCEPT ![h] = w]
    PROVE  /\ Len(new) = Len(o) /\ new[h] = w
           /\ \A i \in DOMAIN o : i # h => new[i] = o[i]
OBVIOUS

\* What an entry that comes later adds leaves the core.
LEMMA AddExtends ==
    ASSUME MapInv, Mapping, ColoursFit(map), Covering(map[entry], level) = {},
           NEW core, CoreOf(level, core),
           NEW blocks, blocks = WithBlock(map[entry], level)
    PROVE  Extends(blocks, core)
<1>. DEFINE e == map[entry]
            l == level
            old == mmu[l]
            n == Len(old)
<1>1. /\ old \in Seq(Blocks)
      /\ old # <<>> => BlockEnd(l, old[n]) < e.upto
      /\ \/ old = <<>> /\ blocks = <<NewBlock(e, l, e.from)>>
         \/ /\ old # <<>> /\ Joins(old[n], e, l)
            /\ blocks = [old EXCEPT ![n] =
                  [old[n] EXCEPT
                     !.size = @ + Ceil(e.upto - BlockEnd(l, old[n]), Sizes[l])]]
         \/ /\ old # <<>> /\ ~Joins(old[n], e, l)
            /\ blocks = Append(old, NewBlock(e, l, NewInit(e, BlockEnd(l, old[n]))))
  BY WithBlockForm, MapAssumption
<1>2. /\ core \in Seq(Blocks) /\ Len(core) \in Nat /\ DOMAIN core = 1..Len(core)
      /\ Extends(old, core) /\ Len(core) <= n
      /\ n \in Nat /\ DOMAIN old = 1..n
  <2>1. core \in Seq(Blocks) /\ Extends(old, core)
    BY DEF CoreOf, LevelOk
  <2>. QED
    BY <1>1, <2>1 DEF Extends
<1>3. e \in Entries /\ e.upto \in Nat /\ l \in Levels
  BY AtLevel, MapAssumption
<1>4. \A i \in 1..n : old[i] \in Blocks
  BY <1>1, <1>2
<1>. HIDE DEF old, e, l, n
<1>5. CASE old = <<>> /\ blocks = <<NewBlock(e, l, e.from)>>
  <2>1. n = 0 /\ Len(core) = 0 /\ DOMAIN core = {} /\ Len(blocks) = 1
    BY <1>2, <1>5 DEF n
  <2>. QED
    BY <2>1 DEF Extends
<1>6. CASE /\ old # <<>> /\ Joins(old[n], e, l)
           /\ blocks = [old EXCEPT ![n] =
                 [old[n] EXCEPT
                    !.size = @ + Ceil(e.upto - BlockEnd(l, old[n]), Sizes[l])]]
  <2>. DEFINE wide == [old[n] EXCEPT
                         !.size = @ + Ceil(e.upto - BlockEnd(l, old[n]), Sizes[l])]
              more == Ceil(e.upto - BlockEnd(l, old[n]), Sizes[l])
  <2>1. n \in 1..n /\ old[n] \in Blocks
    <3>1. n # 0
      BY <1>1, <1>2, <1>6 DEF n
    <3>. QED
      BY <1>2, <1>4, <3>1
  <2>2. BlockEnd(l, old[n]) < e.upto
    BY <1>1, <1>6
  <2>3. more \in Nat
    <3>. DEFINE d == e.upto - BlockEnd(l, old[n])
                s == Sizes[l]
    <3>1. d \in Nat \ {0} /\ s \in Nat \ {0}
      BY <1>3, <2>1, <2>2, LevelFields
    <3>. HIDE DEF d, s
    <3>2. Ceil(d, s) \in Nat
      BY <3>1, CeilCovers
    <3>. QED
      BY <3>2 DEF d, s
  <2>4. /\ wide.init = old[n].init /\ wide.terminal = old[n].terminal
        /\ wide.attr = old[n].attr /\ wide.cc = old[n].cc
        /\ wide.size = old[n].size + more
    <3>. HIDE DEF more
    <3>1. wide = [old[n] EXCEPT !.size = old[n].size + more]
      BY DEF more
    <3>. QED
      BY <2>1, <3>1 DEF Blocks
  <2>5. wide.size >= old[n].size
    <3>1. old[n].size \in Nat
      BY <2>1 DEF Blocks
    <3>. HIDE DEF more, wide
    <3>. QED
      BY <2>3, <2>4, <3>1
  <2>6. blocks = [old EXCEPT ![n] = wide] /\ wide \in Blocks
    <3>1. wide \in Blocks
      BY <1>3, <2>1, <2>2, WiderBlockTight
    <3>. QED
      BY <1>6, <3>1
  <2>. HIDE DEF wide, more
  <2>7. /\ Len(blocks) = n /\ blocks[n] = wide
        /\ \A i \in 1..n : i # n => blocks[i] = old[i]
    <3>1. old \in Seq(Blocks) /\ n \in DOMAIN old /\ Len(old) = n /\ DOMAIN old = 1..n
      BY <1>1, <1>2, <2>1 DEF n
    <3>2. /\ Len(blocks) = Len(old) /\ blocks[n] = wide
          /\ \A i \in DOMAIN old : i # n => blocks[i] = old[i]
      BY <2>6, <3>1, Replaced
    <3>. QED
      BY <3>1, <3>2
  <2>8. ASSUME NEW i \in DOMAIN core
        PROVE  /\ blocks[i].init = core[i].init /\ blocks[i].terminal = core[i].terminal
               /\ blocks[i].attr = core[i].attr /\ blocks[i].cc = core[i].cc
               /\ blocks[i].size >= core[i].size
               /\ i < Len(core) \/ (core[i].terminal /\ core[i].cc) => blocks[i] = core[i]
    <3>1. /\ old[i].init = core[i].init /\ old[i].terminal = core[i].terminal
          /\ old[i].attr = core[i].attr /\ old[i].cc = core[i].cc
          /\ old[i].size >= core[i].size
          /\ i < Len(core) \/ (core[i].terminal /\ core[i].cc) => old[i] = core[i]
      BY <1>2 DEF Extends
    <3>2. /\ i \in 1..n /\ i <= Len(core) /\ i \in Nat
          /\ Len(core) \in Nat /\ n \in Nat /\ Len(core) <= n
      BY <1>2
    <3>3. CASE i # n
      BY <2>7, <3>1, <3>2, <3>3
    <3>4. CASE i = n
      <4>1. i = Len(core) /\ ~(i < Len(core))
        BY <3>2, <3>4
      <4>2. ~(core[i].terminal /\ core[i].cc)
        <5>1. core[i].terminal /\ core[i].cc => ~Joins(core[i], e, l) /\ old[i] = core[i]
          BY <3>1, ColouredStays DEF e, l
        <5>. QED
          BY <1>6, <3>4, <5>1
      <4>3. wide.size >= core[i].size
        <5>1. core[i].size \in Nat /\ old[n].size \in Nat
          <6>1. core[i] \in Blocks
            BY <1>2
          <6>. QED
            BY <2>1, <6>1 DEF Blocks
        <5>2. wide.size \in Nat
          BY <2>3, <2>4, <5>1
        <5>. QED
          BY <2>5, <3>1, <3>4, <5>1, <5>2
      <4>. QED
        BY <2>4, <2>7, <3>1, <3>4, <4>1, <4>2, <4>3
    <3>. QED
      BY <3>3, <3>4
  <2>. QED
    BY <1>2, <2>7, <2>8 DEF Extends
<1>7. CASE /\ old # <<>> /\ ~Joins(old[n], e, l)
           /\ blocks = Append(old, NewBlock(e, l, NewInit(e, BlockEnd(l, old[n]))))
  <2>. DEFINE b == NewBlock(e, l, NewInit(e, BlockEnd(l, old[n])))
  <2>. HIDE DEF b
  <2>1. blocks = Append(old, b)
    BY <1>7 DEF b
  <2>2. Len(blocks) = n + 1 /\ \A i \in 1..n : blocks[i] = old[i]
    <3>1. \A o \in Seq(Blocks) : \A new :
             /\ Len(Append(o, new)) = Len(o) + 1
             /\ \A i \in 1..Len(o) : Append(o, new)[i] = o[i]
      OBVIOUS
    <3>. QED
      BY <1>1, <2>1, <3>1 DEF n
  <2>3. \A i \in DOMAIN core : i \in 1..n
    BY <1>2
  <2>. QED
    BY <1>2, <2>2, <2>3 DEF Extends
<1>. QED
  BY <1>1, <1>5, <1>6, <1>7 DEF old, e, l, n

\* An entry that is held whole is held by the last block, which serves it.
LEMMA CoveringServes ==
    ASSUME MapInv, Mapping, ColoursFit(map), TablesFit, Sound(map, level, entry),
           Covering(map[entry], level) # {}
    PROVE  /\ LevelOk(map, level, mmu[level], Done(level) \cup {entry})
           /\ mmu[level][Min(Covering(map[entry], level))].terminal
                 = (level = map[entry].lvl)
<1>. DEFINE S == Covering(map[entry], level)
            n == Len(mmu[level])
<1>1. Comes(map, entry, level, mmu[level], Done(level))
  BY ComesNow
<1>2. \A i \in S : i \in DOMAIN mmu[level] /\ BlockEnd(level, mmu[level][i]) >= map[entry].upto
  BY DEF Covering
<1>3. ASSUME NEW i \in S
      PROVE  i = n /\ Serves(map[entry], level, mmu[level][i])
  BY <1>1, <1>2, FoundServes
<1>4. PICK i \in S : TRUE
  OBVIOUS
<1>5. LevelOk(map, level, mmu[level], Done(level) \cup {entry})
  BY <1>1, <1>2, <1>4, FoundKeeps
<1>6. S = {n} /\ n \in Nat
  <2>1. n \in Nat
    BY AtLevel, MapAssumption
  <2>. QED
    BY <1>3, <1>4, <2>1
<1>7. mmu[level][n].terminal \in BOOLEAN
  <2>1. mmu[level][n] \in Blocks
    BY <1>2, <1>6, AtLevel, MapAssumption
  <2>. QED
    BY <2>1 DEF Blocks
<1>. HIDE DEF S, n
<1>8. Min(S) = n
  BY <1>6 DEF Min
<1>9. Serves(map[entry], level, mmu[level][Min(S)])
  BY <1>3, <1>6, <1>8
<1>10. mmu[level][Min(S)].terminal = (level = map[entry].lvl)
  BY <1>7, <1>8, <1>9 DEF Serves
<1>. QED
  BY <1>5, <1>10 DEF S

LEMMA UnbrokenInit ==
    ASSUME Init
    PROVE  UnbrokenInv
<1>1. MapInv
  BY InitInv, MapAssumption
<1>2. \A l \in Levels : mmu[l] = <<>>
  BY DEF Init
<1>3. ASSUME NEW l \in Levels PROVE Done(l) = {}
  <2>1. ASSUME NEW k \in DOMAIN map PROVE ~Handled(k, l)
    <3>1. k \in Nat \ {0} /\ l \in Nat /\ map[1].lvl \in Nat /\ map \in Seq(Entries)
      <4>1. map \in Seq(Entries) /\ map # <<>> /\ Ascending(map)
        BY <1>1 DEF MapInv, TypeOK
      <4>2. 1 \in DOMAIN map
        BY <4>1
      <4>. QED
        BY <4>1, <4>2, LevelFields, MapFields
    <3>. QED
      BY <3>1 DEF Init, Handled
  <2>. QED
    BY <2>1 DEF Done
<1>4. ASSUME NEW l \in Levels PROVE CoreOf(l, <<>>)
  <2>1. LevelOk(map, l, <<>>, {})
    BY DEF LevelOk, Tight, Seamless, Pointing, Served, Whole
  <2>2. Extends(<<>>, <<>>)
    BY DEF Extends
  <2>3. Good(l) = {}
    BY <1>3 DEF Good
  <2>. QED
    BY <1>2, <2>1, <2>2, <2>3 DEF CoreOf
<1>. QED
  BY <1>4 DEF UnbrokenInv, TablesFit, Init

LEMMA UnbrokenFind ==
    ASSUME MapInv, ColoursFit(map), TablesFit, FindBlock
    PROVE  TablesFit'
<1>1. Mapping /\ Covering(map[entry], level) # {} /\ Descend
      /\ UNCHANGED <<map, coloring, mmu, refused>>
  BY DEF FindBlock
<1>2. Sound(map, level, entry) =>
         LevelOk(map, level, mmu[level], Done(level) \cup {entry})
  BY <1>1, CoveringServes
<1>3. mmu' = [mmu EXCEPT ![level] = mmu[level]]
  BY <1>1 DEF MapInv, TypeOK
<1>4. \A core : CoreOf(level, core) => Extends(mmu[level], core)
  BY DEF CoreOf
<1>. QED
  BY <1>1, <1>2, <1>3, <1>4, StepKeeps

LEMMA UnbrokenAdd ==
    ASSUME MapInv, ColoursFit(map), TablesFit, AddBlock
    PROVE  TablesFit'
<1>. DEFINE e == map[entry]
            l == level
            old == mmu[l]
            n == Len(old)
            blocks == WithBlock(e, l)
<1>1. /\ Mapping /\ Covering(e, l) = {} /\ Descend
      /\ mmu' = [mmu EXCEPT ![level] = blocks]
      /\ UNCHANGED <<map, coloring, refused>>
  BY DEF AddBlock
<1>2. ASSUME Sound(map, l, entry)
      PROVE  Comes(map, entry, l, old, Done(l))
  BY <1>1, <1>2, ComesNow
<1>3. /\ old # <<>> => BlockEnd(l, old[n]) < e.upto
      /\ \/ old = <<>> /\ blocks = <<NewBlock(e, l, e.from)>>
         \/ /\ old # <<>> /\ Joins(old[n], e, l)
            /\ blocks = [old EXCEPT ![n] =
                  [old[n] EXCEPT
                     !.size = @ + Ceil(e.upto - BlockEnd(l, old[n]), Sizes[l])]]
         \/ /\ old # <<>> /\ ~Joins(old[n], e, l)
            /\ blocks = Append(old, NewBlock(e, l, NewInit(e, BlockEnd(l, old[n]))))
  BY <1>1, WithBlockForm, MapAssumption
<1>4. \A core : CoreOf(l, core) => Extends(blocks, core)
  BY <1>1, AddExtends
<1>. HIDE DEF blocks, old, n, l
<1>5. ASSUME Sound(map, l, entry)
      PROVE  LevelOk(map, l, blocks, Done(l) \cup {entry})
  <2>1. CASE old = <<>> /\ blocks = <<NewBlock(e, l, e.from)>>
    BY <1>2, <1>5, <2>1, FirstKeeps
  <2>2. CASE /\ old # <<>> /\ Joins(old[n], e, l)
             /\ blocks = [old EXCEPT ![n] =
                   [old[n] EXCEPT
                      !.size = @ + Ceil(e.upto - BlockEnd(l, old[n]), Sizes[l])]]
    BY <1>2, <1>3, <1>5, <2>2, JoinKeeps DEF n
  <2>3. CASE /\ old # <<>> /\ ~Joins(old[n], e, l)
             /\ blocks = Append(old, NewBlock(e, l, NewInit(e, BlockEnd(l, old[n]))))
    BY <1>2, <1>3, <1>5, <2>3, AppendKeeps DEF n
  <2>. QED
    BY <1>3, <2>1, <2>2, <2>3
<1>. QED
  BY <1>1, <1>4, <1>5, StepKeeps DEF l

\* No entry up to which the map is unbroken is refused.
LEMMA UnbrokenTaken ==
    ASSUME MapInv, ColoursFit(map), TablesFit, RefuseEntry
    PROVE  ~Unbroken(map, entry)
<1>. SUFFICES ASSUME Unbroken(map, entry) PROVE FALSE
  OBVIOUS
<1>1. Mapping /\ level \in 0..map[entry].lvl
  <2>1. Mapping
    BY DEF RefuseEntry
  <2>2. level \in Nat /\ level <= map[entry].lvl /\ map[entry].lvl \in Nat
    BY <2>1, AtLevel, EntryFields, MapAssumption DEF MapInv, TypeOK
  <2>. QED
    BY <2>1, <2>2
<1>2. Sound(map, level, entry)
  BY <1>1 DEF Unbroken
<1>. QED
  BY <1>1, <1>2, CoveringServes DEF RefuseEntry

LEMMA UnbrokenStep == MapInv /\ UnbrokenInv /\ [Next]_vars => UnbrokenInv'
<1>. SUFFICES ASSUME MapInv, UnbrokenInv, [Next]_vars, ColoursFit(map)'
              PROVE  TablesFit' /\ (refused => ~Unbroken(map, entry))'
  BY DEF UnbrokenInv
<1>1. map' = map
  BY DEF Next, FindBlock, RefuseEntry, AddBlock, vars
<1>2. ColoursFit(map) /\ TablesFit /\ (refused => ~Unbroken(map, entry))
  <2>1. ColoursFit(map)' <=> ColoursFit(map)
    BY <1>1 DEF ColoursFit, StridesFit, Alike
  <2>. QED
    BY <2>1 DEF UnbrokenInv
<1>3. CASE FindBlock
  BY <1>2, <1>3, UnbrokenFind DEF FindBlock, Mapping
<1>4. CASE AddBlock
  BY <1>2, <1>4, UnbrokenAdd DEF AddBlock, Mapping
<1>5. CASE UNCHANGED <<map, entry, level, mmu>> /\ (refused' => ~Unbroken(map, entry))
  <2>1. \A l \in Levels : Done(l)' = Done(l) /\ Good(l)' = Good(l) /\ mmu'[l] = mmu[l]
    BY <1>5 DEF Done, Handled, Good, Sound, Begins, GoesOn
  <2>2. ASSUME NEW l \in Levels PROVE \E core : CoreOf(l, core)'
    <3>1. PICK core : CoreOf(l, core)
      BY <1>2 DEF TablesFit
    <3>2. CoreOf(l, core)'
      BY <1>1, <2>1, <3>1 DEF CoreOf
    <3>. QED
      BY <3>2
  <2>3. (refused => ~Unbroken(map, entry))'
    BY <1>5 DEF Unbroken, Sound, Begins, GoesOn
  <2>. QED
    BY <2>2, <2>3 DEF TablesFit
<1>6. CASE RefuseEntry
  BY <1>2, <1>5, <1>6, UnbrokenTaken DEF RefuseEntry
<1>7. CASE UNCHANGED vars
  BY <1>2, <1>5, <1>7 DEF vars
<1>. QED
  BY <1>3, <1>4, <1>6, <1>7 DEF Next

\* The inductive invariant of every map, with its gaps: no entry is refused up to which
\* the map is unbroken, and the list of each level begins with blocks that fit the entries
\* up to which the level is sound.
THEOREM UnbrokenInvariant == Spec => []UnbrokenInv
<1>1. Init => UnbrokenInv
  BY UnbrokenInit
<1>2. MapInv /\ UnbrokenInv /\ [Next]_vars => UnbrokenInv'
  BY UnbrokenStep
<1>. QED
  BY <1>1, <1>2, MapInvariant, PTL DEF Spec

------------------------------------------------------------------------------
(* The recursive functions of the tables are what their definitions say.     *)

\* Function g counts the descriptors before each block up to block n.
Counts(g, l, n) ==
    \A k \in 0..n : g[k] = IF k <= 1 THEN 0 ELSE g[k - 1] + Written(mmu[l][k - 1])

LEMMA CountsExist == ASSUME NEW l PROVE \A n \in Nat : \E g : Counts(g, l, n)
<1>. DEFINE S == {n \in Nat : \E g : Counts(g, l, n)}
<1>1. 0 \in S
  <2>1. Counts([k \in Nat |-> 0], l, 0)
    BY DEF Counts
  <2>. QED
    BY <2>1
<1>2. ASSUME NEW n \in Nat, n \in S PROVE n + 1 \in S
  <2>1. PICK g : Counts(g, l, n)
    BY <1>2
  <2>. DEFINE last == IF n + 1 <= 1 THEN 0 ELSE g[n] + Written(mmu[l][n])
              h == [k \in Nat |-> IF k <= n THEN g[k] ELSE last]
  <2>2. ASSUME NEW k \in 0..(n + 1)
        PROVE  h[k] = IF k <= 1 THEN 0 ELSE h[k - 1] + Written(mmu[l][k - 1])
    <3>. HIDE DEF last
    <3>1. \A i \in 0..n : h[i] = g[i]
      OBVIOUS
    <3>2. h[n + 1] = last
      OBVIOUS
    <3>. HIDE DEF h
    <3>3. CASE k <= n
      <4>1. k \in 0..n /\ (k > 1 => k - 1 \in 0..n)
        BY <3>3
      <4>. QED
        BY <2>1, <3>1, <4>1 DEF Counts
    <3>4. CASE k = n + 1
      <4>1. (k - 1) = n /\ n \in 0..n
        BY <3>4
      <4>. QED
        BY <3>1, <3>2, <3>4, <4>1 DEF last
    <3>. QED
      BY <3>3, <3>4
  <2>. HIDE DEF h
  <2>3. Counts(h, l, n + 1)
    BY <2>2 DEF Counts
  <2>. QED
    BY <2>3
<1>. HIDE DEF S
<1>3. Nat \subseteq S
  BY <1>1, <1>2, Induction
<1>. QED
  BY <1>3 DEF S

LEMMA CountsUnique ==
    ASSUME NEW l, NEW n \in Nat, NEW m \in Nat, NEW g, NEW h,
           Counts(g, l, n), Counts(h, l, m)
    PROVE  \A k \in 0..n : k <= m => g[k] = h[k]
<1>. DEFINE S == {k \in Nat : k <= n /\ k <= m => g[k] = h[k]}
<1>1. 0 \in S
  BY 0 \in 0..n, 0 \in 0..m DEF Counts
<1>2. ASSUME NEW k \in Nat, k \in S PROVE k + 1 \in S
  <2>1. ASSUME k + 1 <= n, k + 1 <= m PROVE g[k + 1] = h[k + 1]
    <3>1. k + 1 \in 0..n /\ k + 1 \in 0..m /\ (k + 1) - 1 = k
      BY <2>1
    <3>2. g[k] = h[k]
      BY <1>2, <2>1
    <3>. QED
      BY <3>1, <3>2 DEF Counts
  <2>. QED
    BY <2>1
<1>. HIDE DEF S
<1>3. Nat \subseteq S
  BY <1>1, <1>2, Induction
<1>. QED
  BY <1>3 DEF S

LEMMA FirstOfDef ==
    ASSUME NEW l
    PROVE  \A n \in Nat :
              FirstOf(l, n) = IF n <= 1 THEN 0 ELSE FirstOf(l, n - 1) + Written(mmu[l][n - 1])
<1>. DEFINE Of(n) == CHOOSE g : Counts(g, l, n)
            G == [n \in Nat |-> Of(n)[n]]
            First == CHOOSE f : f = [k \in Nat |->
                        IF k <= 1 THEN 0 ELSE f[k - 1] + Written(mmu[l][k - 1])]
<1>1. \A n \in Nat : Counts(Of(n), l, n)
  BY CountsExist
<1>2. ASSUME NEW n \in Nat
      PROVE  G[n] = IF n <= 1 THEN 0 ELSE G[n - 1] + Written(mmu[l][n - 1])
  <2>. HIDE DEF Of
  <2>1. n > 1 => n - 1 \in Nat /\ n - 1 \in 0..(n - 1) /\ n - 1 <= n
    OBVIOUS
  <2>2. n > 1 => Of(n - 1)[n - 1] = Of(n)[n - 1]
    BY <1>1, <2>1, CountsUnique
  <2>3. /\ G[n] = Of(n)[n]
        /\ n > 1 => G[n - 1] = Of(n - 1)[n - 1]
    BY <2>1
  <2>4. Of(n)[n] = IF n <= 1 THEN 0 ELSE Of(n)[n - 1] + Written(mmu[l][n - 1])
    BY <1>1, n \in 0..n DEF Counts
  <2>. HIDE DEF G
  <2>. QED
    BY <2>2, <2>3, <2>4
<1>3. G = [n \in Nat |-> IF n <= 1 THEN 0 ELSE G[n - 1] + Written(mmu[l][n - 1])]
  <2>1. G = [n \in Nat |-> G[n]]
    OBVIOUS
  <2>. HIDE DEF G
  <2>. QED
    BY <1>2, <2>1
<1>. HIDE DEF G
<1>4. First = [n \in Nat |-> IF n <= 1 THEN 0 ELSE First[n - 1] + Written(mmu[l][n - 1])]
  BY <1>3
<1>5. \A n : FirstOf(l, n) = First[n]
  BY DEF FirstOf
<1>. HIDE DEF First
<1>6. \A n \in Nat : First[n] = IF n <= 1 THEN 0 ELSE First[n - 1] + Written(mmu[l][n - 1])
  BY <1>4
<1>. QED
  BY <1>5, <1>6

\* What a walk that has found d goes on to find at level l.
Beyond(d, l, va) ==
    IF d.kind = "table"
    THEN Descriptor(l, (d.base \div Ratio(l - 1)) * Ratio(l - 1) + Index(l, va))
    ELSE d

\* Function g walks down to level n.
Walks(g, va, n) ==
    \A l \in Levels : l <= n =>
        g[l] = IF l = 0 THEN Descriptor(0, Index(0, va)) ELSE Beyond(g[l - 1], l, va)

LEMMA WalksExist == ASSUME NEW va PROVE \A n \in Nat : \E g : Walks(g, va, n)
<1>. DEFINE S == {n \in Nat : \E g : Walks(g, va, n)}
<1>1. Levels \subseteq Nat /\ \A l \in Levels : l # 0 => l - 1 \in Levels
  BY MapAssumption DEF Levels
<1>2. 0 \in S
  <2>. DEFINE g == [l \in Levels |-> Descriptor(0, Index(0, va))]
  <2>1. \A l \in Levels : g[l] = Descriptor(0, Index(0, va))
    OBVIOUS
  <2>2. \A l \in Levels : l <= 0 => l = 0
    BY <1>1
  <2>. HIDE DEF g
  <2>3. Walks(g, va, 0)
    BY <2>1, <2>2 DEF Walks
  <2>. QED
    BY <2>3
<1>3. ASSUME NEW n \in Nat, n \in S PROVE n + 1 \in S
  <2>1. PICK g : Walks(g, va, n)
    BY <1>3
  <2>. DEFINE h == [l \in Levels |-> IF l <= n THEN g[l] ELSE Beyond(g[l - 1], l, va)]
  <2>2. \A l \in Levels : h[l] = IF l <= n THEN g[l] ELSE Beyond(g[l - 1], l, va)
    OBVIOUS
  <2>. HIDE DEF h
  <2>3. ASSUME NEW l \in Levels, l <= n + 1
        PROVE  h[l] = IF l = 0 THEN Descriptor(0, Index(0, va))
                               ELSE Beyond(h[l - 1], l, va)
    <3>1. l # 0 => l - 1 \in Levels /\ l - 1 <= n
      BY <1>1, <2>3
    <3>2. l # 0 => h[l - 1] = g[l - 1]
      BY <2>2, <3>1
    <3>3. CASE l <= n
      <4>1. h[l] = g[l]
        BY <2>2, <3>3
      <4>2. g[l] = IF l = 0 THEN Descriptor(0, Index(0, va))
                            ELSE Beyond(g[l - 1], l, va)
        BY <2>1, <3>3 DEF Walks
      <4>. QED
        BY <3>2, <4>1, <4>2
    <3>4. CASE ~(l <= n)
      <4>1. l # 0
        BY <1>1, <3>4
      <4>2. h[l] = Beyond(g[l - 1], l, va)
        BY <2>2, <3>4
      <4>. QED
        BY <3>2, <4>1, <4>2
    <3>. QED
      BY <3>3, <3>4
  <2>4. Walks(h, va, n + 1)
    BY <2>3 DEF Walks
  <2>. QED
    BY <2>4
<1>. HIDE DEF S
<1>4. Nat \subseteq S
  BY <1>2, <1>3, Induction
<1>. QED
  BY <1>4 DEF S

LEMMA FoundDef ==
    ASSUME NEW va
    PROVE  \A l \in Levels :
              Found(va, l) = IF l = 0 THEN Descriptor(0, Index(0, va))
                                      ELSE Beyond(Found(va, l - 1), l, va)
<1>1. /\ \A l \in Levels : l <= NumLvls
      /\ NumLvls \in Nat
      /\ \A l \in Levels : l # 0 => l - 1 \in Levels
  BY MapAssumption DEF Levels
<1>2. PICK g : Walks(g, va, NumLvls)
  BY <1>1, WalksExist
<1>. DEFINE G == [l \in Levels |-> g[l]]
            F == CHOOSE f : f = [k \in Levels |->
                    IF k = 0 THEN Descriptor(0, Index(0, va))
                    ELSE LET d == f[k - 1]
                             ratio == Ratio(k - 1)
                         IN  IF d.kind = "table"
                             THEN Descriptor(k, (d.base \div ratio) * ratio + Index(k, va))
                             ELSE d]
<1>3. \A l \in Levels : G[l] = g[l]
  OBVIOUS
<1>4. G = [l \in Levels |-> G[l]]
  OBVIOUS
<1>. HIDE DEF G
<1>5. \A l \in Levels :
          G[l] = IF l = 0 THEN Descriptor(0, Index(0, va)) ELSE Beyond(G[l - 1], l, va)
  BY <1>1, <1>2, <1>3 DEF Walks
<1>6. G = [l \in Levels |-> IF l = 0 THEN Descriptor(0, Index(0, va))
                                     ELSE Beyond(G[l - 1], l, va)]
  BY <1>4, <1>5
<1>7. F = [l \in Levels |-> IF l = 0 THEN Descriptor(0, Index(0, va))
                                     ELSE Beyond(F[l - 1], l, va)]
  BY <1>6 DEF Beyond
<1>8. \A l : Found(va, l) = F[l]
  BY DEF Found
<1>. HIDE DEF F
<1>9. \A l \in Levels :
          F[l] = IF l = 0 THEN Descriptor(0, Index(0, va)) ELSE Beyond(F[l - 1], l, va)
  BY <1>7
<1>. QED
  BY <1>8, <1>9

------------------------------------------------------------------------------
(* What genTranslationTable writes for the cores of the lists.               *)

\* What the table of a level says of its sound entries is what its core says.
Core(l) == CHOOSE core : CoreOf(l, core)
Settled == MapInv /\ ColoursFit(map) /\ TablesFit

LEMMA SettledParts ==
    ASSUME Settled
    PROVE  /\ map \in Seq(Entries) /\ map # <<>> /\ Ascending(map) /\ ColoursFit(map)
           /\ Len(map) \in Nat /\ DOMAIN map = 1..Len(map)
           /\ \A k \in 1..(entry - 1) : k \in DOMAIN map
           /\ \A l \in Levels :
                 /\ Good(l) \subseteq DOMAIN map
                 /\ \A k \in Good(l) : Sound(map, l, k)
                 /\ \A k \in 1..(entry - 1) :
                       l <= map[k].lvl /\ Sound(map, l, k) => k \in Good(l)
<1>1. /\ map \in Seq(Entries) /\ map # <<>> /\ Ascending(map) /\ ColoursFit(map)
      /\ entry \in 1..(Len(map) + 1)
  BY DEF Settled, MapInv, TypeOK
<1>2. Len(map) \in Nat /\ DOMAIN map = 1..Len(map)
  BY <1>1
<1>3. \A k \in 1..(entry - 1) : k \in DOMAIN map /\ k < entry
  BY <1>1, <1>2
<1>4. \A l \in Levels : /\ Good(l) \subseteq DOMAIN map
                        /\ \A k \in Good(l) : Sound(map, l, k)
  BY DEF Good, Done
<1>5. \A l \in Levels : \A k \in 1..(entry - 1) :
         l <= map[k].lvl /\ Sound(map, l, k) => k \in Good(l)
  BY <1>3 DEF Good, Done, Handled
<1>. QED
  BY <1>1, <1>2, <1>3, <1>4, <1>5

LEMMA CoreParts ==
    ASSUME Settled, NEW l \in Levels
    PROVE  /\ mmu[l] \in Seq(Blocks)
           /\ Len(mmu[l]) \in Nat /\ DOMAIN mmu[l] = 1..Len(mmu[l])
           /\ \A i \in DOMAIN mmu[l] : mmu[l][i] \in Blocks /\ mmu[l][i].size \in Nat
           /\ Core(l) \in Seq(Blocks)
           /\ Len(Core(l)) \in Nat /\ DOMAIN Core(l) = 1..Len(Core(l))
           /\ Len(Core(l)) <= Len(mmu[l])
           /\ Seamless(map, l, Core(l), Good(l)) /\ Pointing(map, l, Core(l), Good(l))
           /\ Served(map, l, Core(l), Good(l)) /\ Whole(map, l, Core(l), Good(l))
           /\ \A i \in DOMAIN Core(l) :
                 /\ i \in DOMAIN mmu[l]
                 /\ Core(l)[i] \in Blocks
                 /\ Core(l)[i].init \in Nat /\ Core(l)[i].size \in Nat \ {0}
                 /\ BlockEnd(l, Core(l)[i]) \in Nat
                 /\ Core(l)[i].init < BlockEnd(l, Core(l)[i])
                 /\ mmu[l][i].init = Core(l)[i].init
                 /\ mmu[l][i].terminal = Core(l)[i].terminal
                 /\ mmu[l][i].attr = Core(l)[i].attr /\ mmu[l][i].cc = Core(l)[i].cc
                 /\ mmu[l][i].size >= Core(l)[i].size
                 /\ i < Len(Core(l)) \/ (Core(l)[i].terminal /\ Core(l)[i].cc) =>
                       mmu[l][i] = Core(l)[i]
<1>. DEFINE c == Core(l)
            bs == mmu[l]
<1>1. CoreOf(l, Core(l))
  <2>1. \E core : CoreOf(l, core)
    BY DEF Settled, TablesFit
  <2>. QED
    BY <2>1, Zenon DEF Core
<1>2. bs \in Seq(Blocks)
  BY DEF Settled, MapInv, TypeOK
<1>3. LevelOk(map, l, c, Good(l)) /\ Extends(bs, c) /\ c \in Seq(Blocks)
  BY <1>1 DEF CoreOf, LevelOk
<1>. HIDE DEF c, bs
<1>4. /\ Len(bs) \in Nat /\ DOMAIN bs = 1..Len(bs)
      /\ Len(c) \in Nat /\ DOMAIN c = 1..Len(c) /\ Len(c) <= Len(bs)
  BY <1>2, <1>3 DEF Extends
<1>5. ASSUME NEW i \in DOMAIN bs
      PROVE  bs[i] \in Blocks /\ bs[i].size \in Nat
  <2>1. bs[i] \in Blocks
    BY <1>2
  <2>. QED
    BY <2>1 DEF Blocks
<1>6. ASSUME NEW i \in DOMAIN c
      PROVE  /\ i \in DOMAIN bs
             /\ c[i] \in Blocks
             /\ c[i].init \in Nat /\ c[i].size \in Nat \ {0}
             /\ BlockEnd(l, c[i]) \in Nat
             /\ c[i].init < BlockEnd(l, c[i])
  <2>1. c[i] \in Blocks
    BY <1>3
  <2>2. i \in DOMAIN bs
    BY <1>4
  <2>. QED
    BY <2>1, <2>2, LevelFields
<1>7. \A i \in DOMAIN c :
         /\ bs[i].init = c[i].init /\ bs[i].terminal = c[i].terminal
         /\ bs[i].attr = c[i].attr /\ bs[i].cc = c[i].cc
         /\ bs[i].size >= c[i].size
         /\ i < Len(c) \/ (c[i].terminal /\ c[i].cc) => bs[i] = c[i]
  BY <1>3 DEF Extends
<1>8. /\ Seamless(map, l, c, Good(l)) /\ Pointing(map, l, c, Good(l))
      /\ Served(map, l, c, Good(l)) /\ Whole(map, l, c, Good(l))
  BY <1>3 DEF LevelOk
<1>. QED
  BY <1>2, <1>3, <1>4, <1>5, <1>6, <1>7, <1>8 DEF c, bs

LEMMA PeriodPositive == Period \in Nat \ {0}
<1>1. NumCores \in Nat \ {0} /\ Contiguous \in Nat \ {0}
  BY ContiguousPositive, MapAssumption
<1>. DEFINE C == Contiguous
<1>. HIDE DEF C
<1>2. NumCores * C \in Nat \ {0}
  BY <1>1 DEF C
<1>. QED
  BY <1>2 DEF Period, C

\* The difference of two multiples is one.
LEMMA LessMultiple ==
    ASSUME NEW s \in Nat \ {0}, NEW a \in Nat, NEW k \in Nat,
           a % s = 0, (a + k) % s = 0
    PROVE  k % s = 0
<1>1. PICK x \in Nat : a = s * x
  BY Multiple
<1>2. PICK y \in Nat : a + k = s * y
  BY Multiple
<1>3. y - x \in Nat
  <2>1. SUFFICES ASSUME y <= x - 1 PROVE FALSE
    BY <1>1, <1>2
  <2>2. s * y <= s * (x - 1) /\ s * (x - 1) = s * x - s
    BY <2>1
  <2>. QED
    BY <2>2, <1>1, <1>2
<1>4. k = s * (y - x)
  <2>1. s * (y - x) = s * y - s * x
    BY <1>1, <1>2
  <2>. QED
    BY <2>1, <1>1, <1>2
<1>. QED
  BY <1>3, <1>4, Multiple

\* A coloured block is a region of whole periods, and as it was made.
LEMMA ColouredBlock ==
    ASSUME Settled, NEW l \in Levels, NEW n \in DOMAIN Core(l), NEW b, b = Core(l)[n],
           b.terminal, b.cc
    PROVE  /\ StridesFit /\ Sizes[l] = 1 /\ mmu[l][n] = b
           /\ b.init % Period = 0 /\ b.size % Period = 0
           /\ \E k \in DOMAIN map :
                 /\ map[k].lvl = l /\ map[k].cc /\ b.init = map[k].from
                 /\ b.init + b.size = map[k].upto
<1>1. PICK k \in Good(l) : /\ map[k].lvl = l /\ map[k].cc
                           /\ b.init = map[k].from
                           /\ BlockEnd(l, b) = map[k].upto
  <2>1. Whole(map, l, Core(l), Good(l))
    BY CoreParts
  <2>. QED
    BY <2>1 DEF Whole
<1>2. k \in DOMAIN map /\ b.init \in Nat /\ b.size \in Nat /\ mmu[l][n] = b
  BY <1>1, SettledParts, CoreParts
<1>3. /\ StridesFit /\ Sizes[l] = 1
      /\ map[k].from % Period = 0 /\ map[k].upto % Period = 0
  BY <1>1, <1>2, SettledParts, ColourFields
<1>4. b.init + b.size = map[k].upto
  BY <1>1, <1>2, <1>3 DEF BlockEnd
<1>5. b.init % Period = 0 /\ (b.init + b.size) % Period = 0
  BY <1>1, <1>3, <1>4
<1>6. b.size % Period = 0
  BY <1>2, <1>5, PeriodPositive, LessMultiple
<1>. QED
  BY <1>1, <1>2, <1>3, <1>4, <1>5, <1>6

LEMMA WrittenNat ==
    ASSUME NEW b \in Blocks
    PROVE  Written(b) \in Nat
<1>. DEFINE z == b.size
            P == Period
            q == z \div P
<1>1. z \in Nat /\ P \in Nat \ {0}
  BY PeriodPositive DEF Blocks
<1>2. Written(b) = IF Coloured(b) THEN q * P ELSE z
  BY DEF Written
<1>. HIDE DEF z, P
<1>3. q \in Nat
  BY <1>1, Divided
<1>. HIDE DEF q
<1>4. q * P \in Nat
  BY <1>1, <1>3
<1>. QED
  BY <1>1, <1>2, <1>4

\* As many descriptors are written for a block of the core as it is long, coloured or
\* not, and for the last one perhaps more.
LEMMA WrittenWhole ==
    ASSUME Settled, NEW l \in Levels, NEW n \in DOMAIN Core(l)
    PROVE  /\ Written(mmu[l][n]) \in Nat
           /\ Written(mmu[l][n]) >= Core(l)[n].size
           /\ n < Len(Core(l)) => Written(mmu[l][n]) = Core(l)[n].size
<1>. DEFINE b == Core(l)[n]
            z == b.size
            P == Period
<1>1. /\ z \in Nat /\ n \in DOMAIN mmu[l] /\ mmu[l][n] \in Blocks
      /\ mmu[l][n].size \in Nat /\ mmu[l][n].size >= z
      /\ mmu[l][n].terminal = b.terminal /\ mmu[l][n].cc = b.cc
      /\ n < Len(Core(l)) => mmu[l][n] = b
  BY CoreParts
<1>2. Written(mmu[l][n]) \in Nat
  BY <1>1, WrittenNat
<1>3. CASE Coloured(b)
  <2>1. z % P = 0 /\ P \in Nat \ {0} /\ mmu[l][n] = b
    BY <1>3, ColouredBlock, PeriodPositive DEF Coloured
  <2>2. Written(b) = (z \div P) * P
    BY <1>3 DEF Written
  <2>. HIDE DEF P, z, b
  <2>3. z \div P \in Nat /\ z = P * (z \div P) + (z % P)
    BY <1>1, <2>1, Divided
  <2>. DEFINE q == z \div P
  <2>4. q \in Nat /\ P \in Nat /\ Written(b) = q * P /\ z = P * q + 0
    BY <2>1, <2>2, <2>3
  <2>. HIDE DEF q
  <2>5. Written(b) = z
    BY <2>4
  <2>6. Written(mmu[l][n]) = z
    BY <2>1, <2>5
  <2>. QED
    BY <1>1, <1>2, <2>6 DEF z, b
<1>4. CASE ~Coloured(b)
  <2>1. ~Coloured(mmu[l][n])
    BY <1>1, <1>4, Zenon DEF Coloured
  <2>2. Written(mmu[l][n]) = mmu[l][n].size
    BY <2>1 DEF Written
  <2>. QED
    BY <1>1, <2>2
<1>. QED
  BY <1>3, <1>4

\* The descriptors of a block follow those of the block before it.
LEMMA FirstOfNext ==
    ASSUME Settled, NEW l \in Levels
    PROVE  /\ \A i \in 1..(Len(mmu[l]) + 1) : FirstOf(l, i) \in Nat
           /\ \A i \in 1..Len(mmu[l]) :
                 /\ Written(mmu[l][i]) \in Nat
                 /\ FirstOf(l, i + 1) = FirstOf(l, i) + Written(mmu[l][i])
<1>. DEFINE z == Len(mmu[l])
            S == {d \in Nat : d + 1 <= z + 1 => FirstOf(l, d + 1) \in Nat}
<1>1. z \in Nat /\ \A i \in 1..z : Written(mmu[l][i]) \in Nat
  BY CoreParts, WrittenNat
<1>2. ASSUME NEW i \in 1..z
      PROVE  FirstOf(l, i + 1) = FirstOf(l, i) + Written(mmu[l][i])
  <2>1. i + 1 \in Nat /\ ~(i + 1 <= 1) /\ (i + 1) - 1 = i
    BY <1>1
  <2>. QED
    BY <2>1, FirstOfDef
<1>. HIDE DEF z
<1>3. 0 \in S
  <2>1. FirstOf(l, 1) = 0 /\ 0 + 1 = 1
    BY FirstOfDef
  <2>. QED
    BY <2>1
<1>4. ASSUME NEW d \in Nat, d \in S PROVE d + 1 \in S
  <2>1. SUFFICES ASSUME (d + 1) + 1 <= z + 1 PROVE FirstOf(l, (d + 1) + 1) \in Nat
    OBVIOUS
  <2>. DEFINE F == FirstOf(l, d + 1)
              w == Written(mmu[l][d + 1])
  <2>2. d + 1 \in 1..z /\ d + 1 <= z + 1
    BY <1>1, <2>1
  <2>3. F \in Nat /\ w \in Nat /\ FirstOf(l, (d + 1) + 1) = F + w
    BY <1>1, <1>2, <1>4, <2>2
  <2>. HIDE DEF F, w
  <2>. QED
    BY <2>3
<1>. HIDE DEF S
<1>5. Nat \subseteq S
  BY <1>3, <1>4, Induction
<1>6. ASSUME NEW i \in 1..(z + 1) PROVE FirstOf(l, i) \in Nat
  <2>1. i - 1 \in S /\ (i - 1) + 1 = i /\ i <= z + 1
    BY <1>1, <1>5
  <2>. QED
    BY <2>1 DEF S
<1>. QED
  BY <1>1, <1>2, <1>6 DEF z

\* The descriptors of the blocks of a core follow one another, as the blocks do.
LEMMA Layout ==
    ASSUME Settled, NEW l \in Levels, NEW n \in DOMAIN Core(l)
    PROVE  /\ FirstOf(l, n) \in Nat /\ FirstOf(l, n + 1) \in Nat
           /\ FirstOf(l, n + 1) >= FirstOf(l, n) + Core(l)[n].size
           /\ Core(l)[n].init = Core(l)[1].init + FirstOf(l, n) * Sizes[l]
<1>. DEFINE bs == Core(l)
            s == Sizes[l]
            A == bs[1].init
<1>1. /\ Len(bs) \in Nat /\ DOMAIN bs = 1..Len(bs)
      /\ \A i \in DOMAIN bs : bs[i].init \in Nat /\ bs[i].size \in Nat
      /\ \A i \in 1..(Len(bs) - 1) : BlockEnd(l, bs[i]) = bs[i + 1].init
      /\ s \in Nat
  BY CoreParts, LevelFields DEF Seamless
<1>2. ASSUME NEW i \in DOMAIN bs
      PROVE  /\ FirstOf(l, i) \in Nat /\ FirstOf(l, i + 1) \in Nat
             /\ FirstOf(l, i + 1) >= FirstOf(l, i) + bs[i].size
             /\ i < Len(bs) => FirstOf(l, i + 1) = FirstOf(l, i) + bs[i].size
  <2>. DEFINE F == FirstOf(l, i)
              w == Written(mmu[l][i])
              x == bs[i].size
  <2>1. i \in 1..Len(mmu[l]) /\ i \in 1..(Len(mmu[l]) + 1)
    BY CoreParts
  <2>2. F \in Nat /\ w \in Nat /\ FirstOf(l, i + 1) = F + w
    BY <2>1, FirstOfNext
  <2>3. w >= x /\ (i < Len(bs) => w = x) /\ x \in Nat
    BY <1>1, WrittenWhole
  <2>. HIDE DEF F, w, x
  <2>4. FirstOf(l, i + 1) \in Nat /\ FirstOf(l, i + 1) >= F + x
    BY <2>2, <2>3
  <2>. QED
    BY <2>2, <2>3, <2>4 DEF F, x
<1>. DEFINE S == {d \in Nat : d + 1 \in DOMAIN bs =>
                     bs[d + 1].init = A + FirstOf(l, d + 1) * s}
<1>3. 0 \in S
  <2>1. FirstOf(l, 1) = 0 /\ 0 + 1 = 1
    BY FirstOfDef
  <2>2. 0 * s = 0
    BY <1>1
  <2>3. 1 \in DOMAIN bs => bs[1].init = A + 0
    BY <1>1
  <2>. QED
    BY <2>1, <2>2, <2>3
<1>4. ASSUME NEW d \in Nat, d \in S PROVE d + 1 \in S
  <2>1. SUFFICES ASSUME (d + 1) + 1 \in DOMAIN bs
                 PROVE  bs[(d + 1) + 1].init = A + FirstOf(l, (d + 1) + 1) * s
    OBVIOUS
  <2>. DEFINE i == d + 1
              F == FirstOf(l, i)
              z == bs[i].size
  <2>2. /\ i \in DOMAIN bs /\ i \in 1..(Len(bs) - 1) /\ i < Len(bs)
        /\ 1 \in DOMAIN bs
    BY <1>1, <2>1
  <2>3. F \in Nat /\ bs[i].init = A + F * s
    BY <1>2, <1>4, <2>2
  <2>4. FirstOf(l, i + 1) = F + z
    BY <1>2, <2>2
  <2>5. bs[i + 1].init = bs[i].init + z * s
    BY <1>1, <2>2 DEF BlockEnd
  <2>6. z \in Nat /\ A \in Nat
    BY <1>1, <2>2
  <2>. HIDE DEF F, z, A, s, bs, i
  <2>7. (F + z) * s = F * s + z * s /\ F * s \in Nat /\ z * s \in Nat
    BY <1>1, <2>3, <2>6
  <2>8. bs[i + 1].init = A + (F + z) * s
    BY <2>3, <2>5, <2>6, <2>7
  <2>9. bs[i + 1].init = A + FirstOf(l, i + 1) * s
    BY <2>4, <2>8
  <2>. QED
    BY <2>9 DEF i
<1>. HIDE DEF S
<1>5. Nat \subseteq S
  BY <1>3, <1>4, Induction
<1>6. n - 1 \in S /\ (n - 1) + 1 = n
  BY <1>1, <1>5
<1>. QED
  BY <1>2, <1>6 DEF S

\* Descriptors before a later block are after those of an earlier one.
LEMMA FirstRises ==
    ASSUME Settled, NEW l \in Levels, NEW n \in DOMAIN mmu[l],
           NEW k \in 1..(Len(mmu[l]) + 1), n < k
    PROVE  FirstOf(l, n + 1) \in Nat /\ FirstOf(l, k) \in Nat
           /\ FirstOf(l, n + 1) <= FirstOf(l, k)
<1>. DEFINE z == Len(mmu[l])
            S == {d \in Nat : n + 1 + d <= z + 1 =>
                     FirstOf(l, n + 1) <= FirstOf(l, n + 1 + d)}
<1>1. z \in Nat /\ DOMAIN mmu[l] = 1..z
  BY CoreParts
<1>2. /\ \A i \in 1..(z + 1) : FirstOf(l, i) \in Nat
      /\ \A i \in 1..z : /\ Written(mmu[l][i]) \in Nat
                         /\ FirstOf(l, i + 1) = FirstOf(l, i) + Written(mmu[l][i])
  BY FirstOfNext
<1>. HIDE DEF z
<1>3. FirstOf(l, n + 1) \in Nat /\ FirstOf(l, k) \in Nat
  <2>1. n + 1 \in 1..(z + 1) /\ k \in 1..(z + 1)
    BY <1>1 DEF z
  <2>. QED
    BY <1>2, <2>1
<1>4. 0 \in S
  <2>1. n + 1 + 0 = n + 1
    BY <1>1
  <2>. QED
    BY <1>3, <2>1
<1>5. ASSUME NEW d \in Nat, d \in S PROVE d + 1 \in S
  <2>1. SUFFICES ASSUME n + 1 + (d + 1) <= z + 1
                 PROVE  FirstOf(l, n + 1) <= FirstOf(l, n + 1 + (d + 1))
    OBVIOUS
  <2>. DEFINE i == n + 1 + d
  <2>2. i \in 1..z /\ i + 1 = n + 1 + (d + 1) /\ i <= z + 1 /\ i \in 1..(z + 1)
    BY <1>1, <2>1
  <2>3. FirstOf(l, n + 1) <= FirstOf(l, i)
    BY <1>5, <2>2
  <2>. HIDE DEF i
  <2>4. FirstOf(l, n + 1) <= FirstOf(l, i + 1)
    <3>. DEFINE F == FirstOf(l, i)
                w == Written(mmu[l][i])
    <3>1. F \in Nat /\ w \in Nat /\ FirstOf(l, i + 1) = F + w
      BY <1>2, <2>2
    <3>. HIDE DEF F, w
    <3>. QED
      BY <1>3, <2>3, <3>1 DEF F
  <2>. QED
    BY <2>2, <2>4
<1>. HIDE DEF S
<1>6. Nat \subseteq S
  BY <1>4, <1>5, Induction
<1>7. k - n - 1 \in S /\ n + 1 + (k - n - 1) = k /\ k <= z + 1
  BY <1>1, <1>6 DEF z
<1>. QED
  BY <1>3, <1>7 DEF S

\* The page va of a block of z descriptors of s pages, which begins f descriptors
\* behind page a, counted in descriptors from page a.
CountedFrom(a, f, s, z, va) ==
    \E j \in 0..(z - 1), r \in 0..(s - 1) :
        va = a + f * s + At(s, j, r) /\ (va - a) \div s = f + j

LEMMA Offset ==
    ASSUME NEW s \in Nat \ {0}, NEW a \in Nat, NEW f \in Nat, NEW z \in Nat,
           NEW va \in Nat, a + f * s <= va, va < a + f * s + z * s
    PROVE  CountedFrom(a, f, s, z, va)
<1>. DEFINE b == a + f * s
            j == (va - b) \div s
            r == (va - b) % s
<1>1. b \in Nat /\ b <= va /\ va < b + z * s
  OBVIOUS
<1>. HIDE DEF b
<1>2. va - b \in Nat
  BY <1>1
<1>3. j \in Nat /\ r \in 0..(s - 1) /\ va - b = s * j + r
  BY <1>2, Divided
<1>4. j \in 0..(z - 1)
  <2>1. s * z = z * s /\ s * z \in Nat
    OBVIOUS
  <2>2. va - b \in 0..(s * z - 1)
    BY <1>1, <1>2, <2>1
  <2>. QED
    BY <2>2, Quotient
<1>. HIDE DEF j, r
<1>5. va = b + At(s, j, r)
  <2>1. s * j \in Nat
    BY <1>3
  <2>. QED
    BY <1>1, <1>3, <2>1 DEF At
<1>6. (va - a) \div s = f + j
  <2>1. s * (f + j) = f * s + s * j /\ f * s \in Nat /\ s * j \in Nat
    BY <1>3
  <2>2. va - a = At(s, f + j, r)
    BY <1>1, <1>3, <2>1 DEF At, b
  <2>3. At(s, f + j, r) \div s = f + j
    <3>1. f + j \in Int
      BY <1>3
    <3>. QED
      BY <3>1, <1>3, AtParts
  <2>. QED
    BY <2>2, <2>3
<1>. QED
  BY <1>3, <1>4, <1>5, <1>6 DEF b, CountedFrom

LEMMA MaxIs ==
    ASSUME NEW S, NEW n \in S, \A k \in S : k \in Nat /\ n >= k
    PROVE  Max(S) = n
<1>. DEFINE c == CHOOSE x \in S : \A y \in S : x >= y
<1>1. c \in S /\ \A y \in S : c >= y
  <2>1. \E x \in S : \A y \in S : x >= y
    OBVIOUS
  <2>. QED
    BY <2>1, Zenon
<1>2. Max(S) = c
  BY DEF Max
<1>. HIDE DEF c
<1>. QED
  BY <1>1, <1>2

\* The descriptor found for a page of a block of a core: number j of that block.
Chosen(l, n, j) ==
    LET b == Core(l)[n]
    IN  IF b.terminal
        THEN [kind |-> "page", attr |-> b.attr, size |-> Sizes[l],
              base |-> b.init + Place(b, j) * Sizes[l]]
        ELSE [kind |-> "table",
              base |-> FirstOf(l + 1, TableSymbol(l, n)) + j * Ratio(l)]

LEMMA BlockFound ==
    ASSUME Settled, NEW l \in Levels, NEW n \in DOMAIN Core(l),
           NEW j \in 0..(Core(l)[n].size - 1)
    PROVE  Descriptor(l, FirstOf(l, n) + j) = Chosen(l, n, j)
<1>. DEFINE z == Len(mmu[l])
            F == FirstOf(l, n)
            i == F + j
            S == {k \in DOMAIN mmu[l] : FirstOf(l, k) <= i}
<1>1. z \in Nat /\ DOMAIN mmu[l] = 1..z /\ n \in 1..z /\ Core(l)[n].size \in Nat
  BY CoreParts
<1>2. F \in Nat /\ FirstOf(l, n + 1) >= F + Core(l)[n].size /\ FirstOf(l, n + 1) \in Nat
  BY Layout
<1>3. i \in Nat /\ i < FirstOf(l, n + 1) /\ F <= i /\ i - F = j
  BY <1>1, <1>2
<1>. HIDE DEF F
<1>4. n \in S
  BY <1>1, <1>3 DEF F
<1>5. ASSUME NEW k \in 1..(z + 1), n < k PROVE FirstOf(l, k) \in Nat /\ i < FirstOf(l, k)
  <2>1. FirstOf(l, n + 1) \in Nat /\ FirstOf(l, k) \in Nat
        /\ FirstOf(l, n + 1) <= FirstOf(l, k)
    BY <1>1, <1>5, FirstRises
  <2>. QED
    BY <2>1, <1>3
<1>. HIDE DEF i, z
<1>6. BlockOf(l, i) = n
  <2>1. BlockOf(l, i) = Max(S)
    BY DEF BlockOf
  <2>2. \A k \in S : k \in Nat /\ n >= k
    <3>. SUFFICES ASSUME NEW k \in 1..z, FirstOf(l, k) <= i PROVE k <= n
      BY <1>1
    <3>1. SUFFICES ASSUME n < k PROVE FALSE
      BY <1>1
    <3>2. k \in 1..(z + 1)
      BY <1>1
    <3>3. FirstOf(l, k) \in Nat /\ i < FirstOf(l, k)
      BY <1>5, <3>1, <3>2
    <3>. QED
      BY <1>3, <3>3
  <2>3. n \in Nat
    BY <1>1
  <2>. HIDE DEF S
  <2>4. Max(S) = n
    BY <1>4, <2>2, <2>3, MaxIs
  <2>. QED
    BY <2>1, <2>4
<1>7. ~(i >= TableLength(l))
  <2>1. z + 1 \in 1..(z + 1) /\ n < z + 1
    BY <1>1
  <2>2. FirstOf(l, z + 1) \in Nat /\ i < FirstOf(l, z + 1)
    BY <1>5, <2>1
  <2>3. TableLength(l) = FirstOf(l, z + 1)
    BY DEF TableLength, z
  <2>. QED
    BY <1>3, <2>2, <2>3
<1>8. Place(mmu[l][n], j) = Place(Core(l)[n], j)
  <2>1. Coloured(mmu[l][n]) <=> Coloured(Core(l)[n])
    BY CoreParts DEF Coloured
  <2>2. Coloured(Core(l)[n]) => mmu[l][n] = Core(l)[n]
    BY CoreParts DEF Coloured
  <2>. QED
    BY <2>1, <2>2 DEF Place
<1>9. /\ mmu[l][n].terminal = Core(l)[n].terminal /\ mmu[l][n].attr = Core(l)[n].attr
      /\ mmu[l][n].init = Core(l)[n].init
  BY CoreParts
<1>10. i - FirstOf(l, n) = j
  BY <1>3 DEF F
<1>11. Descriptor(l, i) =
          IF mmu[l][n].terminal
          THEN [kind |-> "page", attr |-> mmu[l][n].attr, size |-> Sizes[l],
                base |-> mmu[l][n].init + Place(mmu[l][n], j) * Sizes[l]]
          ELSE [kind |-> "table",
                base |-> FirstOf(l + 1, TableSymbol(l, n)) + j * Ratio(l)]
  BY <1>6, <1>7, <1>10, Zenon DEF Descriptor
<1>12. Descriptor(l, i) = Chosen(l, n, j)
  BY <1>8, <1>9, <1>11, Zenon DEF Chosen
<1>. QED
  BY <1>12 DEF i, F

\* The first entry that reaches a level.
LEMMA OneFirst ==
    ASSUME NEW m \in Seq(Entries), Ascending(m), NEW l \in Nat,
           NEW i \in DOMAIN m, FirstAt(m, l, i), NEW k \in DOMAIN m, FirstAt(m, l, k)
    PROVE  i = k
<1>1. /\ i \in Nat \ {0} /\ k \in Nat \ {0}
      /\ m[i].lvl \in Nat /\ m[k].lvl \in Nat
  BY MapFields
<1>. QED
  BY <1>1 DEF FirstAt

\* Of the blocks of a core up to one that holds a page of a sound entry, at most one
\* points to the next level, and its table begins with the block that that level does.
LEMMA OnePointing ==
    ASSUME Settled, NEW l \in Levels, l + 1 \in Levels,
           NEW k \in 1..(entry - 1), Sound(map, l + 1, k), NEW va \in Nat,
           va < map[k].upto, NEW n \in DOMAIN Core(l), ~Core(l)[n].terminal,
           Core(l)[n].init <= va
    PROVE  /\ TableSymbol(l, n) = 1
           /\ Core(l + 1) # <<>> => Core(l + 1)[1].init = Core(l)[n].init
<1>1. /\ map \in Seq(Entries) /\ Ascending(map)
      /\ Core(l) \in Seq(Blocks) /\ DOMAIN Core(l) = 1..Len(Core(l))
      /\ Len(Core(l)) \in Nat
      /\ Seamless(map, l, Core(l), Good(l)) /\ Pointing(map, l, Core(l), Good(l))
      /\ Seamless(map, l + 1, Core(l + 1), Good(l + 1))
      /\ Good(l) \subseteq DOMAIN map /\ Good(l + 1) \subseteq DOMAIN map
      /\ k \in DOMAIN map /\ l + 1 \in Nat /\ DOMAIN map = 1..Len(map)
  BY SettledParts, CoreParts, LevelFields
<1>2. \A i \in DOMAIN Core(l) : /\ Core(l)[i].init \in Nat
                                /\ BlockEnd(l, Core(l)[i]) \in Nat
                                /\ Core(l)[i].init < BlockEnd(l, Core(l)[i])
                                /\ mmu[l][i].terminal = Core(l)[i].terminal
  BY CoreParts
<1>3. ASSUME NEW i \in DOMAIN Core(l), NEW h \in DOMAIN Core(l), i < h
      PROVE  Core(l)[i].init < Core(l)[h].init
  <2>1. BlockEnd(l, Core(l)[i]) <= Core(l)[h].init
    BY <1>1, <1>3, Ordered DEF Seamless
  <2>. QED
    BY <1>2, <2>1
<1>4. ASSUME NEW i \in 1..n, ~Core(l)[i].terminal
      PROVE  \E h \in DOMAIN map :
                FirstAt(map, l + 1, h) /\ Core(l)[i].init = map[h].from
  <2>1. i \in DOMAIN Core(l) /\ n \in DOMAIN Core(l) /\ (i = n \/ i < n)
    BY <1>1
  <2>2. PICK h \in Good(l) : /\ Core(l)[i].init = map[h].from
                             /\ Sound(map, l + 1, h) => FirstAt(map, l + 1, h)
    BY <1>1, <1>4, <2>1 DEF Pointing
  <2>3. h \in DOMAIN map /\ h \in Nat /\ k \in Nat
    BY <1>1
  <2>4. map[h].from <= va
    BY <1>2, <1>3, <2>1, <2>2
  <2>5. h <= k
    <3>1. SUFFICES ASSUME k < h PROVE FALSE
      BY <2>3
    <3>2. map[k].upto <= map[h].from
      BY <1>1, <2>3, <3>1 DEF Ascending
    <3>3. map[k].upto \in Nat /\ map[h].from \in Nat
      BY <1>1, <2>3, MapFields
    <3>. QED
      BY <2>4, <3>2, <3>3
  <2>6. Sound(map, l + 1, h)
    BY <2>3, <2>5, SoundBelow
  <2>. QED
    BY <2>2, <2>3, <2>6
<1>5. n \in 1..n /\ n \in DOMAIN Core(l)
  BY <1>1
<1>6. PICK h \in DOMAIN map : FirstAt(map, l + 1, h) /\ Core(l)[n].init = map[h].from
  BY <1>4, <1>5
<1>7. {i \in 1..n : ~mmu[l][i].terminal} = {n}
  <2>1. ASSUME NEW i \in 1..n, ~Core(l)[i].terminal PROVE i = n
    <3>1. PICK g \in DOMAIN map : FirstAt(map, l + 1, g) /\ Core(l)[i].init = map[g].from
      BY <1>4, <2>1
    <3>2. Core(l)[i].init = Core(l)[n].init
      BY <1>1, <1>6, <3>1, OneFirst
    <3>3. i \in DOMAIN Core(l) /\ (i = n \/ i < n)
      BY <1>1
    <3>. QED
      BY <1>2, <1>3, <3>2, <3>3
  <2>2. \A i \in 1..n : mmu[l][i].terminal = Core(l)[i].terminal
    <3>1. 1..n \subseteq DOMAIN Core(l)
      BY <1>1
    <3>. QED
      BY <1>2, <3>1
  <2>. QED
    BY <1>5, <2>1, <2>2
<1>8. TableSymbol(l, n) = 1
  <2>1. Cardinality({n}) = 1
    BY FS_Singleton
  <2>. QED
    BY <1>7, <2>1 DEF TableSymbol
<1>9. ASSUME Core(l + 1) # <<>>
      PROVE  Core(l + 1)[1].init = Core(l)[n].init
  <2>1. PICK g \in DOMAIN map :
           FirstAt(map, l + 1, g) /\ Core(l + 1)[1].init = map[g].from
    BY <1>1, <1>9 DEF Seamless
  <2>. QED
    BY <1>1, <1>6, <2>1, OneFirst
<1>. QED
  BY <1>8, <1>9

\* The index in the next table, from the address and from the place of its block.
SameIndex(s, t, a, j, va) ==
    LET ratio == t \div s
    IN  ((0 + j * ratio) \div ratio) * ratio + (va % t) \div s = (va - a) \div s

LEMMA NextIndex ==
    ASSUME NEW s \in Nat \ {0}, NEW t \in Nat \ {0}, t % s = 0,
           NEW a \in Nat, a % t = 0, NEW j \in Nat, NEW r \in 0..(t - 1),
           NEW va, va = a + At(t, j, r)
    PROVE  SameIndex(s, t, a, j, va)
<1>. DEFINE ratio == t \div s
            q == r \div s
            p == r % s
<1>1. ratio \in Nat \ {0} /\ t = s * ratio
  <2>1. PICK k \in Nat : t = s * k
    BY Multiple
  <2>2. ratio = k
    BY <2>1, Multiple
  <2>. QED
    BY <2>1, <2>2
<1>. HIDE DEF ratio
<1>2. va % t = r
  BY Shifted
<1>3. q \in Nat /\ p \in 0..(s - 1) /\ r = s * q + p
  <2>1. r \in Nat
    OBVIOUS
  <2>. QED
    BY <2>1, Divided
<1>. HIDE DEF q, p
<1>4. (0 + j * ratio) \div ratio = j
  <2>1. 0 + j * ratio = ratio * j
    BY <1>1
  <2>. QED
    BY <1>1, <2>1, Multiple
<1>5. va - a = At(s, ratio * j + q, p)
  <2>1. s * (ratio * j + q) = t * j + s * q /\ t * j \in Nat /\ s * q \in Nat
    <3>1. s * (ratio * j + q) = s * (ratio * j) + s * q /\ s * q \in Nat
      BY <1>1, <1>3
    <3>2. s * (ratio * j) = (s * ratio) * j
      BY <1>1
    <3>. QED
      BY <1>1, <3>1, <3>2
  <2>. QED
    BY <1>3, <2>1 DEF At
<1>6. ratio * j + q \in Int
  BY <1>1, <1>3
<1>7. (va - a) \div s = ratio * j + q
  <2>. DEFINE x == ratio * j + q
  <2>1. x \in Int /\ va - a = At(s, x, p)
    BY <1>5, <1>6
  <2>. HIDE DEF x
  <2>2. At(s, x, p) \div s = x
    BY <1>3, <2>1, AtParts
  <2>3. (va - a) \div s = x
    BY <2>1, <2>2
  <2>. QED
    BY <2>3 DEF x
<1>8. j * ratio = ratio * j
  BY <1>1
<1>. QED
  BY <1>2, <1>4, <1>7, <1>8 DEF SameIndex, ratio, q

\* The descriptor of a level for a page: it is number j of a block that serves the
\* region of the page, and the page is page r of those it stands for.
Fits(k, va, l, n, j, r) ==
    /\ Serves(map[k], l, Core(l)[n])
    /\ va = Core(l)[n].init + At(Sizes[l], j, r)
    /\ Descriptor(l, (va - Core(l)[1].init) \div Sizes[l]) = Chosen(l, n, j)

LEMMA BlockAt ==
    ASSUME Settled, NEW k \in 1..(entry - 1), NEW l \in Levels, l <= map[k].lvl,
           Sound(map, l, k), NEW va \in map[k].from..(map[k].upto - 1)
    PROVE  \E n \in DOMAIN Core(l) :
              \E j \in 0..(Core(l)[n].size - 1), r \in 0..(Sizes[l] - 1) :
                 Fits(k, va, l, n, j, r)
<1>1. /\ map[k].from \in Nat /\ map[k].upto \in Nat /\ map[k].lvl \in Nat
      /\ l \in Nat /\ Sizes[l] \in Nat \ {0}
      /\ Served(map, l, Core(l), Good(l))
  <2>1. k \in DOMAIN map
    BY SettledParts
  <2>. QED
    BY <2>1, SettledParts, CoreParts, MapFields, LevelFields
<1>2. va \in Nat
  BY <1>1
<1>3. k \in Good(l)
  BY SettledParts
<1>4. PICK n \in DOMAIN Core(l) :
         InBlockOf(l, Core(l), n, va) /\ Serves(map[k], l, Core(l)[n])
  BY <1>1, <1>3 DEF Served
<1>. DEFINE s == Sizes[l]
            b == Core(l)[n]
            a == Core(l)[1].init
            f == FirstOf(l, n)
            z == b.size
<1>5. /\ a \in Nat /\ z \in Nat
      /\ f \in Nat /\ b.init = a + f * s
  <2>1. 1 \in DOMAIN Core(l)
    BY <1>4, CoreParts
  <2>. QED
    BY <2>1, CoreParts, Layout
<1>6. b.init <= va /\ va < b.init + z * s
  BY <1>4 DEF InBlockOf, BlockEnd
<1>. HIDE DEF s, a, f, z, b
<1>7. a + f * s <= va /\ va < a + f * s + z * s /\ s \in Nat \ {0}
  BY <1>1, <1>5, <1>6 DEF s
<1>8. PICK j \in 0..(z - 1), r \in 0..(s - 1) :
         va = a + f * s + At(s, j, r) /\ (va - a) \div s = f + j
  <2>1. CountedFrom(a, f, s, z, va)
    BY <1>2, <1>5, <1>7, Offset
  <2>. QED
    BY <2>1 DEF CountedFrom
<1>9. Descriptor(l, f + j) = Chosen(l, n, j)
  BY BlockFound DEF f, z, b
<1>10. Fits(k, va, l, n, j, r)
  BY <1>4, <1>5, <1>8, <1>9 DEF Fits, s, a, b
<1>. QED
  BY <1>10 DEF z, s, b

\* The walk finds at each level, down to that of the region, the descriptor of the page.
LEMMA WalkFinds ==
    ASSUME Settled, NEW k \in 1..(entry - 1), Unbroken(map, k),
           NEW va \in map[k].from..(map[k].upto - 1), NEW l \in Levels, l <= map[k].lvl
    PROVE  Found(va, l) = Descriptor(l, (va - Core(l)[1].init) \div Sizes[l])
<1>. DEFINE Right(h) == Found(va, h) = Descriptor(h, (va - Core(h)[1].init) \div Sizes[h])
            S == {h \in Nat : h \in Levels /\ h <= map[k].lvl => Right(h)}
<1>1. /\ map \in Seq(Entries) /\ Ascending(map) /\ Len(map) \in Nat
      /\ DOMAIN map = 1..Len(map) /\ k \in 1..Len(map)
      /\ map[k].from \in Nat /\ map[k].upto \in Nat /\ map[k].lvl \in Nat
      /\ \A h \in Levels : h \in Nat /\ Sizes[h] \in Nat \ {0}
  <2>1. k \in DOMAIN map
    BY SettledParts
  <2>. QED
    BY <2>1, SettledParts, MapFields, LevelFields
<1>2. va \in Nat /\ \A h \in Levels : h <= map[k].lvl => Sound(map, h, k)
  <2>1. va \in Nat
    BY <1>1
  <2>2. \A h \in Levels : h <= map[k].lvl => h \in 0..map[k].lvl
    BY <1>1
  <2>. QED
    BY <2>1, <2>2 DEF Unbroken
<1>3. 0 \in S
  <2>1. SUFFICES ASSUME 0 \in Levels, 0 <= map[k].lvl PROVE Right(0)
    OBVIOUS
  <2>2. PICK n \in DOMAIN Core(0) : TRUE
    BY <1>2, <2>1, BlockAt
  <2>3. PICK h \in DOMAIN map : FirstAt(map, 0, h) /\ Core(0)[1].init = map[h].from
    <3>1. Seamless(map, 0, Core(0), Good(0)) /\ Good(0) \subseteq DOMAIN map
      BY <2>1, SettledParts, CoreParts
    <3>2. Core(0) # <<>>
      BY <2>2
    <3>. QED
      BY <3>1, <3>2 DEF Seamless
  <2>4. h = 1
    <3>1. 1 \in DOMAIN map /\ (h # 1 => 1 \in 1..(h - 1))
      BY <1>1
    <3>2. map[1].lvl \in Nat
      BY <1>1, <3>1, MapFields
    <3>. QED
      BY <2>3, <3>1, <3>2 DEF FirstAt
  <2>5. map[1].from = 0
    <3>1. Sound(map, 0, k) /\ 1 \in 1..k /\ 1 \in DOMAIN map
      BY <1>1, <1>2, <2>1
    <3>2. map[1].lvl >= 0 /\ ~GoesOn(map, 0, 1)
      <4>1. map[1].lvl \in Nat
        BY <1>1, <3>1, MapFields
      <4>. QED
        BY <4>1 DEF GoesOn
    <3>. QED
      BY <3>1, <3>2 DEF Sound, Begins
  <2>6. Found(va, 0) = Descriptor(0, Index(0, va))
    BY <2>1, FoundDef
  <2>7. Index(0, va) = va \div Sizes[0] /\ va - 0 = va
    BY <1>2 DEF Index
  <2>. QED
    BY <2>3, <2>4, <2>5, <2>6, <2>7
<1>4. ASSUME NEW h \in Nat, h \in S PROVE h + 1 \in S
  <2>1. SUFFICES ASSUME h + 1 \in Levels, h + 1 <= map[k].lvl PROVE Right(h + 1)
    BY <1>4
  <2>2. h \in Levels /\ h <= map[k].lvl /\ h # map[k].lvl
    <3>1. h \in Levels
      BY <2>1, LevelBelow
    <3>. QED
      BY <1>1, <2>1, <3>1
  <2>3. PICK n \in DOMAIN Core(h) :
           \E j \in 0..(Core(h)[n].size - 1), r \in 0..(Sizes[h] - 1) : Fits(k, va, h, n, j, r)
    BY <1>2, <2>2, BlockAt
  <2>4. PICK j \in 0..(Core(h)[n].size - 1), r \in 0..(Sizes[h] - 1) : Fits(k, va, h, n, j, r)
    BY <2>3
  <2>5. Found(va, h) = Chosen(h, n, j)
    BY <1>4, <2>2, <2>4 DEF Fits
  <2>6. ~Core(h)[n].terminal
    BY <2>2, <2>4 DEF Fits, Serves
  <2>7. Core(h + 1) # <<>>
    <3>1. PICK i \in DOMAIN Core(h + 1) : TRUE
      BY <1>2, <2>1, BlockAt
    <3>. QED
      BY <3>1
  <2>8. TableSymbol(h, n) = 1 /\ Core(h + 1)[1].init = Core(h)[n].init
    <3>1. Core(h)[n].init <= va
      <4>. DEFINE x == Sizes[h] * j
                  a == Core(h)[n].init
      <4>1. a \in Nat /\ x \in Nat /\ r \in Nat
        <5>1. a \in Nat /\ Core(h)[n].size \in Nat /\ Sizes[h] \in Nat
          BY <1>1, <2>2, CoreParts
        <5>. QED
          BY <5>1
      <4>2. va = a + (x + r)
        BY <2>4 DEF Fits, At
      <4>. HIDE DEF x, a
      <4>3. a <= va
        BY <4>1, <4>2
      <4>. QED
        BY <4>3 DEF a
    <3>2. va < map[k].upto
      BY <1>1
    <3>3. Sound(map, h + 1, k)
      BY <1>2, <2>1
    <3>. QED
      BY <1>2, <2>1, <2>2, <2>6, <2>7, <3>1, <3>2, <3>3, OnePointing
  <2>9. FirstOf(h + 1, 1) = 0
    <3>1. \A x : FirstOf(x, 1) = 0
      BY FirstOfDef
    <3>. QED
      BY <3>1
  <2>10. Found(va, h) = [kind |-> "table", base |-> 0 + j * Ratio(h)]
    BY <2>5, <2>6, <2>8, <2>9 DEF Chosen
  <2>11. Found(va, h + 1) = Beyond(Found(va, h), h + 1, va)
    <3>1. h + 1 # 0 /\ (h + 1) - 1 = h
      OBVIOUS
    <3>. QED
      BY <2>1, <3>1, FoundDef
  <2>. DEFINE i == ((0 + j * Ratio(h)) \div Ratio(h)) * Ratio(h) + Index(h + 1, va)
  <2>12. Found(va, h + 1) = Descriptor(h + 1, i)
    <3>1. (h + 1) - 1 = h
      OBVIOUS
    <3>. QED
      BY <2>10, <2>11, <3>1 DEF Beyond
  <2>13. i = (va - Core(h + 1)[1].init) \div Sizes[h + 1]
    <3>. DEFINE s == Sizes[h + 1]
                t == Sizes[h]
                a == Core(h)[n].init
    <3>1. s \in Nat \ {0} /\ t \in Nat \ {0} /\ a \in Nat /\ j \in Nat
      <4>1. s \in Nat \ {0} /\ t \in Nat \ {0}
        BY <1>1, <2>1, <2>2
      <4>2. a \in Nat /\ Core(h)[n].size \in Nat
        BY <2>2, CoreParts
      <4>. QED
        BY <4>1, <4>2
    <3>2. t % s = 0
      <4>1. Sizes[(h + 1) - 1] % Sizes[h + 1] = 0
        <5>1. h + 1 > 0
          OBVIOUS
        <5>. QED
          BY <2>1, <5>1, MapAssumption
      <4>2. (h + 1) - 1 = h
        OBVIOUS
      <4>. QED
        BY <4>1, <4>2
    <3>3. a % t = 0
      BY <2>2, CoreParts DEF Seamless
    <3>4. Ratio(h) = t \div s /\ Index(h + 1, va) = (va % t) \div s
      <4>1. h + 1 # 0 /\ (h + 1) - 1 = h
        OBVIOUS
      <4>. QED
        BY <4>1 DEF Ratio, Index
    <3>5. r \in 0..(t - 1) /\ va = a + At(t, j, r)
      BY <2>4 DEF Fits
    <3>. HIDE DEF s, t, a
    <3>6. SameIndex(s, t, a, j, va)
      BY <3>1, <3>2, <3>3, <3>5, NextIndex
    <3>7. i = (va - a) \div s
      BY <3>4, <3>6 DEF SameIndex
    <3>. QED
      BY <2>8, <3>7 DEF a, s
  <2>. HIDE DEF i
  <2>. QED
    BY <2>12, <2>13
<1>. HIDE DEF S
<1>5. Nat \subseteq S
  BY <1>3, <1>4, Induction
<1>6. l \in S
  BY <1>1, <1>5
<1>. QED
  BY <1>6 DEF S

\* The walk ends with the descriptor of a page of the region, at the level of the region.
LEMMA WalkEnds ==
    ASSUME Settled, NEW k \in 1..(entry - 1), Unbroken(map, k),
           NEW va \in map[k].from..(map[k].upto - 1), NEW l, l = map[k].lvl
    PROVE  \E n \in DOMAIN Core(l) :
              \E j \in 0..(Core(l)[n].size - 1), r \in 0..(Sizes[l] - 1) :
                 /\ Fits(k, va, l, n, j, r) /\ Core(l)[n].terminal
                 /\ Found(va, NumLvls - 1) = Chosen(l, n, j)
<1>1. l \in Levels /\ l \in Nat /\ l <= map[k].lvl /\ Sound(map, l, k)
  <2>1. k \in DOMAIN map
    BY SettledParts
  <2>2. l \in Levels /\ l \in Nat
    BY <2>1, SettledParts, MapFields
  <2>3. l \in 0..map[k].lvl
    BY <2>2
  <2>. QED
    BY <2>2, <2>3 DEF Unbroken
<1>2. PICK n \in DOMAIN Core(l) :
         \E j \in 0..(Core(l)[n].size - 1), r \in 0..(Sizes[l] - 1) : Fits(k, va, l, n, j, r)
  BY <1>1, BlockAt
<1>3. PICK j \in 0..(Core(l)[n].size - 1), r \in 0..(Sizes[l] - 1) : Fits(k, va, l, n, j, r)
  BY <1>2
<1>4. Core(l)[n].terminal
  BY <1>3 DEF Fits, Serves
<1>5. Found(va, l) = Chosen(l, n, j)
  BY <1>1, <1>3, WalkFinds DEF Fits
<1>6. Found(va, l).kind = "page"
  BY <1>4, <1>5 DEF Chosen
<1>. DEFINE S == {d \in Nat : l + d \in Levels => Found(va, l + d) = Found(va, l)}
<1>7. 0 \in S
  BY <1>1
<1>8. ASSUME NEW d \in Nat, d \in S PROVE d + 1 \in S
  <2>1. SUFFICES ASSUME l + (d + 1) \in Levels PROVE Found(va, l + (d + 1)) = Found(va, l)
    OBVIOUS
  <2>. DEFINE h == l + (d + 1)
  <2>2. h - 1 = l + d /\ l + d \in Levels /\ h # 0
    <3>1. l + d \in Nat /\ (l + d) + 1 = l + (d + 1) /\ h - 1 = l + d /\ h # 0
      BY <1>1
    <3>2. l + d \in Levels
      BY <2>1, <3>1, LevelBelow
    <3>. QED
      BY <3>1, <3>2
  <2>3. Found(va, h - 1) = Found(va, l)
    BY <1>8, <2>2
  <2>4. Found(va, h) = Beyond(Found(va, h - 1), h, va)
    BY <2>1, <2>2, FoundDef
  <2>. QED
    BY <1>6, <2>3, <2>4 DEF Beyond
<1>. HIDE DEF S
<1>9. Nat \subseteq S
  BY <1>7, <1>8, Induction
<1>10. Found(va, NumLvls - 1) = Found(va, l)
  <2>1. NumLvls - 1 \in Levels /\ (NumLvls - 1) - l \in Nat
        /\ l + ((NumLvls - 1) - l) = NumLvls - 1
    BY <1>1, MapAssumption DEF Levels
  <2>2. (NumLvls - 1) - l \in S
    BY <1>9, <2>1
  <2>. QED
    BY <2>1, <2>2 DEF S
<1>. QED
  BY <1>3, <1>4, <1>5, <1>10

\* The page of a block that the descriptor stands for begins below va.
LEMMA PageBegins ==
    ASSUME NEW s \in Nat \ {0}, NEW a \in Nat, a % s = 0, NEW j \in Nat,
           NEW r \in 0..(s - 1), NEW va, va = a + At(s, j, r)
    PROVE  (a + j * s) + (va % s) = va
<1>1. va % s = r
  BY Shifted
<1>2. va = a + (s * j + r) /\ s * j \in Nat /\ s * j = j * s
  BY DEF At
<1>. QED
  BY <1>1, <1>2

\* Where the page va of region k is mapped to: page b.init + ColourPlace(b, va - b.init)
\* of a block that is the region if it is coloured, else itself.
MappedBy(k, va, b) ==
    LET t == Translate(va)
    IN  /\ b \in Blocks /\ t.kind = "page" /\ t.attr = map[k].attr
        /\ ~(coloring /\ map[k].cc) => t.page = va
        /\ coloring /\ map[k].cc =>
              /\ StridesFit
              /\ b.init = map[k].from /\ b.init + b.size = map[k].upto
              /\ b.init % Period = 0 /\ b.size % Period = 0
              /\ va - b.init \in 0..(b.size - 1)
              /\ t.page = b.init + ColourPlace(b, va - b.init)

LEMMA Mapped ==
    ASSUME Settled, NEW k \in 1..(entry - 1), Unbroken(map, k),
           NEW va \in map[k].from..(map[k].upto - 1)
    PROVE  \E b : MappedBy(k, va, b)
<1>. DEFINE l == map[k].lvl
            s == Sizes[l]
<1>1. PICK n \in DOMAIN Core(l) :
         \E j \in 0..(Core(l)[n].size - 1), r \in 0..(Sizes[l] - 1) :
            /\ Fits(k, va, l, n, j, r) /\ Core(l)[n].terminal
            /\ Found(va, NumLvls - 1) = Chosen(l, n, j)
  BY WalkEnds
<1>2. PICK j \in 0..(Core(l)[n].size - 1), r \in 0..(s - 1) :
         /\ Fits(k, va, l, n, j, r) /\ Core(l)[n].terminal
         /\ Found(va, NumLvls - 1) = Chosen(l, n, j)
  BY <1>1
<1>. DEFINE b == Core(l)[n]
            t == Translate(va)
<1>3. /\ l \in Levels /\ s \in Nat \ {0}
      /\ b \in Blocks /\ b.init \in Nat /\ b.size \in Nat /\ b.init % s = 0
      /\ map[k].from \in Nat /\ map[k].upto \in Nat
  <2>0. k \in DOMAIN map
    BY SettledParts
  <2>1. l \in Levels /\ map[k].from \in Nat /\ map[k].upto \in Nat
    BY <2>0, SettledParts, MapFields
  <2>2. s \in Nat \ {0} /\ b \in Blocks /\ b.init \in Nat /\ b.size \in Nat
    BY <2>1, CoreParts, LevelFields
  <2>3. b.init % s = 0
    BY <2>1, CoreParts DEF Seamless
  <2>. QED
    BY <2>1, <2>2, <2>3
<1>4. j \in Nat /\ va \in Nat /\ j \in 0..(b.size - 1)
  BY <1>3
<1>5. b.attr = map[k].attr /\ b.cc = map[k].cc /\ va = b.init + At(s, j, r)
  BY <1>2 DEF Fits, Serves
<1>6. t = [kind |-> "page", attr |-> b.attr,
           page |-> (b.init + Place(b, j) * s) + (va % s)]
  <2>1. Found(va, NumLvls - 1) = [kind |-> "page", attr |-> b.attr, size |-> s,
                                  base |-> b.init + Place(b, j) * s]
    BY <1>2 DEF Chosen
  <2>. HIDE DEF b, s
  <2>. QED
    BY <2>1 DEF Translate
<1>7. ASSUME ~(coloring /\ map[k].cc)
      PROVE  t.page = va
  <2>1. Place(b, j) = j
    BY <1>5, <1>7 DEF Place, Coloured
  <2>2. (b.init + j * s) + (va % s) = va
    <3>. DEFINE a == b.init
    <3>. HIDE DEF b, s, l
    <3>1. s \in Nat \ {0} /\ a \in Nat /\ a % s = 0 /\ j \in Nat
      BY <1>3, <1>4
    <3>2. r \in 0..(s - 1) /\ va = a + At(s, j, r)
      BY <1>5
    <3>. HIDE DEF a
    <3>3. (a + j * s) + (va % s) = va
      BY <3>1, <3>2, PageBegins
    <3>. QED
      BY <3>3 DEF a
  <2>. QED
    BY <1>6, <2>1, <2>2
<1>8. ASSUME coloring /\ map[k].cc
      PROVE  /\ StridesFit
             /\ b.init = map[k].from /\ b.init + b.size = map[k].upto
             /\ b.init % Period = 0 /\ b.size % Period = 0
             /\ va - b.init \in 0..(b.size - 1)
             /\ t.page = b.init + ColourPlace(b, va - b.init)
  <2>0. /\ StridesFit /\ s = 1
        /\ b.init % Period = 0 /\ b.size % Period = 0
        /\ \E h \in DOMAIN map :
              /\ map[h].lvl = l /\ map[h].cc /\ b.init = map[h].from
              /\ b.init + b.size = map[h].upto
    <3>1. b.terminal /\ b.cc
      BY <1>2, <1>5, <1>8, Zenon
    <3>2. b = Core(l)[n] /\ n \in DOMAIN Core(l) /\ l \in Levels /\ s = Sizes[l]
      BY <1>1, <1>3
    <3>. HIDE DEF b, l, s
    <3>. QED
      BY <3>1, <3>2, ColouredBlock
  <2>1. PICK h \in DOMAIN map : b.init = map[h].from /\ b.init + b.size = map[h].upto
    BY <2>0
  <2>2. StridesFit /\ s = 1 /\ b.init % Period = 0 /\ b.size % Period = 0
    BY <2>0
  <2>3. va = b.init + j /\ va % s = 0 /\ va - b.init = j
    <3>1. r = 0 /\ s * j = j
      BY <1>4, <2>2
    <3>. HIDE DEF s
    <3>2. va = b.init + (s * j + r)
      BY <1>5 DEF At
    <3>. HIDE DEF b
    <3>3. va = b.init + j
      <4>1. va = b.init + (j + 0)
        BY <3>1, <3>2
      <4>. QED
        BY <1>3, <1>4, <4>1
    <3>. QED
      BY <1>3, <1>4, <2>2, <3>3
  <2>4. h = k
    <3>1. /\ k \in DOMAIN map
          /\ \A x, y \in DOMAIN map : x < y => map[x].upto <= map[y].from
      BY SettledParts DEF Ascending
    <3>2. map[h].from <= va /\ va < map[h].upto
      BY <1>3, <1>4, <2>1, <2>3
    <3>3. map[k].from <= va /\ va < map[k].upto
      BY <1>3
    <3>4. /\ h \in Nat /\ k \in Nat
          /\ map[h].from \in Nat /\ map[h].upto \in Nat
      <4>1. map \in Seq(Entries) /\ Ascending(map)
        BY SettledParts
      <4>2. DOMAIN map = 1..Len(map) /\ Len(map) \in Nat
        BY <4>1
      <4>. QED
        BY <2>1, <3>1, <4>1, <4>2, MapFields
    <3>5. ~(h < k) /\ ~(k < h)
      BY <1>3, <1>4, <2>1, <3>1, <3>2, <3>3, <3>4
    <3>. QED
      BY <3>4, <3>5
  <2>5. Place(b, j) = ColourPlace(b, j)
    BY <1>2, <1>5, <1>8 DEF Place, Coloured
  <2>6. StridesFit /\ ColourPlace(b, j) \in Nat
    <3>1. Contiguous = NumCores
      BY <2>2 DEF StridesFit
    <3>2. ColourPlace(b, j) \in 0..(b.size - 1)
      BY <1>3, <1>4, <2>2, <3>1, ColoursFillBlock
    <3>. QED
      BY <2>2, <3>2, <1>3
  <2>7. t.page = b.init + ColourPlace(b, j)
    <3>1. t.page = (b.init + ColourPlace(b, j) * 1) + 0
      BY <1>6, <2>2, <2>3, <2>5
    <3>. HIDE DEF b
    <3>. QED
      BY <1>3, <2>6, <3>1
  <2>. QED
    BY <1>4, <2>1, <2>2, <2>3, <2>4, <2>7
<1>9. MappedBy(k, va, b)
  <2>1. t.kind = "page" /\ t.attr = map[k].attr /\ b \in Blocks
    BY <1>3, <1>5, <1>6
  <2>. HIDE DEF b, t
  <2>. QED
    BY <1>7, <1>8, <2>1 DEF MappedBy, t
<1>. QED
  BY <1>9

\* Every address of an unbroken region is translated as the region says, whatever the rest
\* of the map is like: the tables that mmu_gen.c writes, walked by the processor from level
\* 0, map each page with the attributes of its region, to itself or, if coloured, to a page
\* of the region; and no region up to which the map is unbroken is refused.
THEOREM RegionsAreMapped == Spec => []RegionsMapped
<1>1. MapInv /\ UnbrokenInv => RegionsMapped
  <2>. SUFFICES ASSUME MapInv, UnbrokenInv, Generated, ColoursFit(map),
                       NEW k \in 1..(entry - 1), Unbroken(map, k),
                       NEW va \in map[k].from..(map[k].upto - 1)
                PROVE  InRegion(map[k], va)
    BY DEF RegionsMapped, UnbrokenInv
  <2>1. Settled
    BY DEF Settled, UnbrokenInv
  <2>2. PICK b : MappedBy(k, va, b)
    BY <2>1, Mapped
  <2>. DEFINE t == Translate(va)
  <2>3. t.kind = "page" /\ t.attr = map[k].attr
    BY <2>2 DEF MappedBy
  <2>4. ~(coloring /\ map[k].cc) => t.page = va
    BY <2>2 DEF MappedBy
  <2>5. ASSUME coloring /\ map[k].cc
        PROVE  t.page \in map[k].from..(map[k].upto - 1)
    <3>1. /\ b \in Blocks /\ Contiguous = NumCores
          /\ b.init = map[k].from /\ b.init + b.size = map[k].upto
          /\ b.size % Period = 0
          /\ va - b.init \in 0..(b.size - 1)
          /\ t.page = b.init + ColourPlace(b, va - b.init)
      BY <2>2, <2>5 DEF MappedBy, StridesFit
    <3>2. ColourPlace(b, va - b.init) \in 0..(b.size - 1)
      BY <3>1, ColoursFillBlock
    <3>3. b.init \in Nat /\ b.size \in Nat
      BY <3>1 DEF Blocks
    <3>. HIDE DEF t
    <3>. QED
      BY <3>1, <3>2, <3>3
  <2>. QED
    BY <2>3, <2>4, <2>5 DEF InRegion
<1>. QED
  BY <1>1, MapInvariant, UnbrokenInvariant, PTL

LEMMA SumProduct ==
    ASSUME NEW x \in Nat, NEW y \in Nat, NEW h \in Nat
    PROVE  (x + y) * h = x * h + y * h /\ x * h \in Nat /\ y * h \in Nat
OBVIOUS

LEMMA NextProduct ==
    ASSUME NEW c \in Nat, NEW n \in Nat, c + 1 <= n, NEW h \in Nat
    PROVE  /\ c * h \in Nat /\ (c + 1) * h = c * h + h /\ h * c = c * h
           /\ (c + 1) * h <= n * h
<1>. DEFINE x == c + 1
            d == n - x
<1>1. x \in Nat /\ d \in Nat /\ x + d = n
  OBVIOUS
<1>2. c * h \in Nat /\ h * c = c * h /\ (c + 1) * h = c * h + h
  OBVIOUS
<1>. HIDE DEF x, d
<1>3. n * h = x * h + d * h /\ x * h \in Nat /\ d * h \in Nat
  BY <1>1, SumProduct
<1>4. x * h <= n * h
  BY <1>3
<1>. QED
  BY <1>2, <1>4 DEF x

\* Where page va of the slice of core c is, in a region of z pages from page f on.
Sliced(f, z, c, va) ==
    va - f \in 0..(z - 1) /\ (va - f) \div (z \div NumCores) = c

\* It is in the region, and page r of the share of core c, of h pages.
InShare(f, z, h, c, va) ==
    /\ h \in Nat \ {0} /\ va \in f..(f + z - 1) /\ va - f \in 0..(z - 1)
    /\ \E r \in 0..(h - 1) : va - f = At(h, c, r)

LEMMA SlicePart ==
    ASSUME NEW N \in Nat \ {0}, NEW f \in Nat, NEW z \in Nat, NEW h, h = z \div N,
           NEW c \in 0..(N - 1), NEW va \in (f + c * h)..(f + (c + 1) * h - 1)
    PROVE  InShare(f, z, h, c, va)
<1>1. h \in Nat /\ z % N \in 0..(N - 1) /\ z = N * h + (z % N)
  BY Divided
<1>2. N * h \in Nat /\ N * h <= z
  BY <1>1
<1>3. /\ c \in Nat /\ c * h \in Nat /\ (c + 1) * h = c * h + h /\ h * c = c * h
      /\ (c + 1) * h <= N * h
  <2>1. c \in Nat /\ N \in Nat /\ c + 1 <= N
    OBVIOUS
  <2>. QED
    BY <1>1, <2>1, NextProduct
<1>4. va \in Int /\ f + c * h <= va /\ va <= f + (c * h + h) - 1
  BY <1>1, <1>3
<1>5. va - f - c * h \in 0..(h - 1) /\ h # 0
  BY <1>1, <1>3, <1>4
<1>6. va - f = At(h, c, va - f - c * h)
  BY <1>3, <1>4 DEF At
<1>7. va - f \in 0..(z - 1) /\ va \in f..(f + z - 1)
  BY <1>2, <1>3, <1>4
<1>. QED
  BY <1>1, <1>5, <1>6, <1>7 DEF InShare

\* The pages of a region that are linked to core c are in the slice of core c.
LEMMA SliceSliced ==
    ASSUME NEW e, e.from \in Nat, e.upto \in Nat, e.from < e.upto,
           NEW c \in 0..(NumCores - 1), NEW va \in Slice(e, c)
    PROVE  va \in e.from..(e.upto - 1) /\ Sliced(e.from, e.upto - e.from, c, va)
<1>. DEFINE N == NumCores
            f == e.from
            z == e.upto - e.from
            h == z \div N
<1>1. N \in Nat \ {0} /\ f \in Nat /\ z \in Nat
  BY MapAssumption
<1>2. va \in (f + c * h)..(f + (c + 1) * h - 1) /\ c \in 0..(N - 1)
  BY DEF Slice
<1>. HIDE DEF N, f, z
<1>3. InShare(f, z, h, c, va)
  BY <1>1, <1>2, SlicePart
<1>. HIDE DEF h
<1>4. PICK r \in 0..(h - 1) : va - f = At(h, c, r)
  BY <1>3 DEF InShare
<1>5. va \in f..(f + z - 1) /\ va - f \in 0..(z - 1) /\ h \in Nat \ {0} /\ c \in Int
  BY <1>1, <1>2, <1>3 DEF InShare
<1>6. At(h, c, r) \div h = c
  BY <1>5, AtParts
<1>7. (va - f) \div h = c
  BY <1>4, <1>6
<1>8. Sliced(f, z, c, va)
  BY <1>5, <1>7 DEF Sliced, h, N
<1>9. f + z = e.upto
  BY DEF f, z
<1>. QED
  BY <1>5, <1>8, <1>9 DEF f, z

\* A cache whose ways have no full page leaves one contiguous page.
LEMMA OnePage ==
    ASSUME NEW k \in Sharing, Caches[k].way = 0
    PROVE  Contiguous = 1
<1>. DEFINE S == {WayPages(i) : i \in Sharing}
            c == CHOOSE x \in S : \A y \in S : x =< y
<1>1. 1 \in S /\ S \subseteq Nat \ {0}
  BY WayPagesPositive
<1>2. Contiguous = Min(S)
  BY DEF Contiguous, WayPages
<1>. HIDE DEF S
<1>3. c \in S /\ \A y \in S : c =< y
  <2>1. ASSUME NEW y \in S PROVE 1 =< y
    <3>1. y \in Nat \ {0}
      BY <1>1
    <3>. HIDE DEF c
    <3>. QED
      BY <3>1
  <2>2. \E x \in S : \A y \in S : x =< y
    BY <1>1, <2>1
  <2>. QED
    BY <2>2, Zenon
<1>4. Min(S) = c
  BY DEF Min
<1>. HIDE DEF c
<1>. QED
  BY <1>1, <1>2, <1>3, <1>4

\* No two cores share a set of a cache: the pages of an unbroken region that are linked to
\* different cores are mapped to different sets of every cache that the cores share.
THEOREM ColoursStayApart == Spec => []ColoursApart
<1>1. MapInv /\ UnbrokenInv => ColoursApart
  <2>. SUFFICES ASSUME MapInv, UnbrokenInv, Generated, ColoursFit(map), coloring,
                       NEW k \in 1..(entry - 1), map[k].cc, Unbroken(map, k),
                       NEW c \in 0..(NumCores - 1), NEW d \in 0..(NumCores - 1), c # d,
                       NEW va \in Slice(map[k], c), NEW wa \in Slice(map[k], d),
                       NEW q \in Sharing
                PROVE  ~SameSets(q, Translate(va).page, Translate(wa).page)
    BY DEF ColoursApart
  <2>. DEFINE e == map[k]
              f == e.from
              z == e.upto - e.from
  <2>1. Settled
    BY DEF Settled, UnbrokenInv
  <2>2. /\ e.from \in Nat /\ e.upto \in Nat /\ e.from < e.upto
    <3>1. k \in DOMAIN map
      BY <2>1, SettledParts
    <3>. QED
      BY <2>1, <3>1, SettledParts, MapFields
  <2>3. /\ va \in e.from..(e.upto - 1) /\ Sliced(f, z, c, va)
        /\ wa \in e.from..(e.upto - 1) /\ Sliced(f, z, d, wa)
    BY <2>2, SliceSliced
  <2>4. PICK b : MappedBy(k, va, b)
    BY <2>1, <2>3, Mapped
  <2>5. PICK g : MappedBy(k, wa, g)
    BY <2>1, <2>3, Mapped
  <2>6. /\ StridesFit /\ b \in Blocks
        /\ b.init = f /\ b.init + b.size = e.upto
        /\ b.init % Period = 0 /\ b.size % Period = 0
        /\ Translate(va).page = b.init + ColourPlace(b, va - b.init)
    BY <2>4 DEF MappedBy
  <2>7. /\ g \in Blocks /\ g.init = f /\ g.init + g.size = e.upto
        /\ Translate(wa).page = g.init + ColourPlace(g, wa - g.init)
    BY <2>5 DEF MappedBy
  <2>8. b.size = z /\ g.size = z
    <3>1. b.size \in Nat /\ g.size \in Nat
      BY <2>6, <2>7 DEF Blocks
    <3>. QED
      BY <2>2, <2>6, <2>7, <3>1
  <2>9. \A j : ColourPlace(g, j) = ColourPlace(b, j)
    BY <2>8 DEF ColourPlace
  <2>10. /\ va - f \in 0..(b.size - 1) /\ wa - f \in 0..(b.size - 1)
         /\ (va - f) \div (b.size \div NumCores) # (wa - f) \div (b.size \div NumCores)
    BY <2>3, <2>8 DEF Sliced
  <2>11. Caches[q].way # 0
    <3>1. SUFFICES ASSUME Caches[q].way = 0 PROVE FALSE
      OBVIOUS
    <3>2. NumCores = 1
      BY <2>6, <3>1, OnePage DEF StridesFit
    <3>. QED
      BY <3>2
  <2>12. ~SameSets(q, b.init + ColourPlace(b, va - f), b.init + ColourPlace(b, wa - f))
    BY <2>6, <2>10, <2>11, ColoursNeverMeet
  <2>. QED
    BY <2>6, <2>7, <2>9, <2>12
<1>. QED
  BY <1>1, MapInvariant, UnbrokenInvariant, PTL
==============================================================================
