----------------------------- MODULE MCMemoryMap -----------------------------
\* All ascending maps of up to three regions over a few boundaries, and of four
\* without a gap, and those of the boards in small, with three levels.
EXTENDS MemoryMap

Entry(from, upto, lvl, attr, cc) ==
    [from |-> from, upto |-> upto, lvl |-> lvl, attr |-> attr, cc |-> cc]

SmallSizes == (0 :> 16) @@ (1 :> 4) @@ (2 :> 1)
TwoColours == <<[way |-> 4, shared |-> 2]>>

Bounds == {0, 2, 4, 8, 16, 32}
Kinds == {<<0, "DEVICE", FALSE>>, <<1, "MEMORY", FALSE>>, <<1, "DEVICE", FALSE>>,
          <<2, "MEMORY", FALSE>>, <<2, "DEVICE", FALSE>>, <<2, "MEMORY", TRUE>>}
SmallEntries ==
    {Entry(r[1], r[2], k[1], k[2], k[3]) :
        r \in {r \in Bounds \X Bounds : r[1] < r[2]}, k \in Kinds}
Longer(maps) ==
    UNION {{Append(m, e) : e \in {e \in SmallEntries : m[Len(m)].upto <= e.from}} :
              m \in maps}
One == {<<e>> : e \in SmallEntries}
Adjoining(maps) ==
    UNION {{Append(m, e) : e \in {e \in SmallEntries : m[Len(m)].upto = e.from}} :
              m \in maps}
FromZero == {m \in One : m[1].from = 0}

\* The maps of rpi4b and of the Zynq boards in small, each with its gap.
PiLike ==
    <<Entry(0, 2, 2, "SHARED", FALSE), Entry(2, 3, 2, "MEMORY", FALSE),
      Entry(4, 16, 2, "MEMORY", TRUE), Entry(16, 24, 1, "MEMORY", FALSE),
      Entry(24, 32, 1, "DEVICE", FALSE), Entry(32, 64, 0, "DEVICE", FALSE)>>
ZynqLike ==
    <<Entry(0, 5, 1, "MEMORY", FALSE), Entry(5, 8, 1, "MEMORY", FALSE),
      Entry(8, 16, 2, "MEMORY", TRUE), Entry(16, 20, 1, "DEVICE", FALSE),
      Entry(20, 24, 1, "RESERVED", FALSE), Entry(32, 48, 0, "RESERVED", FALSE),
      Entry(80, 96, 0, "DEVICE", FALSE)>>
SmallMaps == {PiLike, ZynqLike}
             \cup One \cup Longer(One) \cup Longer(Longer(One))
             \cup Adjoining(Adjoining(Adjoining(FromZero)))
==============================================================================
