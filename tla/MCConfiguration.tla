---------------------------- MODULE MCConfiguration ----------------------------
EXTENDS Configuration

\* The limits of arch/rpi4b/module/src/global.c, scaled down; WAYS stands for a
\* mitigation that is not a boolean, and STRIDE has no iSTEP.
Budget == [Unset EXCEPT !.low = 2, !.high = 7, !.step = 2]
Stride == [Unset EXCEPT !.low = 1, !.high = 3]
Ways == [Unset EXCEPT !.low = 0, !.high = 4, !.step = 1]
App == [Unset EXCEPT !.opts = <<"WRITE", "READ">>]

Comp(id, props) == [id |-> id, props |-> props]
CoreRules ==
    <<Prop("APP", "str", 0, {"O", "N"}, App), Prop("STRIDE", "int", 0, {"O", "N"}, Stride)>>
Pi == <<
    Comp(0, <<Prop("COLORING", "bool", 0, {"M"}, Unset),
              Prop("WAYS", "int", 0, {"M"}, Ways),
              Prop("BUDGET", "int", 0, {"O", "N"}, Budget)>>),
    Comp(1, CoreRules), Comp(2, CoreRules)>>

\* The files: a mitigation on or off, a value on the grid, off it or out of range, a
\* propriety of the wrong type, a flag the module forbids, a propriety missing or
\* unknown to the module, and the components in any order, the system left out or not.
Systems ==
    {Comp(0, <<Prop("COLORING", "bool", b, {"M"}, Unset)>> \o w \o
             <<Prop("BUDGET", "int", v, f, Unset)>>) :
        b \in {0, 1}, v \in {1, 3, 4, 7}, f \in {{}, {"O"}, {"O", "M"}},
        w \in {<<>>, <<Prop("WAYS", "int", 2, {"M"}, Unset)>>}}
    \cup {Comp(0, <<Prop("COLORING", "bool", 1, {"O"}, Unset)>>),
          Comp(0, <<Prop("BUDGET", "bool", 1, {}, Unset), Prop("NOTE", "int", 9, {}, Unset)>>),
          Comp(0, <<Prop("BUDGET", "int", 2, {"O", "N"}, Unset),
                    Prop("NOTE", "int", 9, {"N"}, Unset)>>)}
Core(id, app, a, s) ==
    Comp(id, <<Prop("STRIDE", "int", 2, s, Unset), Prop("APP", "str", app, a, Unset)>>)
Victims ==
    {Core(1, app, a, {}) : app \in {"WRITE", "READ", "IDLE"}, a \in {{}, {"O"}}}
    \cup {Core(1, "READ", {}, {"O"}), Comp(1, <<Prop("APP", "str", "READ", {}, Unset)>>)}
Attacker == Core(2, "WRITE", {"O"}, {})

UsualSystem ==
    Comp(0, <<Prop("COLORING", "bool", 1, {"M"}, Unset),
              Prop("BUDGET", "int", 4, {"O"}, Unset)>>)
UsualVictim == Core(1, "WRITE", {"O"}, {})

PiFiles ==
    UNION {{<<s, v>>, <<v, s>>, <<s, v, Attacker>>, <<Attacker, v>>, <<v>>,
            <<s, Attacker, v>>, <<s, Attacker>>} :
              <<s, v>> \in Systems \X {UsualVictim} \cup {UsualSystem} \X Victims}
==============================================================================
