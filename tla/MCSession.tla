------------------------------- MODULE MCSession -------------------------------
\* Two architectures with as many cores, two stages and two files each.
EXTENDS Session

TwoArchs == {"rpi4b", "zcu"}
OneArch == {"rpi4b"}
TwoConfigs == {"c1", "c2"}
OneConfig == {"c1"}

TwoStages == [a \in {"rpi4b", "zcu"} |-> <<<<a, "bsp">>, <<a, "cores">>>>]
TwoFiles == [a \in {"rpi4b", "zcu"} |-> <<<<a, "start">>, <<a, "kernel">>>>]
CoredStages == [s \in TwoArchs \X {"bsp", "cores"} |-> IF s[2] = "cores" THEN 2 ELSE 0]
TwoCores == [a \in TwoArchs |-> 2]
==============================================================================
