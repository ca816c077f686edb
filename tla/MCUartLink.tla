------------------------------ MODULE MCUartLink ------------------------------
EXTENDS UartLink, TLC

\* The cores of src/arch/rpi4b/project/build.json: core c needs the component
\* 0, which is system wide, and the component c + 1.
CoreNeeds == [c \in 0..(Cores - 1) |-> {0, c + 1}]

\* A build.json whose first core takes two components, so that the second can
\* do without one and the loop over the cores still reaches the third.
SharedNeeds == <<{0, 4}, {0, 3}>> @@ (0 :> {0, 1, 2})

\* The table of the MMU, and the victim.
WithoutVictim == {-1, 0}

TwoIfPrompt == [sluggish \in BOOLEAN |-> IF sluggish THEN 1 ELSE 2]
Never == [sluggish \in BOOLEAN |-> 0]
==============================================================================
