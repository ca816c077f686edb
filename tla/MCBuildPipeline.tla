--------------------------- MODULE MCBuildPipeline ---------------------------
\* The shape of src/arch/rpi4b/project/build.json on three components: a bsp
\* stage, then a deploy instance without ids beside the cores' instances.
EXTENDS BuildPipeline

TwoStages == <<<<{0}>>, <<{}, {0, 1}, {0, 2}>>>>
==============================================================================
