---------------------------- MODULE MCCodeArena ----------------------------
EXTENDS CodeArena

\* an instruction, and a block that outgrows the first and the doubled size
AnyEmits == {20, 150}
=============================================================================
