--------------------------- MODULE MCThreadSpawn ---------------------------
EXTENDS ThreadSpawn

BothFlags == SUBSET {"parent_settid", "child_cleartid"}
=============================================================================
