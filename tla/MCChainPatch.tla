---------------------------- MODULE MCChainPatch ----------------------------
EXTENDS ChainPatch

\* Of one or two instructions, of either size in either place.
Load(len, seconds) == [len |-> len, seconds |-> seconds]
SmallLoads == {Load(2, {}), Load(2, {2}), Load(3, {3})}
AnyLoads == [trueval |-> SmallLoads \cup {Load(1, {})}, falseval |-> SmallLoads]

\* On either side of the limits of c.beqz, c.j, the branch and the jump.
NearJumps == {-65, -513, -1024, -1025, -1026, 60, 63, 514, 1023, 1024, 60000, 262144}
\* Beyond the reach of a jump, with and without a low part.
FarJumps == {-262150, 1048577, 1048579}
AllJumps == [trueval |-> FarJumps \cup {-509, 60, 60000, 262144},
             falseval |-> FarJumps \cup NearJumps]

\* The load of an address like 0x10000, a C.LUI, behind one of two instructions
\* of full size.
OneShort == [trueval |-> {Load(4, {2, 4})}, falseval |-> {Load(1, {})}]
=============================================================================
