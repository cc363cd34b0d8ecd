----------------------------- MODULE MCRegSync -----------------------------
EXTENDS RegSync

\* One register of each kind that saving, restoring, passing and returning
\* distinguish.
OneOfEach ==
    {PC, RAX, RDX, X87Base, Zmm(0), Zmm(2), Zmm(8)}
    \cup {4, 8, 11, 29}               \* RBX, RDI, R10, X87_STS
=============================================================================
