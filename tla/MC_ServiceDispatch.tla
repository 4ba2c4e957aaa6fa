------------------------- MODULE MC_ServiceDispatch -------------------------
EXTENDS ServiceDispatch, TLC

\* The default HashProcessor of ServiceBase returns -1 for every message:
\* session 1 goes to thread 1 % 2 = 1, the application (no session) to the
\* home thread 0.
MC_HashOf == [p \in {0, 1} |-> -1]

\* An explicit routing: session 1 to thread 3 % 2 = 1, the application to
\* the home thread through 0.
MC_HashExplicit == (0 :> 0) @@ (1 :> 3)
=============================================================================
