----------------------------- MODULE MCPsTree ------------------------------
\* PsTree for TLC: what the command line may ask for.
EXTENDS PsTree
Numeric == <<"n">>
Default == <<"name">>
=============================================================================
