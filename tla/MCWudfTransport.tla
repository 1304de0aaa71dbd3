--------------------------- MODULE MCWudfTransport ---------------------------
\* An instance of WudfTransport for model checking.
EXTENDS WudfTransport, TLC

MCSymmetry == Permutations(Requests) \cup Permutations(Hosts)
=============================================================================
