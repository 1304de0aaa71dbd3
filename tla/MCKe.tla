-------------------------------- MODULE MCKe --------------------------------
\* Instances of Ke for model checking.
EXTENDS Ke, TLC

MCSymmetry == Permutations(Threads)
=============================================================================
