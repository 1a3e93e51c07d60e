-------------------------- MODULE MCServicesLease --------------------------
EXTENDS ServicesLease, TLC

\* Numbers are only compared, and the engines run one program.
Alike == Permutations(Inodes) \cup Permutations(Engines)
=============================================================================
