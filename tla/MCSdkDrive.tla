----------------------------- MODULE MCSdkDrive -----------------------------
EXTENDS SdkDrive, TLC

\* The files a path may name are told apart by nothing.
FileSymmetry == Permutations(Inodes)
=============================================================================
