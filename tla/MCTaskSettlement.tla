-------------------------- MODULE MCTaskSettlement --------------------------
EXTENDS TaskSettlement, TLC

DeviceSymmetry == Permutations(Devices)
=============================================================================
