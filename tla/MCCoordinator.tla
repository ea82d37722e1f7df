---------------------------- MODULE MCCoordinator ----------------------------
EXTENDS Coordinator, TLC
RegionSymmetry == Permutations(Regions)
==============================================================================
