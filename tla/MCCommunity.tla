------------------------------ MODULE MCCommunity ------------------------------
EXTENDS CommunityProperties, TLC

CONSTANT ann

MCCommands == (Kinds \ (Sweeps \cup {"extra boost"})) \X {ann}
MCKeep == [num |-> 1, den |-> 2]
MCBoost == [num |-> 5, den |-> 4]
MCPenalised == [num |-> 83, den |-> 100]
MCSymmetry == Permutations(Handlers)
=============================================================================
