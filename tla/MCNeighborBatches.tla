-------------------------- MODULE MCNeighborBatches --------------------------
EXTENDS NeighborBatches

\* Three changes of one cell: the batches of different cells share nothing.
CONSTANT x
MCCellOf == [ch \in Changes |-> x]
=============================================================================
