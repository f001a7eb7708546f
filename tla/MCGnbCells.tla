------------------------------ MODULE MCGnbCells ------------------------------
EXTENDS GnbCells, TLC

\* f1 has two cells, f2 has one, f3 has none.
CONSTANTS f1, f2, f3
MCCellCount == (f1 :> 2) @@ (f2 :> 1) @@ (f3 :> 0)
MCConfigs == {<<f1>>, <<f1, f2>>, <<f2, f1>>, <<f3, f1>>}
ReaderSymmetry == Permutations(Readers)
=============================================================================
