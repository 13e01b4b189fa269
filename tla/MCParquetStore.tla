-------------------------- MODULE MCParquetStore --------------------------
(* Two rows with one key and a third with another; the second partition has *)
(* one row.                                                                 *)
EXTENDS ParquetStore

MCPartitionOf == <<1, 1, 2>>
MCKeyOf == <<2, 2, 1>>
MCPreferOf == <<2, 1, 1>>
MCClock == {1, 3}
Symmetric == Permutations(Threads)
=============================================================================
