----------------------- MODULE MCBenchmarkCatalogue ------------------------
(* BenchmarkCatalogue for TLC: three slugs; seedings are interchangeable.*)
EXTENDS BenchmarkCatalogue, TLC

Slugs == 1..3
Interchangeable == Permutations(Seeder)
=============================================================================
