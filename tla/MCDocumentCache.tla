-------------------------- MODULE MCDocumentCache --------------------------
(* DocumentCache for TLC: the goroutines of the pool are interchangeable,   *)
(* and so are the files.                                                    *)
EXTENDS DocumentCache, TLC

Symmetry == Permutations(Pool) \union Permutations(Files)

\* All but the text the editor sent last, which is history.
ButEditor == <<cache, store, config, disk, client, runs, pc, task, starts, writes>>
=============================================================================
