----------------------------- MODULE MCItemCache -----------------------------
(* Two readers and a writer, so that a fill and an invalidation can cross. *)
EXTENDS ItemCache, TLC

MCTasks == Readers \cup Writers
MCValues == 1 .. MaxVersion
MCSymmetry == Permutations(Readers)
=============================================================================
