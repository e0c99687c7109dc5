--------------------------- MODULE MCSnapshotView ---------------------------
(* One client, two opponents who are interchangeable. *)
EXTENDS SnapshotView, TLC

Interchangeable == Permutations(Players \ {Me})

=============================================================================
