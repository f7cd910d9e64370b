------------------------- MODULE MCTranscriptSync -------------------------
(* TranscriptSync on small instances. *)
EXTENDS TranscriptSync, TLC

\* Turns, cells and notifications are interchangeable; with Repeats, only the
\* turns within it.
Symmetry == Permutations(Turns) \cup Permutations(Cells) \cup Permutations(Notes)
CellSymmetry == Permutations(Cells)
============================================================================
