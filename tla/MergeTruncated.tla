--------------------------- MODULE MergeTruncated ---------------------------
(***************************************************************************)
(* The merge of MergeTopN beside the same merge over slices that hold only *)
(* their first N levels, which is what the parsers leave of a book.        *)
(***************************************************************************)
EXTENDS MergeTopN

\* A slice that holds only its first N levels.
Cut(tagged) == [tagged EXCEPT !.levels = SubSeq(@, 1,
                   IF Len(@) < N THEN Len(@) ELSE N)]

Truncated == INSTANCE MergeTopN WITH
    slices <- [j \in 1..Len(slices) |-> Cut(slices[j])]

\* "The (DEPTH+1)-th level from any exchange can never appear in the merged
\* top-DEPTH": dropping all levels beyond the N-th of each slice, as the
\* parsers do, changes no step of the merge.
DeepLevelsAreIrrelevant == [][Truncated!Next]_(Truncated!mergeVars)
=============================================================================
