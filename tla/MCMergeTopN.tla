---------------------------- MODULE MCMergeTopN ----------------------------
(***************************************************************************)
(* Every pair of books over a few prices and amounts, both sides.          *)
(***************************************************************************)
EXTENDS MergeTruncated, SequencesExt

CONSTANTS MaxPrice, MaxAmount, NumSlices

\* The slices an exchange may send.
MCLevels(s) ==
    { levels \in BoundedSeq([price : 1..MaxPrice, amount : 1..MaxAmount],
                            MaxPrice) : IsSortedSlice(s, levels) }

\* The tag is not the slice's number: a store with an empty place skips it.
MCInputs ==
    UNION { { [side |-> s,
               slices |-> [j \in 1..k |->
                   [exchange_id |-> j + 1, levels |-> chosen[j]]]] :
                 chosen \in [1..k -> MCLevels(s)] } :
            s \in Sides, k \in 0..NumSlices }
=============================================================================
