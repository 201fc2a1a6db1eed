------------------------------ MODULE MCClient ------------------------------
(* Summaries of none to two levels per side, as many as the totals hold.    *)
EXTENDS Client

Sides == {<<>>, <<2>>, <<1, 3>>, <<3, 1>>}
MCSummaries == [bids : Sides, asks : Sides]
=============================================================================
