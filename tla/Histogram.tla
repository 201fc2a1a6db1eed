------------------------------ MODULE Histogram ------------------------------
(***************************************************************************)
(* PromHistogram of src/metrics.rs: record, called by the one thread that  *)
(* owns the histogram (an exchange thread or the merger), and render,      *)
(* which a /metrics request runs on another thread at the same time.  One  *)
(* action per atomic access, interleaved as on x86-64, where every         *)
(* fetch_add is a locked instruction and loads are not reordered.          *)
(* The bounds, the observed durations and the width of a word are          *)
(* parameters; buckets are numbered from 1 here, from 0 in the code.       *)
(***************************************************************************)
EXTENDS Integers, Sequences, FiniteSets

CONSTANTS
    Bounds,                 \* BUCKETS: the upper bounds, increasing
    Durations,              \* the durations that may be observed
    Word,                   \* 2^64
    MaxRecords              \* bound: observations, for model checking

ASSUME HistogramAssumption ==
    /\ Bounds \in Seq(Nat)
    /\ \A j, k \in 1..Len(Bounds) : j < k => Bounds[j] < Bounds[k]
    /\ Durations \subseteq Nat
    /\ Word \in Nat \ {0} /\ MaxRecords \in Nat
    /\ \A k \in 1..Len(Bounds) : Bounds[k] < Word - 1

NUM_BUCKETS == Len(Bounds)
Finite == 1..NUM_BUCKETS
Buckets == 1..(NUM_BUCKETS + 1)     \* the last one is the overflow bucket

VARIABLES
    buckets, sum_ns, count, \* the atomics
    rpc,                    \* where record is
    nanos,                  \* what it records of its argument
    begun,                  \* the arguments of all calls of it (history)
    spc,                    \* where render is
    b,                      \* the bucket it reads next
    cumulative,             \* its running sum
    le, total, secs,        \* the lines it writes, over the previous scrape's
    before                  \* records complete when it began (history)

recordVars == <<buckets, sum_ns, count, rpc, nanos, begun>>
renderVars == <<spc, b, cumulative, le, total, secs, before>>
vars == <<buckets, sum_ns, count, rpc, nanos, begun,
          spc, b, cumulative, le, total, secs, before>>

Init ==
    /\ buckets = [k \in Buckets |-> 0] /\ sum_ns = 0 /\ count = 0
    /\ rpc = "idle" /\ nanos = 0 /\ begun = <<>>
    /\ spc = "idle" /\ b = 1 /\ cumulative = 0
    /\ le = [k \in Finite |-> 0] /\ total = 0 /\ secs = 0
    /\ before = 0

-----------------------------------------------------------------------------
(* record                                                                  *)

\* u64::try_from(..).unwrap_or(u64::MAX)
Clamp(d) == IF d < Word THEN d ELSE Word - 1

\* Mutant: < instead of <=.
BucketOfStrict(n) ==
    IF \E k \in Finite : n < Bounds[k]
    THEN CHOOSE k \in Finite :
            n < Bounds[k] /\ \A j \in 1..(k - 1) : ~(n < Bounds[j])
    ELSE NUM_BUCKETS + 1

\* The linear scan: the first bucket whose bound is not below n.
BucketOf(n) ==
    IF \E k \in Finite : n <= Bounds[k]
    THEN CHOOSE k \in Finite :
            n <= Bounds[k] /\ \A j \in 1..(k - 1) : ~(n <= Bounds[j])
    ELSE NUM_BUCKETS + 1

\* A duration is measured and its bucket found; nothing is shared yet.
Observe(d) ==
    /\ rpc = "idle" /\ Len(begun) < MaxRecords
    /\ nanos' = Clamp(d)
    /\ begun' = Append(begun, d)
    /\ rpc' = "bucket"
    /\ UNCHANGED <<buckets, sum_ns, count>> /\ UNCHANGED renderVars

AddBucket ==
    /\ rpc = "bucket"
    /\ buckets' = [buckets EXCEPT ![BucketOf(nanos)] = @ + 1]
    /\ rpc' = "sum"
    /\ UNCHANGED <<sum_ns, count, nanos, begun>>
    /\ UNCHANGED renderVars

AddSum ==
    /\ rpc = "sum"
    /\ sum_ns' = (sum_ns + nanos) % Word
    /\ rpc' = "count"
    /\ UNCHANGED <<buckets, count, nanos, begun>>
    /\ UNCHANGED renderVars

AddCount ==
    /\ rpc = "count"
    /\ count' = count + 1
    /\ rpc' = "idle"
    /\ UNCHANGED <<buckets, sum_ns, nanos, begun>>
    /\ UNCHANGED renderVars

-----------------------------------------------------------------------------
(* render                                                                  *)

\* How many calls of record have returned: all but the one in progress.
Recorded == IF rpc = "idle" THEN Len(begun) ELSE Len(begun) - 1

StartRender ==
    /\ spc = "idle"
    /\ cumulative' = 0 /\ b' = 1
    /\ before' = Recorded
    /\ spc' = "buckets"
    /\ UNCHANGED <<le, total, secs>> /\ UNCHANGED recordVars

RunningSum == cumulative + buckets[b]

\* Mutant: swap(0) instead of load.
ReadBucketSwap ==
    /\ spc = "buckets" /\ b <= NUM_BUCKETS
    /\ cumulative' = RunningSum
    /\ le' = [le EXCEPT ![b] = RunningSum]
    /\ buckets' = [buckets EXCEPT ![b] = 0]
    /\ b' = b + 1
    /\ UNCHANGED <<spc, total, secs, before>>
    /\ UNCHANGED <<sum_ns, count, rpc, nanos, begun>>

ReadBucket ==
    /\ spc = "buckets" /\ b <= NUM_BUCKETS
    /\ cumulative' = RunningSum
    /\ le' = [le EXCEPT ![b] = RunningSum]
    /\ b' = b + 1
    /\ UNCHANGED <<spc, total, secs, before>> /\ UNCHANGED recordVars

\* Mutant: the count is loaded before the buckets, when it was this.
TotalFirst == before

Total == count

\* The +Inf line and the _count line show the same load, after the buckets.
ReadCount ==
    /\ spc = "buckets" /\ b > NUM_BUCKETS
    /\ total' = Total
    /\ spc' = "sum"
    /\ UNCHANGED <<b, cumulative, le, secs, before>> /\ UNCHANGED recordVars

ReadSum ==
    /\ spc = "sum"
    /\ secs' = sum_ns
    /\ spc' = "idle"
    /\ UNCHANGED <<b, cumulative, le, total, before>> /\ UNCHANGED recordVars

-----------------------------------------------------------------------------
\* The reference: of the first n durations, how many are at most x, and what
\* they add up to in nanoseconds that fit a word.
CountUpTo(n, x) == Cardinality({m \in 1..n : begun[m] <= x})

Sums(ds) ==
    LET sum[k \in 0..Len(ds)] ==
            IF k = 0 THEN 0
            ELSE sum[k - 1] + (IF ds[k] < Word THEN ds[k] ELSE Word - 1)
    IN  sum

SumOf(n) == Sums(begun)[n]

\* Every line of a finished scrape is a value its counter had at some moment
\* of the scrape: it includes every record() that returned before the scrape
\* began and nothing that was not begun when it ended.  In particular a
\* scrape that no record() overlaps is exact, on bucket boundaries too.  The
\* sum is exempt once it has wrapped.
ScrapeIsBracketed ==
    spc = "idle" =>
        /\ \A k \in Finite :
              /\ CountUpTo(before, Bounds[k]) <= le[k]
              /\ le[k] <= CountUpTo(Len(begun), Bounds[k])
        /\ before <= total /\ total <= Len(begun)
        /\ SumOf(Len(begun)) < Word =>
              SumOf(before) <= secs /\ secs <= SumOf(Len(begun))

\* However many records overlap a scrape, no bucket line of it is above its
\* +Inf line by more than one: the count is loaded after every bucket, so it
\* lacks at most the record that is between its bucket and its count.  (The
\* other way round the lines may differ by every record that completes between
\* the two loads, which ScrapeIsBracketed bounds.)
InfLagsByAtMostOne ==
    spc = "idle" => \A k \in Finite : le[k] <= total + 1
=============================================================================
