--------------------------- MODULE MetricsProofs ---------------------------
(***************************************************************************)
(* Proofs about Metrics for every list of bounds, every number of exchanges *)
(* and any number of records, scrapes and flips: every line of a scrape is  *)
(* a value its counter had during the scrape, what a scrape counts it has   *)
(* measured, no line falls, and what health answers was true of each        *)
(* exchange at some moment of the request.                                  *)
(***************************************************************************)
EXTENDS Metrics, FiniteSetTheorems, WellFoundedInduction, TLAPS

\* A message is counted after its latency: the counter lags behind the
\* histogram by the message that has been recorded and not yet counted.
CounterInv ==
    /\ messages \in Nat /\ count \in Nat /\ owed \in BOOLEAN
    /\ rpc # "idle" => owed
    /\ count = messages + (IF owed /\ rpc = "idle" THEN 1 ELSE 0)

\* A scrape reads the counter before the histogram; only between the two can
\* the lines it has written disagree.
ShownInv ==
    /\ shown \in Nat /\ shown <= messages
    /\ total \in Nat /\ total <= count
    /\ request # "metrics" => spc = "idle"
    /\ shown <= total \/ (request = "metrics" /\ spc # "sum")

\* Each bucket line, of this scrape or of the one before, is at most the line
\* above it and what its bucket holds now; the running sum is the line that
\* was written last.
Above(k) == IF k = 1 THEN 0 ELSE le[k - 1]
LineInv ==
    /\ le \in [Finite -> Nat] /\ buckets \in [Buckets -> Nat]
    /\ b \in Buckets
    /\ \A k \in Finite : le[k] <= Above(k) + buckets[k]
    /\ spc = "buckets" => cumulative = Above(b)

\* The history holds the present, and what a request has read so far.
PastInv ==
    /\ connected \in [Exchanges -> BOOLEAN] /\ showsUp \in [Exchanges -> BOOLEAN]
    /\ next \in 1..(NumExchanges + 1) /\ ups \in Nat
    /\ wasUp \subseteq Exchanges /\ wasDown \subseteq Exchanges
    /\ request # "none" => \A e \in Exchanges :
          e \in (IF connected[e] THEN wasUp ELSE wasDown)
    /\ request = "metrics" => \A e \in 1..(next - 1) :
          e \in (IF showsUp[e] THEN wasUp ELSE wasDown)

\* What the number of flags found set says of the exchanges read so far.
UpsInv ==
    request = "health" =>
        /\ answer = "none" /\ ups <= next - 1
        /\ ups = next - 1 => 1..(next - 1) \subseteq wasUp
        /\ ups = 0 => 1..(next - 1) \subseteq wasDown
        /\ 0 < ups /\ ups < next - 1 =>
              \E e, f \in Exchanges : e # f /\ e \in wasUp /\ f \in wasDown

IInv == CounterInv /\ ShownInv /\ LineInv /\ PastInv /\ UpsInv /\ HealthIsWitnessed

-----------------------------------------------------------------------------
\* There is a bucket behind the last bound, and there are exchanges.
LEMMA SizeFacts ==
    /\ NUM_BUCKETS \in Nat /\ Finite \subseteq Buckets
    /\ NumExchanges \in Nat /\ NumExchanges > 0
  BY HistogramAssumption, MetricsAssumption
     DEF NUM_BUCKETS, Finite, Buckets

\* All counters are zero and all flags down.
LEMMA InitIInv == MetricsInit => IInv
<1> SUFFICES ASSUME MetricsInit PROVE IInv
  OBVIOUS
<1>1. owed \in BOOLEAN /\ connected \in [Exchanges -> BOOLEAN]
      /\ showsUp \in [Exchanges -> BOOLEAN]
  BY DEF MetricsInit
<1>2. CounterInv /\ ShownInv
  BY <1>1 DEF MetricsInit, Init, CounterInv, ShownInv
<1>3. LineInv
  BY SizeFacts DEF MetricsInit, Init, LineInv, Above, Finite, Buckets
<1>4. PastInv /\ UpsInv /\ HealthIsWitnessed
  BY <1>1, SizeFacts DEF MetricsInit, PastInv, UpsInv, HealthIsWitnessed
<1> QED
  BY <1>2, <1>3, <1>4 DEF IInv

\* record() and the count of the message keep the counter behind the
\* histogram and let no bucket fall.
LEMMA ThreadCounterInv ==
    ASSUME IInv,
           (\E d \in Durations : Decode(d)) \/ RecordStep \/ CountMessage
    PROVE  /\ (CounterInv /\ ShownInv)'
           /\ buckets' \in [Buckets -> Nat]
           /\ \A k \in Buckets : buckets'[k] >= buckets[k]
           /\ UNCHANGED <<spc, b, cumulative, le, total>>
           /\ UNCHANGED <<connected, request, shown, showsUp, next, ups, answer,
                          wasUp, wasDown>>
<1>0. CounterInv /\ ShownInv /\ buckets \in [Buckets -> Nat]
  BY DEF IInv, LineInv
<1>1. CASE \E d \in Durations : Decode(d)
  <2>1. owed' \in BOOLEAN /\ owed' /\ ~owed /\ rpc = "idle" /\ rpc' = "bucket"
        /\ UNCHANGED <<messages, connected, request, shown, showsUp, next, ups,
                       answer, wasUp, wasDown, buckets, count, spc, b,
                       cumulative, le, total>>
    BY <1>1 DEF Decode, Observe, renderVars, healthVars, pastVars
  <2> QED
    BY <1>0, <2>1 DEF CounterInv, ShownInv
<1>2. CASE AddBucket /\ UNCHANGED registryVars
  <2>1. /\ rpc = "bucket" /\ rpc' = "sum"
        /\ buckets' = [buckets EXCEPT ![BucketOf(nanos)] = @ + 1]
        /\ UNCHANGED <<messages, owed, connected, request, shown, showsUp, next,
                       ups, answer, wasUp, wasDown, count, spc, b, cumulative,
                       le, total>>
    BY <1>2 DEF AddBucket, renderVars, registryVars
  <2>2. \A x : /\ [buckets EXCEPT ![x] = @ + 1] \in [Buckets -> Nat]
               /\ \A k \in Buckets : [buckets EXCEPT ![x] = @ + 1][k] >= buckets[k]
    <3> TAKE x
    <3> DEFINE more == [k \in Buckets |-> IF k = x THEN buckets[k] + 1
                                          ELSE buckets[k]]
    <3>1. [buckets EXCEPT ![x] = @ + 1] = more
      BY <1>0
    <3>2. \A k \in Buckets : buckets[k] \in Nat
      BY <1>0
    <3>3. more \in [Buckets -> Nat] /\ \A k \in Buckets : more[k] >= buckets[k]
      BY <3>2
    <3> HIDE DEF more
    <3> QED
      BY <3>1, <3>3
  <2> QED
    BY <1>0, <2>1, <2>2 DEF CounterInv, ShownInv
<1>3. CASE AddSum /\ UNCHANGED registryVars
  <2>1. /\ rpc = "sum" /\ rpc' = "count"
        /\ UNCHANGED <<messages, owed, connected, request, shown, showsUp, next,
                       ups, answer, wasUp, wasDown, buckets, count, spc, b,
                       cumulative, le, total>>
    BY <1>3 DEF AddSum, renderVars, registryVars
  <2> QED
    BY <1>0, <2>1 DEF CounterInv, ShownInv
<1>4. CASE AddCount /\ UNCHANGED registryVars
  <2>1. /\ rpc = "count" /\ rpc' = "idle" /\ count' = count + 1
        /\ UNCHANGED <<messages, owed, connected, request, shown, showsUp, next,
                       ups, answer, wasUp, wasDown, buckets, spc, b,
                       cumulative, le, total>>
    BY <1>4 DEF AddCount, renderVars, registryVars
  <2> QED
    BY <1>0, <2>1 DEF CounterInv, ShownInv
<1>5. CASE CountMessage
  <2>1. /\ owed /\ ~owed' /\ rpc = "idle" /\ messages' = messages + 1
        /\ owed' \in BOOLEAN
        /\ UNCHANGED <<connected, request, shown, showsUp, next, ups, answer,
                       wasUp, wasDown, buckets, count, rpc, spc, b,
                       cumulative, le, total>>
    BY <1>5 DEF CountMessage, vars, healthVars, pastVars
  <2> QED
    BY <1>0, <2>1 DEF CounterInv, ShownInv
<1> QED
  BY <1>1, <1>2, <1>3, <1>4, <1>5 DEF RecordStep

\* What an exchange thread does: record, count, and set its flag.
LEMMA ThreadIInv ==
    ASSUME IInv,
           (\E d \in Durations : Decode(d)) \/ RecordStep \/ CountMessage
    PROVE  IInv'
<1>1. /\ (CounterInv /\ ShownInv)'
      /\ buckets' \in [Buckets -> Nat]
      /\ \A k \in Buckets : buckets'[k] >= buckets[k]
      /\ UNCHANGED <<spc, b, cumulative, le, total>>
      /\ UNCHANGED <<connected, request, shown, showsUp, next, ups, answer,
                     wasUp, wasDown>>
  BY ThreadCounterInv
<1>2. LineInv'
  <2> SUFFICES ASSUME NEW k \in Finite
               PROVE  le[k] <= Above(k) + buckets'[k]
    BY <1>1 DEF IInv, LineInv, Above
  <2>1. k \in Buckets /\ le[k] \in Nat /\ le[k] <= Above(k) + buckets[k]
    BY SizeFacts DEF IInv, LineInv
  <2>2. Above(k) \in Nat
    BY SizeFacts DEF IInv, LineInv, Above, Finite
  <2>3. buckets[k] \in Nat /\ buckets'[k] \in Nat /\ buckets'[k] >= buckets[k]
    BY <1>1, <2>1 DEF IInv, LineInv
  <2> QED
    BY <2>1, <2>2, <2>3
<1>3. (PastInv /\ UpsInv /\ HealthIsWitnessed)'
  BY <1>1 DEF IInv, PastInv, UpsInv, HealthIsWitnessed
<1> QED
  BY <1>1, <1>2, <1>3 DEF IInv

\* A session begins or ends: the history of a request in progress grows.
LEMMA FlipIInv ==
    ASSUME IInv, NEW x \in Exchanges, Flip(x)
    PROVE  IInv'
<1>0. CounterInv /\ ShownInv /\ LineInv /\ PastInv /\ UpsInv /\ HealthIsWitnessed
  BY DEF IInv
<1>1. /\ connected' = [connected EXCEPT ![x] = ~@]
      /\ UNCHANGED <<request, shown, showsUp, next, messages, owed, ups, answer>>
      /\ UNCHANGED <<buckets, count, rpc, spc, b, cumulative, le, total>>
  BY DEF Flip, counterVars, healthVars, vars
<1>2. /\ connected' \in [Exchanges -> BOOLEAN]
      /\ \A e \in Exchanges : e # x => connected'[e] = connected[e]
  BY <1>0, <1>1, Zenon DEF PastInv
<1>3. /\ wasUp \subseteq wasUp' /\ wasDown \subseteq wasDown'
      /\ request # "none" => x \in (IF connected'[x] THEN wasUp' ELSE wasDown')
      /\ request = "none" => UNCHANGED <<wasUp, wasDown>>
      /\ wasUp' \subseteq Exchanges /\ wasDown' \subseteq Exchanges
  BY <1>0 DEF Flip, pastVars, PastInv
<1>4. CounterInv' /\ ShownInv' /\ LineInv'
  BY <1>0, <1>1 DEF CounterInv, ShownInv, LineInv, Above
<1>5. PastInv'
  <2>1. request # "none" => \A e \in Exchanges :
            e \in (IF connected'[e] THEN wasUp' ELSE wasDown')
    BY <1>0, <1>2, <1>3 DEF PastInv
  <2>2. request = "metrics" => \A e \in 1..(next - 1) :
            e \in (IF showsUp[e] THEN wasUp' ELSE wasDown')
    BY <1>0, <1>3 DEF PastInv
  <2> QED
    BY <1>0, <1>1, <1>2, <1>3, <2>1, <2>2 DEF PastInv
<1>6. UpsInv'
  BY <1>0, <1>1, <1>3 DEF UpsInv
<1>7. HealthIsWitnessed'
  <2>1. CASE request = "none"
    BY <1>0, <1>1, <1>3, <2>1 DEF HealthIsWitnessed
  <2>2. CASE request # "none"
    BY <1>0, <1>1, <1>3, <2>2 DEF HealthIsWitnessed
  <2> QED
    BY <2>1, <2>2
<1> QED
  BY <1>4, <1>5, <1>6, <1>7 DEF IInv

\* A request begins: what it will be measured against is the present.
LEMMA RequestIInv ==
    ASSUME IInv, Scrape \/ AskHealth
    PROVE  IInv'
<1>0. CounterInv /\ ShownInv /\ LineInv /\ PastInv
  BY DEF IInv
<1>1. /\ request = "none" /\ request' \in {"metrics", "health"}
      /\ next' = 1 /\ ups' = 0 /\ answer' = "none"
      /\ wasUp' = {e \in Exchanges : connected[e]}
      /\ wasDown' = {e \in Exchanges : ~connected[e]}
      /\ UNCHANGED <<messages, owed, connected, showsUp>>
      /\ UNCHANGED <<buckets, count, rpc, spc, b, cumulative, le, total>>
  BY DEF Scrape, AskHealth, Past, counterVars, vars
<1>2. \/ request' = "metrics" /\ shown' = messages
      \/ request' = "health" /\ shown' = shown
  BY DEF Scrape, AskHealth
<1>3. CounterInv' /\ LineInv'
  BY <1>0, <1>1 DEF CounterInv, LineInv, Above
<1>4. ShownInv'
  BY <1>0, <1>1, <1>2 DEF CounterInv, ShownInv
<1>5. PastInv' /\ UpsInv' /\ HealthIsWitnessed'
  BY <1>0, <1>1, SizeFacts DEF PastInv, UpsInv, HealthIsWitnessed
<1> QED
  BY <1>3, <1>4, <1>5 DEF IInv

\* A scrape goes on: gauges, then the lines of the histogram.
LEMMA ScrapeIInv ==
    ASSUME IInv, ShowUp \/ RenderStep
    PROVE  /\ IInv'
           /\ shown' = shown /\ total' >= total
           /\ \A k \in Finite : le'[k] >= le[k]
<1>0. CounterInv /\ ShownInv /\ LineInv /\ PastInv /\ UpsInv /\ HealthIsWitnessed
  BY DEF IInv
<1>a. /\ total \in Nat /\ count \in Nat /\ \A k \in Finite : le[k] \in Nat
      /\ \A k \in Finite : Above(k) \in Nat /\ buckets[k] \in Nat
  BY <1>0, SizeFacts DEF ShownInv, CounterInv, LineInv, Above, Finite
<1>1. CASE ShowUp
  <2>1. /\ request = "metrics" /\ next <= NumExchanges /\ next' = next + 1
        /\ showsUp' = [showsUp EXCEPT ![next] = connected[next]]
        /\ UNCHANGED <<connected, request, shown, messages, owed, ups, answer,
                       wasUp, wasDown>>
        /\ UNCHANGED <<buckets, count, rpc, spc, b, cumulative, le, total>>
    BY <1>1 DEF ShowUp, counterVars, healthVars, pastVars, vars
  <2>2. next \in Exchanges
    BY <1>0, <2>1, SizeFacts DEF PastInv, Exchanges
  <2>3. /\ showsUp' \in [Exchanges -> BOOLEAN]
        /\ showsUp'[next] = connected[next]
        /\ \A e \in Exchanges : e # next => showsUp'[e] = showsUp[e]
    BY <1>0, <2>1, <2>2, Zenon DEF PastInv
  <2>4. \A e \in 1..(next' - 1) : e \in Exchanges /\ (e = next \/ e \in 1..(next - 1))
    BY <1>0, <2>1, SizeFacts DEF PastInv, Exchanges
  <2>5. PastInv'
    BY <1>0, <2>1, <2>2, <2>3, <2>4, SizeFacts DEF PastInv
  <2>6. CounterInv' /\ ShownInv' /\ LineInv'
    BY <1>0, <2>1 DEF CounterInv, ShownInv, LineInv, Above
  <2>7. UpsInv' /\ HealthIsWitnessed'
    BY <1>0, <2>1 DEF UpsInv, HealthIsWitnessed
  <2> QED
    BY <1>a, <2>1, <2>5, <2>6, <2>7 DEF IInv
<1>2. CASE RenderStep
  <2>1. /\ request = "metrics" /\ next > NumExchanges
        /\ UNCHANGED <<connected, shown, showsUp, next, messages, owed, ups,
                       answer, wasUp, wasDown>>
        /\ UNCHANGED <<buckets, count, rpc>>
    BY <1>2 DEF RenderStep, StartRender, ReadBucket, ReadCount, Total, ReadSum,
                counterVars, healthVars, pastVars, recordVars
  <2>2. CounterInv'
    BY <1>0, <2>1 DEF CounterInv
  <2>3. CASE StartRender /\ UNCHANGED request
    <3>1. /\ cumulative' = 0 /\ b' = 1 /\ spc' = "buckets"
          /\ UNCHANGED <<le, total, request>>
      BY <2>3 DEF StartRender
    <3>2. LineInv'
      BY <1>0, <2>1, <3>1, SizeFacts DEF LineInv, Above, Buckets
    <3>3. ShownInv' /\ PastInv' /\ UpsInv' /\ HealthIsWitnessed'
      BY <1>0, <2>1, <3>1 DEF ShownInv, PastInv, UpsInv, HealthIsWitnessed
    <3> QED
      BY <1>a, <2>1, <2>2, <3>1, <3>2, <3>3 DEF IInv
  <2>4. CASE ReadBucket /\ UNCHANGED request
    <3>1. /\ spc = "buckets" /\ b <= NUM_BUCKETS
          /\ cumulative' = cumulative + buckets[b]
          /\ le' = [le EXCEPT ![b] = cumulative + buckets[b]]
          /\ b' = b + 1
          /\ UNCHANGED <<spc, total, request>>
      BY <2>4 DEF ReadBucket, RunningSum
    <3>2. /\ b \in Finite /\ cumulative = Above(b)
          /\ b' \in Buckets /\ b' - 1 = b /\ b' # 1
      BY <1>0, <3>1, SizeFacts DEF LineInv, Buckets, Finite
    <3>3. /\ le' \in [Finite -> Nat] /\ le'[b] = Above(b) + buckets[b]
          /\ \A k \in Finite : k # b => le'[k] = le[k]
      BY <1>0, <1>a, <3>1, <3>2 DEF LineInv
    <3>4. \A k \in Finite : le'[k] >= le[k]
      BY <1>0, <1>a, <3>2, <3>3 DEF LineInv
    <3>5. \A k \in Finite : le'[k] <= Above(k)' + buckets[k]
      <4> SUFFICES ASSUME NEW k \in Finite PROVE le'[k] <= Above(k)' + buckets[k]
        OBVIOUS
      <4>1. Above(k)' \in Nat /\ Above(k)' >= Above(k)
        BY <1>a, <3>3, <3>4, SizeFacts DEF Above, Finite
      <4>2. CASE k = b
        BY <1>a, <3>3, <4>1, <4>2
      <4>3. CASE k # b
        BY <1>0, <1>a, <3>3, <4>1, <4>3 DEF LineInv
      <4> QED
        BY <4>2, <4>3
    <3>6. cumulative' = Above(b)'
      BY <3>1, <3>2, <3>3 DEF Above
    <3>7. LineInv'
      BY <1>0, <2>1, <3>2, <3>3, <3>5, <3>6 DEF LineInv, Above
    <3>8. ShownInv' /\ PastInv' /\ UpsInv' /\ HealthIsWitnessed'
      BY <1>0, <2>1, <3>1 DEF ShownInv, PastInv, UpsInv, HealthIsWitnessed
    <3> QED
      BY <1>a, <2>1, <2>2, <3>1, <3>4, <3>7, <3>8 DEF IInv
  <2>5. CASE ReadCount /\ UNCHANGED request
    <3>1. total' = count /\ spc' = "sum" /\ UNCHANGED <<b, cumulative, le, request>>
      BY <2>5 DEF ReadCount, Total
    <3>2. LineInv' /\ PastInv' /\ UpsInv' /\ HealthIsWitnessed'
      BY <1>0, <2>1, <3>1 DEF LineInv, Above, PastInv, UpsInv, HealthIsWitnessed
    <3>3. ShownInv'
      BY <1>0, <2>1, <3>1 DEF ShownInv, CounterInv
    <3> QED
      BY <1>0, <1>a, <2>1, <2>2, <3>1, <3>2, <3>3 DEF IInv, ShownInv
  <2>6. CASE ReadSum /\ request' = "none"
    <3>1. /\ spc = "sum" /\ spc' = "idle" /\ request' = "none"
          /\ UNCHANGED <<b, cumulative, le, total>>
      BY <2>6 DEF ReadSum
    <3>2. LineInv' /\ ShownInv' /\ UpsInv'
      BY <1>0, <2>1, <3>1 DEF LineInv, Above, ShownInv, UpsInv
    <3>3. PastInv' /\ HealthIsWitnessed'
      <4>1. \A e \in Exchanges : e \in 1..(next - 1)
        BY <1>0, <2>1, SizeFacts DEF PastInv, Exchanges
      <4> QED
        BY <1>0, <2>1, <3>1, <4>1 DEF PastInv, HealthIsWitnessed
    <3> QED
      BY <1>a, <2>1, <2>2, <3>1, <3>2, <3>3 DEF IInv
  <2> QED
    BY <1>2, <2>3, <2>4, <2>5, <2>6 DEF RenderStep
<1> QED
  BY <1>1, <1>2

\* health reads one flag after another and then answers.
LEMMA HealthIInv ==
    ASSUME IInv, ReadFlag \/ AnswerHealth
    PROVE  IInv'
<1>0. CounterInv /\ ShownInv /\ LineInv /\ PastInv /\ UpsInv /\ HealthIsWitnessed
  BY DEF IInv
<1>1. /\ request = "health"
      /\ UNCHANGED <<connected, shown, showsUp, messages, owed, wasUp, wasDown>>
      /\ UNCHANGED <<buckets, count, rpc, spc, b, cumulative, le, total>>
      /\ request' \in {"health", "none"}
  BY DEF ReadFlag, AnswerHealth, counterVars, pastVars, vars
<1>2. CounterInv' /\ ShownInv' /\ LineInv'
  BY <1>0, <1>1 DEF CounterInv, ShownInv, LineInv, Above
<1>3. CASE ReadFlag
  <2>1. /\ next <= NumExchanges /\ next' = next + 1
        /\ ups' = (IF connected[next] THEN ups + 1 ELSE ups)
        /\ UNCHANGED <<request, answer>>
    BY <1>3 DEF ReadFlag
  <2>2. /\ next \in Exchanges /\ next \in Nat /\ next > 0 /\ ups \in Nat
        /\ ups' \in Nat /\ next' \in 1..(NumExchanges + 1)
    BY <1>0, <2>1, SizeFacts DEF PastInv, Exchanges
  <2>3. PastInv' /\ HealthIsWitnessed'
    BY <1>0, <1>1, <2>1, <2>2 DEF PastInv, HealthIsWitnessed, UpsInv
  <2>4. 1..(next' - 1) = 1..(next - 1) \union {next}
    BY <2>1, <2>2
  <2>5. next > 1 => 1 \in 1..(next - 1) /\ 1 \in Exchanges /\ 1 # next
    BY <2>1, <2>2, SizeFacts DEF Exchanges
  <2>6. CASE connected[next]
    <3>1. next \in wasUp /\ ups' = ups + 1
      BY <1>0, <1>1, <2>1, <2>2, <2>6 DEF PastInv
    <3>2. 0 < ups' /\ ups' < next' - 1 =>
              \E e, f \in Exchanges : e # f /\ e \in wasUp /\ f \in wasDown
      <4>1. ups = 0 /\ next > 1 => 1 \in wasDown
        BY <1>0, <1>1, <2>5 DEF UpsInv
      <4> QED
        BY <1>0, <1>1, <2>1, <2>2, <2>5, <3>1, <4>1 DEF UpsInv
    <3> QED
      BY <1>0, <1>1, <1>2, <2>1, <2>2, <2>3, <2>4, <3>1, <3>2 DEF UpsInv, IInv
  <2>7. CASE ~connected[next]
    <3>1. next \in wasDown /\ ups' = ups
      BY <1>0, <1>1, <2>1, <2>2, <2>7 DEF PastInv
    <3>2. 0 < ups' /\ ups' < next' - 1 =>
              \E e, f \in Exchanges : e # f /\ e \in wasUp /\ f \in wasDown
      <4>1. ups = next - 1 /\ next > 1 => 1 \in wasUp
        BY <1>0, <1>1, <2>5 DEF UpsInv
      <4> QED
        BY <1>0, <1>1, <2>1, <2>2, <2>5, <3>1, <4>1 DEF UpsInv
    <3> QED
      BY <1>0, <1>1, <1>2, <2>1, <2>2, <2>3, <2>4, <3>1, <3>2 DEF UpsInv, IInv
  <2> QED
    BY <2>6, <2>7
<1>4. CASE AnswerHealth
  <2>1. /\ next = NumExchanges + 1 /\ ups \in Nat /\ Exchanges = 1..(next - 1)
        /\ request' = "none" /\ answer' = Health /\ UNCHANGED <<next, ups>>
    BY <1>0, <1>4, SizeFacts DEF AnswerHealth, PastInv, Exchanges
  <2>2. PastInv' /\ UpsInv'
    BY <1>0, <1>1, <2>1 DEF PastInv, UpsInv
  <2>3. HealthIsWitnessed'
    <3>1. CASE ups = NumExchanges
      <4>1. Health = "OK" /\ Exchanges \subseteq wasUp
        BY <1>0, <1>1, <2>1, <3>1, SizeFacts DEF UpsInv, Health
      <4> QED
        BY <1>0, <1>1, <2>1, <4>1 DEF HealthIsWitnessed, PastInv
    <3>2. CASE 0 < ups /\ ups < NumExchanges
      <4>1. Health = "DEGRADED"
        BY <2>1, <3>2, SizeFacts DEF Health
      <4>2. \E e, f \in Exchanges : e # f /\ e \in wasUp /\ f \in wasDown
        BY <1>0, <1>1, <2>1, <3>2, SizeFacts DEF UpsInv
      <4> QED
        BY <1>1, <2>1, <4>1, <4>2 DEF HealthIsWitnessed
    <3>3. CASE ups = 0
      <4>1. Health = "DOWN" /\ Exchanges \subseteq wasDown
        BY <1>0, <1>1, <2>1, <3>3, SizeFacts DEF UpsInv, Health
      <4> QED
        BY <1>0, <1>1, <2>1, <4>1 DEF HealthIsWitnessed, PastInv
    <3> QED
      BY <1>0, <1>1, <2>1, <3>1, <3>2, <3>3, SizeFacts DEF UpsInv
  <2> QED
    BY <1>2, <2>2, <2>3 DEF IInv
<1> QED
  BY <1>3, <1>4

\* An unchanged registry is as good as before.
LEMMA NextIInv == IInv /\ [MetricsNext]_allVars => IInv'
<1> SUFFICES ASSUME IInv, [MetricsNext]_allVars PROVE IInv'
  OBVIOUS
<1>1. CASE UNCHANGED allVars
  BY <1>1 DEF IInv, allVars, vars, registryVars, CounterInv, ShownInv, LineInv,
              Above, PastInv, UpsInv, HealthIsWitnessed
<1> QED
  BY <1>1, ThreadIInv, FlipIInv, RequestIInv, ScrapeIInv, HealthIInv
     DEF MetricsNext

\* The inductive invariant of registry, histogram and requests.
THEOREM SpecIInv == MetricsSpec => []IInv
  BY InitIInv, NextIInv, PTL DEF MetricsSpec

-----------------------------------------------------------------------------
(* What a line of a scrape counts                                           *)

\* The bucket of a duration, and the records among the first n of ds in a
\* bucket and in the buckets up to one.
SlotOf(d) == BucketOf(Clamp(d))
InSlot(ds, n, j) == {m \in 1..n : SlotOf(ds[m]) = j}
InSlots(ds, n, j) == {m \in 1..n : SlotOf(ds[m]) <= j}

\* How many records are in the buckets and in the sum: the one in progress is
\* missing until record() has come to its fetch_add.
Added == IF rpc = "bucket" THEN Len(begun) - 1 ELSE Len(begun)
Summed == IF rpc \in {"bucket", "sum"} THEN Len(begun) - 1 ELSE Len(begun)

\* The atomics hold what has been recorded, the sum while it has not wrapped.
HistoryInv ==
    /\ begun \in Seq(Nat)
    /\ rpc \in {"idle", "bucket", "sum", "count"}
    /\ rpc # "idle" => Len(begun) > 0 /\ nanos = Clamp(begun[Len(begun)])
    /\ \A j \in Buckets : buckets[j] = Cardinality(InSlot(begun, Added, j))
    /\ SumOf(Summed) < Word => sum_ns = SumOf(Summed)
    /\ count = Recorded

\* v counts all records up to bucket k that were complete when the scrape
\* began, and none that is not in its bucket yet.
Between(v, k) ==
    /\ Cardinality(InSlots(begun, before, k)) <= v
    /\ v <= Cardinality(InSlots(begun, Added, k))

\* The lines a scrape has written, and its running sum, are so bracketed.
BracketInv ==
    /\ spc \in {"idle", "buckets", "sum"}
    /\ before \in Nat /\ before <= Recorded
    /\ spc = "buckets" => cumulative \in Nat /\ Between(cumulative, b - 1)
    /\ \A k \in Finite : spc # "buckets" \/ k < b => Between(le[k], k)
    /\ total \in Nat
    /\ spc # "buckets" =>
          /\ before <= total /\ total <= Recorded
          /\ \A k \in Finite : le[k] <= total + 1
    /\ spc = "idle" /\ SumOf(Len(begun)) < Word =>
          /\ secs \in Nat
          /\ SumOf(before) <= secs /\ secs <= SumOf(Len(begun))

ScrapeInv == HistoryInv /\ BracketInv

\* Induction: a set that holds 0 and with a number its successor holds all
\* numbers.
LEMMA SetInduction ==
    ASSUME NEW S, 0 \in S, \A n \in Nat : n \in S => n + 1 \in S
    PROVE  \A n \in Nat : n \in S
<1> DEFINE T == Nat \ S
           R == OpToRel(<, Nat)
<1>1. SUFFICES ASSUME T # {} PROVE FALSE
  OBVIOUS
<1>2. IsWellFoundedOn(R, Nat) /\ T \subseteq Nat
  BY NatLessThanWellFounded
<1>3. PICK m \in T : \A y \in T : <<y, m>> \notin R
  <2> HIDE DEF R, T
  <2> QED
    BY <1>1, <1>2, WFMin, Zenon
<1>4. m \in Nat /\ m # 0 /\ m - 1 \in Nat /\ m = (m - 1) + 1
  OBVIOUS
<1>5. m - 1 \in T
  BY <1>4
<1>6. <<m - 1, m>> \in R
  BY <1>4 DEF OpToRel
<1> QED
  BY <1>3, <1>5, <1>6

\* Running totals exist: there is a function that adds one amount a step.
LEMMA TotalsExist ==
    ASSUME NEW n \in Nat, NEW f \in [1..n -> Nat]
    PROVE  \E g \in [0..n -> Nat] :
              g = [k \in 0..n |-> IF k = 0 THEN 0 ELSE g[k - 1] + f[k]]
<1> DEFINE Is(g, m) == /\ g \in [0..m -> Nat] /\ g[0] = 0
                       /\ \A k \in 1..m : g[k] = g[k - 1] + f[k]
           S == {m \in Nat : m <= n => \E g : Is(g, m)}
<1>1. 0 \in S
  <2>1. Is([k \in 0..0 |-> 0], 0)
    OBVIOUS
  <2> QED
    BY <2>1
<1>2. ASSUME NEW m \in Nat, m \in S PROVE m + 1 \in S
  <2>1. SUFFICES ASSUME m + 1 <= n PROVE \E g : Is(g, m + 1)
    <3> HIDE DEF Is
    <3> QED
      OBVIOUS
  <2>2. PICK g : Is(g, m)
    <3>1. m <= n
      BY <2>1
    <3> HIDE DEF Is
    <3> QED
      BY <1>2, <3>1
  <2> DEFINE h == [k \in 0..(m + 1) |-> IF k = m + 1 THEN g[m] + f[m + 1] ELSE g[k]]
  <2>3. g[m] \in Nat /\ f[m + 1] \in Nat
    <3>1. m \in 0..m /\ m + 1 \in 1..n
      BY <2>1
    <3>2. g \in [0..m -> Nat]
      BY <2>2
    <3> QED
      BY <3>1, <3>2
  <2>4. h \in [0..(m + 1) -> Nat] /\ h[0] = 0
    BY <2>2, <2>3
  <2>5. ASSUME NEW k \in 1..(m + 1) PROVE h[k] = h[k - 1] + f[k]
    <3>1. CASE k = m + 1
      BY <3>1
    <3>2. CASE k # m + 1
      <4>1. k \in 1..m /\ k \in 0..(m + 1) /\ k - 1 \in 0..(m + 1) /\ k - 1 # m + 1
        BY <3>2
      <4> QED
        BY <2>2, <4>1
    <3> QED
      BY <3>1, <3>2
  <2> QED
    BY <2>4, <2>5
<1> HIDE DEF S
<1>3. \A m \in Nat : m \in S
  BY <1>1, <1>2, SetInduction
<1>4. PICK g : Is(g, n)
  <2> HIDE DEF Is
  <2> QED
    BY <1>3 DEF S
<1>5. g = [k \in 0..n |-> IF k = 0 THEN 0 ELSE g[k - 1] + f[k]]
  BY <1>4
<1> QED
  BY <1>4, <1>5


\* The scan finds the right bucket: a duration is in one of the buckets up to
\* a bound exactly if it is at most that bound, clamped or not.
LEMMA SlotFacts ==
    ASSUME NEW d \in Nat
    PROVE  /\ SlotOf(d) \in Buckets
           /\ \A k \in Finite : SlotOf(d) <= k <=> d <= Bounds[k]
<1> DEFINE c == Clamp(d)
           T == {k \in Finite : c <= Bounds[k]}
           R == OpToRel(<, Nat)
<1>1. /\ NUM_BUCKETS \in Nat /\ Word \in Nat /\ Word > 0
      /\ \A k \in Finite : Bounds[k] \in Nat /\ Bounds[k] < Word - 1
      /\ \A j, k \in Finite : j < k => Bounds[j] < Bounds[k]
  BY HistogramAssumption DEF NUM_BUCKETS, Finite
<1>2. /\ c \in Nat
      /\ \A k \in Finite : c <= Bounds[k] <=> d <= Bounds[k]
  BY <1>1 DEF Clamp
<1> HIDE DEF c
<1>3. CASE T = {}
  <2>1. BucketOf(c) = NUM_BUCKETS + 1
    BY <1>3 DEF BucketOf
  <2>2. \A k \in Finite : ~(d <= Bounds[k]) /\ ~(NUM_BUCKETS + 1 <= k)
    BY <1>1, <1>2, <1>3 DEF Finite
  <2>3. NUM_BUCKETS + 1 \in Buckets
    BY <1>1 DEF Buckets
  <2> QED
    BY <2>1, <2>2, <2>3 DEF SlotOf, c
<1>4. CASE T # {}
  <2>1. IsWellFoundedOn(R, Nat) /\ T \subseteq Nat
    <3>1. IsWellFoundedOn(R, Nat)
      BY NatLessThanWellFounded
    <3>2. T \subseteq Nat
      BY <1>1 DEF Finite
    <3> QED
      BY <3>1, <3>2
  <2>2. PICK f \in T : \A y \in T : <<y, f>> \notin R
    <3> HIDE DEF R, T
    <3> QED
      BY <1>4, <2>1, WFMin, Zenon
  <2>3. \A j \in 1..(f - 1) : ~(c <= Bounds[j])
    <3> SUFFICES ASSUME NEW j \in 1..(f - 1), c <= Bounds[j] PROVE FALSE
      OBVIOUS
    <3>1. j \in T /\ j \in Nat /\ f \in Nat /\ j < f
      BY <1>1 DEF Finite
    <3>2. <<j, f>> \in R
      BY <3>1 DEF OpToRel
    <3> QED
      BY <2>2, <3>1, <3>2
  <2> DEFINE First(k) == c <= Bounds[k] /\ \A j \in 1..(k - 1) : ~(c <= Bounds[j])
             g == BucketOf(c)
  <2>4. g \in Finite /\ First(g)
    <3>1. f \in Finite /\ First(f)
      BY <2>2, <2>3
    <3>2. g = CHOOSE k \in Finite : First(k)
      BY <3>1 DEF BucketOf
    <3> HIDE DEF First, g
    <3> QED
      BY <3>1, <3>2, Zenon
  <2> HIDE DEF g
  <2>5. ASSUME NEW k \in Finite PROVE g <= k <=> d <= Bounds[k]
    <3>1. g \in Nat /\ k \in Nat /\ k > 0
      BY <1>1, <2>4 DEF Finite
    <3>2. ASSUME g <= k PROVE d <= Bounds[k]
      <4>1. g = k \/ Bounds[g] < Bounds[k]
        BY <1>1, <2>4, <3>1, <3>2
      <4>2. Bounds[g] \in Nat /\ Bounds[k] \in Nat
        BY <1>1, <2>4
      <4>3. c <= Bounds[k]
        BY <1>2, <2>4, <4>1, <4>2
      <4> QED
        BY <1>2, <4>3
    <3>3. ASSUME d <= Bounds[k] PROVE g <= k
      <4>1. c <= Bounds[k]
        BY <1>2, <3>3
      <4>2. k \notin 1..(g - 1)
        BY <2>4, <4>1
      <4> QED
        BY <3>1, <4>2
    <3> QED
      BY <3>2, <3>3
  <2>6. g \in Buckets
    BY <1>1, <2>4 DEF Finite, Buckets
  <2> QED
    BY <2>5, <2>6 DEF SlotOf, c, g
<1> QED
  BY <1>3, <1>4

\* The sets of records are finite, and there are no more in them than records.
LEMMA SlotSets ==
    ASSUME NEW ds \in Seq(Nat), NEW n \in 0..Len(ds), NEW j \in Nat
    PROVE  /\ IsFiniteSet(InSlot(ds, n, j)) /\ IsFiniteSet(InSlots(ds, n, j))
           /\ Cardinality(InSlot(ds, n, j)) \in Nat
           /\ Cardinality(InSlots(ds, n, j)) \in Nat
           /\ Cardinality(InSlots(ds, n, j)) <= n
<1>1. n \in Nat /\ n \in Int /\ 1 \in Int
  OBVIOUS
<1>2. IsFiniteSet(1..n) /\ Cardinality(1..n) = n
  BY <1>1, FS_Interval
<1>3. InSlot(ds, n, j) \in SUBSET (1..n) /\ InSlots(ds, n, j) \in SUBSET (1..n)
  BY DEF InSlot, InSlots
<1>4. /\ IsFiniteSet(InSlot(ds, n, j)) /\ IsFiniteSet(InSlots(ds, n, j))
      /\ Cardinality(InSlots(ds, n, j)) <= n
  BY <1>2, <1>3, FS_Subset
<1>5. Cardinality(InSlot(ds, n, j)) \in Nat /\ Cardinality(InSlots(ds, n, j)) \in Nat
  BY <1>4, FS_CardinalityType
<1> QED
  BY <1>1, <1>4, <1>5

\* More records count for more.
LEMMA SlotsGrow ==
    ASSUME NEW ds \in Seq(Nat), NEW p \in 0..Len(ds), NEW n \in 0..p,
           NEW j \in Nat
    PROVE  /\ Cardinality(InSlot(ds, n, j)) <= Cardinality(InSlot(ds, p, j))
           /\ Cardinality(InSlots(ds, n, j)) <= Cardinality(InSlots(ds, p, j))
<1>1. IsFiniteSet(InSlot(ds, p, j)) /\ IsFiniteSet(InSlots(ds, p, j))
  BY SlotSets
<1>2. \A m \in 1..n : m \in 1..p
  OBVIOUS
<1>3. /\ InSlot(ds, n, j) \in SUBSET InSlot(ds, p, j)
      /\ InSlots(ds, n, j) \in SUBSET InSlots(ds, p, j)
  BY <1>2 DEF InSlot, InSlots
<1> QED
  BY <1>1, <1>3, FS_Subset

\* The records up to a bucket are those up to the one before and its own.
LEMMA SlotsSplit ==
    ASSUME NEW ds \in Seq(Nat), NEW n \in 0..Len(ds), NEW j \in Nat
    PROVE  Cardinality(InSlots(ds, n, j + 1)) =
              Cardinality(InSlots(ds, n, j)) + Cardinality(InSlot(ds, n, j + 1))
<1> DEFINE S == InSlots(ds, n, j)
           T == InSlot(ds, n, j + 1)
<1>1. IsFiniteSet(S) /\ IsFiniteSet(T) /\ Cardinality(S) \in Nat
      /\ Cardinality(T) \in Nat
  <2>1. j + 1 \in Nat
    OBVIOUS
  <2> QED
    BY <2>1, SlotSets
<1>2. \A m \in 1..n : SlotOf(ds[m]) \in Nat
  <2> SUFFICES ASSUME NEW m \in 1..n PROVE SlotOf(ds[m]) \in Nat
    OBVIOUS
  <2>1. ds[m] \in Nat
    OBVIOUS
  <2> QED
    <3>1. SlotOf(ds[m]) \in Buckets
      BY <2>1, SlotFacts
    <3> QED
      BY <3>1, SizeFacts DEF Buckets
<1>3. InSlots(ds, n, j + 1) = S \cup T /\ S \cap T = {}
  <2>1. \A x \in Nat : (x <= j + 1 <=> x <= j \/ x = j + 1) /\ ~(x <= j /\ x = j + 1)
    OBVIOUS
  <2> QED
    BY <1>2, <2>1 DEF InSlots, InSlot
<1>4. Cardinality(S \cap T) = 0
  BY <1>3, FS_EmptySet
<1>5. Cardinality(S \cup T) = Cardinality(S) + Cardinality(T) - Cardinality(S \cap T)
  BY <1>1, FS_Union
<1>6. Cardinality(InSlots(ds, n, j + 1)) = Cardinality(S \cup T)
  BY <1>3
<1> HIDE DEF S, T
<1>7. Cardinality(S \cup T) = Cardinality(S) + Cardinality(T)
  BY <1>1, <1>4, <1>5
<1> QED
  BY <1>6, <1>7 DEF S, T

\* One more record adds one to its bucket and nothing to the others.
LEMMA SlotAdd ==
    ASSUME NEW ds \in Seq(Nat), NEW n \in 0..Len(ds), n < Len(ds), NEW j \in Nat
    PROVE  Cardinality(InSlot(ds, n + 1, j)) = Cardinality(InSlot(ds, n, j))
              + (IF SlotOf(ds[n + 1]) = j THEN 1 ELSE 0)
<1>1. IsFiniteSet(InSlot(ds, n, j)) /\ Cardinality(InSlot(ds, n, j)) \in Nat
  BY SlotSets
<1>2. 1..(n + 1) = (1..n) \cup {n + 1} /\ n + 1 \notin 1..n
  OBVIOUS
<1>3. CASE SlotOf(ds[n + 1]) = j
  <2>1. InSlot(ds, n + 1, j) = InSlot(ds, n, j) \cup {n + 1}
        /\ n + 1 \notin InSlot(ds, n, j)
    BY <1>2, <1>3 DEF InSlot
  <2>2. Cardinality(InSlot(ds, n, j) \cup {n + 1}) = Cardinality(InSlot(ds, n, j)) + 1
    BY <1>1, <2>1, FS_AddElement
  <2> QED
    BY <1>3, <2>1, <2>2
<1>4. CASE SlotOf(ds[n + 1]) # j
  <2>1. InSlot(ds, n + 1, j) = InSlot(ds, n, j)
    BY <1>2, <1>4 DEF InSlot
  <2> QED
    BY <1>1, <1>4, <2>1
<1> QED
  BY <1>3, <1>4

\* A new record does not change what the earlier ones count.
LEMMA SlotAppend ==
    ASSUME NEW ds \in Seq(Nat), NEW d \in Nat, NEW n \in 0..Len(ds), NEW j
    PROVE  /\ InSlot(Append(ds, d), n, j) = InSlot(ds, n, j)
           /\ InSlots(Append(ds, d), n, j) = InSlots(ds, n, j)
<1>1. \A m \in 1..n : Append(ds, d)[m] = ds[m]
  OBVIOUS
<1> QED
  BY <1>1 DEF InSlot, InSlots

\* The sums a scrape's sum line is measured against add one clamped duration
\* a record.
LEMMA SumsFacts ==
    ASSUME NEW ds \in Seq(Nat)
    PROVE  /\ Sums(ds) \in [0..Len(ds) -> Nat] /\ Sums(ds)[0] = 0
           /\ \A k \in 1..Len(ds) : Sums(ds)[k] = Sums(ds)[k - 1] + Clamp(ds[k])
<1> DEFINE n == Len(ds)
           f == [k \in 1..n |-> Clamp(ds[k])]
           F(g) == [k \in 0..n |-> IF k = 0 THEN 0 ELSE g[k - 1] +
                                   (IF ds[k] < Word THEN ds[k] ELSE Word - 1)]
           G(g) == [k \in 0..n |-> IF k = 0 THEN 0 ELSE g[k - 1] + f[k]]
           sum == CHOOSE g : g = F(g)
<1>1. n \in Nat /\ f \in [1..n -> Nat]
  BY HistogramAssumption DEF Clamp
<1>2. Sums(ds) = sum
  BY Zenon DEF Sums
<1>3. PICK g \in [0..n -> Nat] : g = G(g)
  <2> HIDE DEF n, f
  <2> QED
    BY <1>1, TotalsExist
<1>4. \A h : F(h) = G(h)
  <2> TAKE h
  <2>1. \A k \in 0..n : k # 0 => k \in 1..n
    BY <1>1
  <2>2. \A k \in 1..n : f[k] = IF ds[k] < Word THEN ds[k] ELSE Word - 1
    BY DEF Clamp
  <2> HIDE DEF f, n
  <2> QED
    BY <2>1, <2>2
<1>5. sum = G(sum)
  <2>1. g = F(g)
    BY <1>3, <1>4, Zenon
  <2>2. sum = F(sum)
    <3> HIDE DEF F
    <3> QED
      BY <2>1, Zenon
  <2> HIDE DEF F, G, sum
  <2> QED
    BY <2>2, <1>4
<1> HIDE DEF sum
<1>6. sum[0] = 0 /\ \A k \in 1..n : sum[k] = sum[k - 1] + f[k]
  <2>1. \A k \in 0..n : sum[k] = IF k = 0 THEN 0 ELSE sum[k - 1] + f[k]
    <3> HIDE DEF f, n
    <3> QED
      BY <1>5
  <2> HIDE DEF f, n
  <2> QED
    BY <1>1, <2>1
<1>7. \A k \in 0..n : sum[k] \in Nat
  <2> DEFINE S == {k \in Nat : k <= n => sum[k] \in Nat}
  <2> HIDE DEF f, n
  <2>1. 0 \in S
    BY <1>6
  <2>2. ASSUME NEW k \in Nat, k \in S PROVE k + 1 \in S
    <3>1. ASSUME k + 1 <= n PROVE sum[k + 1] \in Nat
      <4>1. k + 1 \in 1..n /\ sum[k] \in Nat /\ (k + 1) - 1 = k
        BY <1>1, <2>2, <3>1
      <4>2. f[k + 1] \in Nat
        BY <1>1, <4>1
      <4> QED
        BY <1>6, <4>1, <4>2
    <3> QED
      BY <3>1
  <2> HIDE DEF S
  <2>3. \A k \in Nat : k \in S
    BY <2>1, <2>2, SetInduction
  <2> QED
    BY <1>1, <2>3 DEF S
<1>8. sum \in [0..n -> Nat]
  <2>1. sum = [k \in 0..n |-> sum[k]]
    <3> HIDE DEF f, n
    <3> QED
      BY <1>5
  <2> HIDE DEF n
  <2> QED
    BY <1>7, <2>1
<1>9. \A k \in 1..n : f[k] = Clamp(ds[k])
  OBVIOUS
<1> HIDE DEF f
<1> QED
  BY <1>2, <1>6, <1>8, <1>9

\* Sums do not fall.
LEMMA SumsGrow ==
    ASSUME NEW ds \in Seq(Nat), NEW j \in 0..Len(ds), NEW k \in 0..j
    PROVE  Sums(ds)[k] <= Sums(ds)[j]
<1> DEFINE n == Len(ds)
           s == Sums(ds)
           S == {i \in Nat : k + i <= n => s[k] <= s[k + i]}
<1>1. n \in Nat /\ s \in [0..n -> Nat] /\ \A i \in 1..n : s[i] = s[i - 1] + Clamp(ds[i])
  BY SumsFacts
<1>2. \A i \in 1..n : Clamp(ds[i]) \in Nat
  BY HistogramAssumption DEF Clamp
<1>3. j \in 0..n /\ k \in 0..j
  OBVIOUS
<1> HIDE DEF n, s
<1>4. k \in 0..n /\ k \in Nat /\ s[k] \in Nat /\ j - k \in Nat /\ k + (j - k) = j
  BY <1>1, <1>3
<1>5. 0 \in S
  BY <1>4
<1>6. ASSUME NEW i \in Nat, i \in S PROVE i + 1 \in S
  <2>1. SUFFICES ASSUME k + (i + 1) <= n PROVE s[k] <= s[k + (i + 1)]
    OBVIOUS
  <2>2. k + (i + 1) \in 1..n /\ (k + (i + 1)) - 1 = k + i /\ k + i \in 0..n
    BY <1>1, <1>4, <2>1
  <2>3. s[k + i] \in Nat /\ s[k] <= s[k + i]
    BY <1>1, <1>4, <1>6, <2>1, <2>2
  <2>4. s[k + (i + 1)] = s[k + i] + Clamp(ds[k + (i + 1)])
        /\ Clamp(ds[k + (i + 1)]) \in Nat
    BY <1>1, <1>2, <2>2
  <2> QED
    BY <1>4, <2>3, <2>4
<1> HIDE DEF S
<1>7. \A i \in Nat : i \in S
  BY <1>5, <1>6, SetInduction
<1>8. \A i \in Nat : k + i = j => s[k] <= s[j]
  <2> SUFFICES ASSUME NEW i \in Nat, k + i = j PROVE s[k] <= s[j]
    OBVIOUS
  <2>1. i \in S /\ k + i <= n
    BY <1>1, <1>3, <1>7
  <2> QED
    BY <2>1 DEF S
<1>9. s[k] <= s[j]
  BY <1>4, <1>8
<1> QED
  BY <1>9 DEF s

\* A new record leaves the sums of the earlier ones.
LEMMA SumsAppend ==
    ASSUME NEW ds \in Seq(Nat), NEW d \in Nat, NEW k \in 0..Len(ds)
    PROVE  Sums(Append(ds, d))[k] = Sums(ds)[k]
<1> DEFINE n == Len(ds)
           s == Sums(ds)
           t == Sums(Append(ds, d))
           S == {i \in Nat : i <= n => t[i] = s[i]}
<1>1. n \in Nat /\ s[0] = 0 /\ \A i \in 1..n : s[i] = s[i - 1] + Clamp(ds[i])
  BY SumsFacts
<1>2. Append(ds, d) \in Seq(Nat) /\ Len(Append(ds, d)) = n + 1
      /\ \A i \in 1..n : Append(ds, d)[i] = ds[i]
  OBVIOUS
<1>3. t[0] = 0 /\ \A i \in 1..(n + 1) : t[i] = t[i - 1] + Clamp(Append(ds, d)[i])
  BY <1>2, SumsFacts
<1>4. \A i \in 1..n : t[i] = t[i - 1] + Clamp(ds[i])
  BY <1>1, <1>2, <1>3, SMTT(30)
<1>5. k \in Nat /\ k <= n
  OBVIOUS
<1> HIDE DEF n, s, t
<1>6. 0 \in S
  BY <1>1, <1>3
<1>7. ASSUME NEW i \in Nat, i \in S PROVE i + 1 \in S
  <2>1. SUFFICES ASSUME i + 1 <= n PROVE t[i + 1] = s[i + 1]
    OBVIOUS
  <2>2. i + 1 \in 1..n /\ (i + 1) - 1 = i /\ t[i] = s[i]
    BY <1>1, <1>7, <2>1
  <2> QED
    BY <1>1, <1>4, <2>2
<1> HIDE DEF S
<1>8. \A i \in Nat : i \in S
  BY <1>6, <1>7, SetInduction
<1> QED
  BY <1>5, <1>8 DEF S, s, t

\* The counts of the history are numbers, and in order.
LEMMA HistoryFacts ==
    ASSUME HistoryInv, before \in Nat, before <= Recorded
    PROVE  /\ begun \in Seq(Nat) /\ Len(begun) \in Nat
           /\ Recorded \in 0..Len(begun) /\ before \in 0..Len(begun)
           /\ Added \in 0..Len(begun) /\ Summed \in 0..Len(begun)
           /\ before \in 0..Added /\ before \in 0..Summed
           /\ Added <= Recorded + 1 /\ Recorded <= Added /\ Recorded <= Summed
<1>1. begun \in Seq(Nat) /\ Len(begun) \in Nat
  BY DEF HistoryInv
<1> QED
  BY <1>1 DEF HistoryInv, Recorded, Added, Summed

\* Nothing is recorded and no line written.
LEMMA InitScrapeInv == Init => ScrapeInv
<1> SUFFICES ASSUME Init PROVE ScrapeInv
  OBVIOUS
<1>1. /\ begun = <<>> /\ Len(begun) = 0 /\ Added = 0 /\ Summed = 0 /\ Recorded = 0
      /\ before = 0 /\ begun \in Seq(Nat)
  BY DEF Init, Added, Summed, Recorded
<1>2. SumOf(0) = 0
  BY <1>1, SumsFacts DEF SumOf
<1>3. \A j : Cardinality(InSlot(begun, 0, j)) = 0 /\ Cardinality(InSlots(begun, 0, j)) = 0
  <2> TAKE j
  <2>1. InSlot(begun, 0, j) = {} /\ InSlots(begun, 0, j) = {}
    BY DEF InSlot, InSlots
  <2> QED
    BY <2>1, FS_EmptySet
<1>4. HistoryInv
  BY <1>1, <1>2, <1>3 DEF Init, HistoryInv
<1>5. BracketInv
  BY <1>1, <1>2, <1>3 DEF Init, BracketInv, Between
<1> QED
  BY <1>4, <1>5 DEF ScrapeInv

\* The steps of record() move one record through the history; what a scrape
\* has written stays bracketed because the upper ends only grow.
LEMMA UpperEndsGrow ==
    ASSUME BracketInv, HistoryInv, LineInv, HistoryInv',
           UNCHANGED <<spc, b, cumulative, le, total, secs, before>>,
           Recorded <= Recorded',
           \A k \in Nat : InSlots(begun, before, k)' = InSlots(begun, before, k),
           \A k \in Nat : Cardinality(InSlots(begun, Added, k)) <=
                          Cardinality(InSlots(begun, Added, k)'),
           SumOf(before)' = SumOf(before),
           SumOf(Len(begun)) <= SumOf(Len(begun))'
    PROVE  BracketInv'
<1>1. /\ before \in Nat /\ before' = before /\ before <= Recorded'
      /\ Recorded \in Nat /\ Recorded' \in Nat
  BY HistogramAssumption DEF BracketInv, HistoryInv, Recorded
<1>2. /\ begun \in Seq(Nat) /\ before \in 0..Len(begun) /\ Added \in 0..Len(begun)
      /\ Len(begun) \in Nat
  BY HistoryFacts, <1>1 DEF BracketInv
<1>3. /\ begun' \in Seq(Nat) /\ (Added \in 0..Len(begun))' /\ Len(begun)' \in Nat
  BY DEF HistoryInv, Added
<1>4. ASSUME NEW v \in Nat, NEW k \in Nat, Between(v, k) PROVE Between(v, k)'
  <2>1. Cardinality(InSlots(begun, Added, k)) \in Nat
    BY <1>2, SlotSets
  <2>2. Cardinality(InSlots(begun, Added, k)') \in Nat
    BY <1>3, SlotSets
  <2>3. v <= Cardinality(InSlots(begun, Added, k)')
    BY <1>4, <2>1, <2>2 DEF Between
  <2> QED
    BY <1>1, <1>4, <2>3 DEF Between
<1>5. b - 1 \in Nat /\ \A k \in Finite : k \in Nat /\ le[k] \in Nat
  BY SizeFacts DEF LineInv, Finite, Buckets
<1>6. (spc = "buckets" => cumulative \in Nat /\ Between(cumulative, b - 1))'
  BY <1>4, <1>5 DEF BracketInv
<1>7. (\A k \in Finite : spc # "buckets" \/ k < b => Between(le[k], k))'
  BY <1>4, <1>5 DEF BracketInv
<1>8. (spc = "idle" /\ SumOf(Len(begun)) < Word =>
          /\ secs \in Nat /\ SumOf(before) <= secs /\ secs <= SumOf(Len(begun)))'
  <2>1. SumOf(Len(begun)) \in Nat /\ SumOf(Len(begun))' \in Nat
    <3>1. \A ds \in Seq(Nat) : Sums(ds)[Len(ds)] \in Nat
      <4> TAKE ds \in Seq(Nat)
      <4>1. Len(ds) \in 0..Len(ds)
        OBVIOUS
      <4> QED
        BY <4>1, SumsFacts
    <3> QED
      BY <1>2, <1>3, <3>1 DEF SumOf
  <2> QED
    BY <2>1, HistogramAssumption DEF BracketInv
<1>9. (spc # "buckets" => before <= total /\ total <= Recorded
          /\ \A k \in Finite : le[k] <= total + 1)'
  BY <1>1 DEF BracketInv
<1> QED
  BY <1>1, <1>6, <1>7, <1>8, <1>9 DEF BracketInv

\* record() measures a duration: no counter has moved yet.
LEMMA ObserveScrapeInv ==
    ASSUME ScrapeInv, LineInv, NEW d \in Durations, Observe(d)
    PROVE  ScrapeInv'
<1>0. HistoryInv /\ BracketInv
  BY DEF ScrapeInv
<1>1. /\ rpc = "idle" /\ rpc' = "bucket" /\ nanos' = Clamp(d)
      /\ begun' = Append(begun, d)
      /\ UNCHANGED <<buckets, sum_ns, count>>
      /\ UNCHANGED <<spc, b, cumulative, le, total, secs, before>>
  BY DEF Observe, renderVars
<1>2. d \in Nat
  BY HistogramAssumption
<1>3. /\ begun \in Seq(Nat) /\ Len(begun) \in Nat /\ before \in 0..Len(begun)
  BY <1>0, HistoryFacts DEF BracketInv
<1>4. /\ begun' \in Seq(Nat) /\ Len(begun') = Len(begun) + 1
      /\ begun'[Len(begun')] = d
  BY <1>1, <1>2, <1>3
<1>5. /\ Added = Len(begun) /\ Summed = Len(begun) /\ Recorded = Len(begun)
      /\ Added' = Len(begun) /\ Summed' = Len(begun) /\ Recorded' = Len(begun)
  BY <1>1, <1>3, <1>4 DEF Added, Summed, Recorded
<1>6. \A n \in 0..Len(begun), j \in Nat :
         /\ InSlot(begun', n, j) = InSlot(begun, n, j)
         /\ InSlots(begun', n, j) = InSlots(begun, n, j)
  BY <1>1, <1>2, <1>3, SlotAppend
<1>7. \A n \in 0..Len(begun) : Sums(begun')[n] = Sums(begun)[n]
  BY <1>1, <1>2, <1>3, SumsAppend
<1>8. Len(begun) \in 0..Len(begun) /\ Buckets \subseteq Nat
  BY <1>3, SizeFacts DEF Buckets
<1>9. HistoryInv'
  <2>1. \A j \in Buckets : buckets'[j] = Cardinality(InSlot(begun', Added', j))
    BY <1>0, <1>1, <1>5, <1>6, <1>8 DEF HistoryInv
  <2>2. SumOf(Summed)' < Word => sum_ns' = SumOf(Summed)'
    BY <1>0, <1>1, <1>5, <1>7, <1>8 DEF HistoryInv, SumOf
  <2> QED
    BY <1>0, <1>1, <1>3, <1>4, <1>5, <2>1, <2>2 DEF HistoryInv
<1>10. SumOf(before)' = SumOf(before)
  BY <1>1, <1>3, <1>7 DEF SumOf
<1>11. SumOf(Len(begun)) <= SumOf(Len(begun))'
  <2>1. Sums(begun')[Len(begun)] <= Sums(begun')[Len(begun')]
    <3>1. Len(begun') \in 0..Len(begun') /\ Len(begun) \in 0..Len(begun')
      BY <1>3, <1>4
    <3> QED
      BY <1>4, <3>1, SumsGrow
  <2> QED
    BY <1>7, <1>8, <2>1 DEF SumOf
<1>12. \A k \in Nat : /\ InSlots(begun, before, k)' = InSlots(begun, before, k)
                      /\ InSlots(begun, Added, k)' = InSlots(begun, Added, k)
  BY <1>1, <1>3, <1>5, <1>6, <1>8
<1>13. \A k \in Nat : Cardinality(InSlots(begun, Added, k)) <=
                      Cardinality(InSlots(begun, Added, k)')
  <2> SUFFICES ASSUME NEW k \in Nat
               PROVE  Cardinality(InSlots(begun, Added, k)) <=
                      Cardinality(InSlots(begun, Added, k)')
    OBVIOUS
  <2>1. Cardinality(InSlots(begun, Added, k)) \in Nat
    BY <1>3, <1>5, <1>8, SlotSets
  <2> QED
    BY <1>12, <2>1
<1>14. Recorded <= Recorded'
  BY <1>3, <1>5
<1>15. BracketInv'
  BY <1>0, <1>1, <1>9, <1>10, <1>11, <1>12, <1>13, <1>14, UpperEndsGrow
<1> QED
  BY <1>9, <1>15 DEF ScrapeInv

\* The three fetch_adds of record().
LEMMA RecordScrapeInv ==
    ASSUME ScrapeInv, LineInv, AddBucket \/ AddSum \/ AddCount
    PROVE  ScrapeInv'
<1>0. HistoryInv /\ BracketInv
  BY DEF ScrapeInv
<1>1. /\ UNCHANGED <<begun, nanos>>
      /\ UNCHANGED <<spc, b, cumulative, le, total, secs, before>>
  BY DEF AddBucket, AddSum, AddCount, renderVars
<1>2. /\ begun \in Seq(Nat) /\ Len(begun) \in Nat /\ before \in 0..Len(begun)
      /\ Len(begun) \in 0..Len(begun)
      /\ Added \in 0..Len(begun) /\ Summed \in 0..Len(begun)
      /\ before \in 0..Added
  BY <1>0, HistoryFacts DEF BracketInv
<1>3. rpc # "idle" /\ Len(begun) > 0 /\ nanos = Clamp(begun[Len(begun)])
  BY <1>0 DEF HistoryInv, AddBucket, AddSum, AddCount
<1> DEFINE n == Len(begun) - 1
<1>4. n \in Nat /\ n \in 0..Len(begun) /\ n + 1 = Len(begun) /\ n < Len(begun)
  BY <1>2, <1>3
<1>5. Buckets \subseteq Nat
  BY SizeFacts DEF Buckets
<1>6. CASE AddBucket
  <2>1. /\ rpc = "bucket" /\ rpc' = "sum" /\ UNCHANGED <<sum_ns, count>>
        /\ buckets' = [buckets EXCEPT ![BucketOf(nanos)] = @ + 1]
    BY <1>6 DEF AddBucket
  <2>2. /\ Added = n /\ Added' = n + 1 /\ Summed = n /\ Summed' = n
        /\ Recorded = n /\ Recorded' = n
    BY <1>1, <1>4, <2>1 DEF Added, Summed, Recorded
  <2>3. \A j \in Buckets : buckets'[j] = Cardinality(InSlot(begun, n + 1, j))
    <3> SUFFICES ASSUME NEW j \in Buckets
                 PROVE  buckets'[j] = Cardinality(InSlot(begun, n + 1, j))
      OBVIOUS
    <3>1. buckets[j] = Cardinality(InSlot(begun, n, j)) /\ buckets[j] \in Nat
      BY <1>0, <2>2 DEF HistoryInv, LineInv
    <3>2. BucketOf(nanos) = SlotOf(begun[n + 1])
      BY <1>3, <1>4 DEF SlotOf
    <3>3. buckets'[j] = buckets[j] + (IF SlotOf(begun[n + 1]) = j THEN 1 ELSE 0)
      <4>1. buckets \in [Buckets -> Nat]
        BY DEF LineInv
      <4> HIDE DEF n
      <4> QED
        BY <2>1, <3>1, <3>2, <4>1
    <3>4. Cardinality(InSlot(begun, n + 1, j)) = Cardinality(InSlot(begun, n, j))
             + (IF SlotOf(begun[n + 1]) = j THEN 1 ELSE 0)
      <4> HIDE DEF n
      <4> QED
        BY <1>2, <1>4, <1>5, SlotAdd
    <3> HIDE DEF n
    <3> QED
      BY <3>1, <3>3, <3>4
  <2>4. HistoryInv'
    BY <1>0, <1>1, <1>3, <2>1, <2>2, <2>3 DEF HistoryInv, SumOf
  <2>5. \A k \in Nat : Cardinality(InSlots(begun, n, k)) <=
                       Cardinality(InSlots(begun, n + 1, k))
    <3>1. n + 1 \in 0..Len(begun) /\ n \in 0..(n + 1)
      BY <1>4
    <3> HIDE DEF n
    <3> QED
      BY <1>2, <3>1, SlotsGrow
  <2> HIDE DEF n
  <2>6. \A k \in Nat : Cardinality(InSlots(begun, Added, k)) <=
                       Cardinality(InSlots(begun, Added, k)')
    BY <1>1, <2>2, <2>5
  <2>7. /\ SumOf(before)' = SumOf(before) /\ SumOf(Len(begun))' = SumOf(Len(begun))
        /\ \A k : InSlots(begun, before, k)' = InSlots(begun, before, k)
    BY <1>1 DEF SumOf, InSlots
  <2>8. SumOf(Len(begun)) \in Nat
    BY <1>2, SumsFacts DEF SumOf
  <2>9. BracketInv'
    BY <1>0, <1>1, <1>4, <2>2, <2>4, <2>6, <2>7, <2>8, UpperEndsGrow
  <2> QED
    BY <2>4, <2>9 DEF ScrapeInv
<1>7. CASE AddSum \/ AddCount
  <2>1. /\ UNCHANGED buckets /\ rpc \in {"sum", "count"} /\ rpc' \in {"count", "idle"}
        /\ Added = n + 1 /\ Added' = n + 1
        /\ Recorded = n /\ Recorded' \in {n, n + 1}
    BY <1>1, <1>4, <1>7 DEF AddSum, AddCount, Added, Recorded
  <2>2. (SumOf(Summed) < Word => sum_ns = SumOf(Summed))' /\ count' = Recorded'
    <3>1. CASE AddSum
      <4>1. /\ Summed = n /\ Summed' = n + 1 /\ sum_ns' = (sum_ns + nanos) % Word
            /\ count' = count /\ Recorded' = n
        BY <1>1, <1>4, <3>1 DEF AddSum, Summed, Recorded
      <4>2. /\ Sums(begun)[n + 1] = Sums(begun)[n] + nanos
            /\ Sums(begun)[n] \in Nat /\ nanos \in Nat
        <5>1. begun[n + 1] \in Nat
          BY <1>2, <1>4
        <5>2. Clamp(begun[n + 1]) \in Nat
          BY <5>1, HistogramAssumption DEF Clamp
        <5>3. n + 1 \in 1..Len(begun) /\ (n + 1) - 1 = n
          BY <1>4
        <5> HIDE DEF n
        <5> QED
          BY <1>2, <1>3, <1>4, <5>2, <5>3, SumsFacts
      <4>3. SumOf(Summed)' = Sums(begun)[n + 1] /\ SumOf(Summed) = Sums(begun)[n]
        BY <1>1, <4>1 DEF SumOf
      <4> HIDE DEF n
      <4>4. Sums(begun)[n + 1] < Word => sum_ns' = Sums(begun)[n + 1]
        <5> SUFFICES ASSUME Sums(begun)[n + 1] < Word
                     PROVE  sum_ns' = Sums(begun)[n + 1]
          OBVIOUS
        <5>1. Word \in Nat /\ Sums(begun)[n] < Word
          BY <4>2, HistogramAssumption
        <5>2. sum_ns = Sums(begun)[n]
          BY <1>0, <4>3, <5>1 DEF HistoryInv
        <5>3. \A x \in Nat : x < Word => x % Word = x
          BY <5>1
        <5> QED
          BY <4>1, <4>2, <5>2, <5>3
      <4> QED
        BY <1>0, <2>1, <4>1, <4>3, <4>4 DEF HistoryInv
    <3>2. CASE AddCount
      <4>1. /\ Summed = n + 1 /\ Summed' = n + 1 /\ sum_ns' = sum_ns
            /\ count' = count + 1 /\ Recorded' = n + 1
        BY <1>1, <1>4, <3>2 DEF AddCount, Summed, Recorded
      <4> HIDE DEF n
      <4> QED
        BY <1>0, <1>1, <2>1, <4>1 DEF HistoryInv, SumOf
    <3> QED
      BY <1>7, <3>1, <3>2
  <2>3. HistoryInv'
    <3>1. \A j \in Buckets : buckets'[j] = Cardinality(InSlot(begun', Added', j))
      BY <1>0, <1>1, <2>1 DEF HistoryInv
    <3> HIDE DEF n
    <3> QED
      BY <1>0, <1>1, <1>3, <2>1, <2>2, <3>1 DEF HistoryInv
  <2> HIDE DEF n
  <2>4. /\ SumOf(before)' = SumOf(before) /\ SumOf(Len(begun))' = SumOf(Len(begun))
        /\ \A k : InSlots(begun, before, k)' = InSlots(begun, before, k)
        /\ \A k : InSlots(begun, Added, k)' = InSlots(begun, Added, k)
    BY <1>1, <2>1 DEF SumOf, InSlots
  <2>5. SumOf(Len(begun)) \in Nat
    BY <1>2, SumsFacts DEF SumOf
  <2>6. \A k \in Nat : Cardinality(InSlots(begun, Added, k)) <=
                       Cardinality(InSlots(begun, Added, k)')
    <3> SUFFICES ASSUME NEW k \in Nat
                 PROVE  Cardinality(InSlots(begun, Added, k)) <=
                        Cardinality(InSlots(begun, Added, k)')
      OBVIOUS
    <3>1. Cardinality(InSlots(begun, Added, k)) \in Nat
      BY <1>2, SlotSets
    <3> QED
      BY <2>4, <3>1
  <2>7. Recorded <= Recorded'
    BY <1>4, <2>1
  <2>8. BracketInv'
    BY <1>0, <1>1, <2>3, <2>4, <2>5, <2>6, <2>7, UpperEndsGrow
  <2> QED
    BY <2>3, <2>8 DEF ScrapeInv
<1> QED
  BY <1>6, <1>7

\* render reads: each line is bracketed when it is written, because its bucket
\* held at least what it held when the scrape began and holds no more than
\* what has been added.
LEMMA RenderScrapeInv ==
    ASSUME ScrapeInv, LineInv, StartRender \/ ReadBucket \/ ReadCount \/ ReadSum
    PROVE  ScrapeInv'
<1>0. HistoryInv /\ BracketInv
  BY DEF ScrapeInv
<1>1. /\ UNCHANGED <<buckets, sum_ns, count, rpc, nanos, begun>>
      /\ UNCHANGED <<Added, Summed, Recorded>>
  BY DEF StartRender, ReadBucket, ReadCount, Total, ReadSum, recordVars, Added, Summed,
         Recorded
<1>2. HistoryInv'
  BY <1>0, <1>1 DEF HistoryInv, SumOf
<1>3. /\ begun \in Seq(Nat) /\ Len(begun) \in Nat /\ before \in 0..Len(begun)
      /\ Added \in 0..Len(begun) /\ Summed \in 0..Len(begun)
      /\ Recorded \in 0..Len(begun) /\ before \in 0..Added /\ before \in 0..Summed
      /\ Added <= Recorded + 1 /\ Recorded <= Added /\ Recorded <= Summed
  BY <1>0, HistoryFacts DEF BracketInv
<1>4. NUM_BUCKETS \in Nat /\ b \in Nat /\ b > 0 /\ \A k \in Finite : k \in Nat
  BY SizeFacts DEF LineInv, Buckets, Finite
<1>5. CASE StartRender
  <2>1. /\ cumulative' = 0 /\ b' = 1 /\ before' = Recorded /\ spc' = "buckets"
        /\ UNCHANGED <<le, total, secs>>
    BY <1>5 DEF StartRender
  <2>2. Between(cumulative, b - 1)'
    <3>1. \A n \in 0..Len(begun) : Cardinality(InSlots(begun, n, 0)) = 0
      <4> SUFFICES ASSUME NEW n \in 0..Len(begun)
                   PROVE  Cardinality(InSlots(begun, n, 0)) = 0
        OBVIOUS
      <4>1. \A m \in 1..n : SlotOf(begun[m]) \in Buckets
        <5> SUFFICES ASSUME NEW m \in 1..n PROVE SlotOf(begun[m]) \in Buckets
          OBVIOUS
        <5>1. begun[m] \in Nat
          BY <1>3
        <5> QED
          BY <5>1, SlotFacts
      <4>2. InSlots(begun, n, 0) = {}
        BY <4>1, SizeFacts DEF InSlots, Buckets
      <4> QED
        BY <4>2, FS_EmptySet
    <3> QED
      BY <1>1, <1>3, <2>1, <3>1 DEF Between
  <2>3. BracketInv'
    <3>1. before' \in Nat /\ before' <= Recorded' /\ total' \in Nat
      BY <1>0, <1>1, <1>3, <2>1 DEF BracketInv
    <3>2. \A k \in Finite : ~(k < b')
      BY <1>4, <2>1 DEF Finite
    <3> QED
      BY <2>1, <2>2, <3>1, <3>2 DEF BracketInv
  <2> QED
    BY <1>2, <2>3 DEF ScrapeInv
<1>6. CASE ReadBucket
  <2> DEFINE v == cumulative + buckets[b]
  <2>1. /\ spc = "buckets" /\ b <= NUM_BUCKETS /\ cumulative' = v
        /\ le' = [le EXCEPT ![b] = v] /\ b' = b + 1
        /\ UNCHANGED <<spc, total, secs, before>>
    BY <1>6 DEF ReadBucket, RunningSum
  <2>2. b \in Finite /\ b \in Buckets /\ b - 1 \in Nat /\ (b - 1) + 1 = b
    BY <1>4, <2>1, SizeFacts DEF Finite, Buckets
  <2>3. /\ cumulative \in Nat /\ Between(cumulative, b - 1)
        /\ buckets[b] = Cardinality(InSlot(begun, Added, b)) /\ buckets[b] \in Nat
    BY <1>0, <2>1, <2>2 DEF BracketInv, HistoryInv, LineInv
  <2>4. Between(v, b)
    <3> DEFINE C(n, k) == Cardinality(InSlots(begun, n, k))
               D(n) == Cardinality(InSlot(begun, n, b))
    <3>1. /\ C(before, b) = C(before, b - 1) + D(before)
          /\ C(Added, b) = C(Added, b - 1) + D(Added)
      BY <1>3, <2>2, SlotsSplit
    <3>2. D(before) <= D(Added)
      BY <1>3, <1>4, SlotsGrow
    <3>3. /\ C(before, b - 1) \in Nat /\ C(Added, b - 1) \in Nat
          /\ D(before) \in Nat /\ D(Added) \in Nat
      BY <1>3, <1>4, <2>2, SlotSets
    <3>4. C(before, b - 1) <= cumulative /\ cumulative <= C(Added, b - 1)
      BY <2>3 DEF Between
    <3>5. buckets[b] = D(Added)
      BY <2>3
    <3> HIDE DEF C, D
    <3>6. C(before, b) <= v /\ v <= C(Added, b)
      BY <2>3, <3>1, <3>2, <3>3, <3>4, <3>5
    <3> QED
      BY <3>6 DEF Between, C
  <2>5. v \in Nat
    BY <2>3
  <2> HIDE DEF v
  <2>6. \A x, k : Between(x, k) <=>
            /\ Cardinality(InSlots(begun, before, k)) <= x
            /\ x <= Cardinality(InSlots(begun, Added, k))
    BY DEF Between
  <2>7. (spc = "buckets" => cumulative \in Nat /\ Between(cumulative, b - 1))'
    <3>1. b' - 1 = b
      BY <1>4, <2>1
    <3> QED
      BY <1>1, <2>1, <2>4, <2>5, <3>1 DEF Between
  <2>8. \A k \in Finite : k < b' => (k = b /\ le'[k] = v) \/ (k < b /\ le'[k] = le[k])
    <3>1. le \in [Finite -> Nat]
      BY DEF LineInv
    <3> QED
      BY <1>4, <2>1, <2>2, <3>1
  <2>9. (\A k \in Finite : spc # "buckets" \/ k < b => Between(le[k], k))'
    <3> SUFFICES ASSUME NEW k \in Finite, k < b' PROVE Between(le[k], k)'
      BY <2>1
    <3>1. Between(le'[k], k)
      BY <1>0, <2>4, <2>8 DEF BracketInv
    <3> QED
      BY <1>1, <2>1, <3>1 DEF Between
  <2>10. BracketInv'
    BY <1>0, <1>1, <2>1, <2>7, <2>9 DEF BracketInv
  <2> QED
    BY <1>2, <2>10 DEF ScrapeInv
<1>7. CASE ReadCount
  <2>1. /\ spc = "buckets" /\ b > NUM_BUCKETS /\ total' = count /\ spc' = "sum"
        /\ UNCHANGED <<b, cumulative, le, secs, before>>
    BY <1>7 DEF ReadCount, Total
  <2>2. \A k \in Finite : Between(le[k], k)
    BY <1>0, <1>4, <2>1 DEF BracketInv, Finite
  <2>3. \A k \in Finite : le[k] <= total' + 1
    <3> SUFFICES ASSUME NEW k \in Finite PROVE le[k] <= total' + 1
      OBVIOUS
    <3>1. /\ le[k] \in Nat /\ le[k] <= Cardinality(InSlots(begun, Added, k))
      BY <2>2 DEF Between, LineInv
    <3>2. /\ Cardinality(InSlots(begun, Added, k)) \in Nat
          /\ Cardinality(InSlots(begun, Added, k)) <= Added
      BY <1>3, <1>4, SlotSets
    <3>3. total' = Recorded /\ Added \in Nat /\ Recorded \in Nat
      BY <1>0, <1>3, <2>1 DEF HistoryInv
    <3> QED
      BY <1>3, <3>1, <3>2, <3>3
  <2>4. total' = Recorded /\ Recorded \in Nat
    BY <1>0, <1>3, <2>1 DEF HistoryInv
  <2>5. \A k \in Finite : Between(le[k], k)'
    BY <1>1, <2>1, <2>2 DEF Between
  <2>6. BracketInv'
    BY <1>0, <1>1, <2>1, <2>3, <2>4, <2>5 DEF BracketInv
  <2> QED
    BY <1>2, <2>6 DEF ScrapeInv
<1>8. CASE ReadSum
  <2>1. /\ spc = "sum" /\ secs' = sum_ns /\ spc' = "idle"
        /\ UNCHANGED <<b, cumulative, le, total, before>>
    BY <1>8 DEF ReadSum
  <2>2. \A k \in Finite : Between(le[k], k)'
    BY <1>0, <1>1, <2>1 DEF Between, BracketInv
  <2>3. SumOf(Len(begun)) < Word =>
            secs' \in Nat /\ SumOf(before) <= secs' /\ secs' <= SumOf(Len(begun))
    <3> SUFFICES ASSUME SumOf(Len(begun)) < Word
                 PROVE  secs' \in Nat /\ SumOf(before) <= secs'
                        /\ secs' <= SumOf(Len(begun))
      OBVIOUS
    <3>1. SumOf(before) <= SumOf(Summed) /\ SumOf(Summed) <= SumOf(Len(begun))
      <4>1. Len(begun) \in 0..Len(begun)
        BY <1>3
      <4> QED
        BY <1>3, <4>1, SumsGrow DEF SumOf
    <3>2. SumOf(Summed) \in Nat /\ SumOf(Len(begun)) \in Nat
      <4>1. Len(begun) \in 0..Len(begun)
        BY <1>3
      <4> QED
        BY <1>3, <4>1, SumsFacts DEF SumOf
    <3>3. sum_ns = SumOf(Summed)
      BY <1>0, <3>1, <3>2, HistogramAssumption DEF HistoryInv
    <3> QED
      BY <2>1, <3>1, <3>2, <3>3
  <2>4. SumOf(Len(begun))' = SumOf(Len(begun)) /\ SumOf(before)' = SumOf(before)
    BY <1>1, <2>1 DEF SumOf
  <2>5. BracketInv'
    BY <1>0, <1>1, <2>1, <2>2, <2>3, <2>4 DEF BracketInv
  <2> QED
    BY <1>2, <2>5 DEF ScrapeInv
<1> QED
  BY <1>5, <1>6, <1>7, <1>8

\* The registry and its handlers do the rest without touching the histogram.
LEMMA NextScrapeInv == ScrapeInv /\ IInv /\ [MetricsNext]_allVars => ScrapeInv'
<1> SUFFICES ASSUME ScrapeInv, IInv, [MetricsNext]_allVars PROVE ScrapeInv'
  OBVIOUS
<1>0. LineInv
  BY DEF IInv
<1>1. CASE \E d \in Durations : Decode(d)
  BY <1>0, <1>1, ObserveScrapeInv DEF Decode
<1>2. CASE RecordStep
  BY <1>0, <1>2, RecordScrapeInv DEF RecordStep
<1>3. CASE RenderStep
  BY <1>0, <1>3, RenderScrapeInv DEF RenderStep
<1>4. CASE UNCHANGED vars
  BY <1>4 DEF vars, ScrapeInv, HistoryInv, BracketInv, Between, Added, Summed,
              Recorded, SumOf, InSlot, InSlots
<1>5. \/ \E d \in Durations : Decode(d)
      \/ RecordStep \/ RenderStep \/ UNCHANGED vars
  BY DEF MetricsNext, CountMessage, Flip, Scrape, ShowUp, AskHealth, ReadFlag,
         AnswerHealth, allVars
<1> QED
  BY <1>1, <1>2, <1>3, <1>4, <1>5

\* The inductive invariant of the histogram and its history.
THEOREM SpecScrapeInv == MetricsSpec => []ScrapeInv
<1>1. MetricsInit => ScrapeInv
  BY InitScrapeInv DEF MetricsInit
<1> QED
  BY <1>1, NextScrapeInv, SpecIInv, PTL DEF MetricsSpec

\* Whatever record() does while /metrics renders, each line of a finished
\* scrape counts every record that was complete when the scrape began and
\* none that had not begun when it ended: each duration is on the right side
\* of every bound, the sum up to its first wrap.
THEOREM MetricsScrapeIsBracketed == MetricsSpec => []ScrapeIsBracketed
<1>1. ScrapeInv /\ IInv => ScrapeIsBracketed
  <2> SUFFICES ASSUME ScrapeInv, IInv, spc = "idle" PROVE ScrapeIsBracketed
    BY DEF ScrapeIsBracketed
  <2>0. HistoryInv /\ BracketInv /\ LineInv
    BY DEF ScrapeInv, IInv
  <2>1. /\ begun \in Seq(Nat) /\ Len(begun) \in Nat /\ before \in 0..Len(begun)
        /\ Added \in 0..Len(begun) /\ Len(begun) \in 0..Len(begun)
        /\ Recorded \in 0..Len(begun)
    BY <2>0, HistoryFacts DEF BracketInv
  <2>2. \A n \in 0..Len(begun), k \in Finite :
           CountUpTo(n, Bounds[k]) = Cardinality(InSlots(begun, n, k))
    <3> SUFFICES ASSUME NEW n \in 0..Len(begun), NEW k \in Finite
                 PROVE  CountUpTo(n, Bounds[k]) = Cardinality(InSlots(begun, n, k))
      OBVIOUS
    <3>1. \A m \in 1..n : SlotOf(begun[m]) <= k <=> begun[m] <= Bounds[k]
      <4> SUFFICES ASSUME NEW m \in 1..n
                   PROVE  SlotOf(begun[m]) <= k <=> begun[m] <= Bounds[k]
        OBVIOUS
      <4>1. begun[m] \in Nat
        BY <2>1
      <4> QED
        BY <4>1, SlotFacts
    <3>2. {m \in 1..n : begun[m] <= Bounds[k]} = InSlots(begun, n, k)
      BY <3>1 DEF InSlots
    <3> QED
      BY <3>2 DEF CountUpTo
  <2>3. ASSUME NEW k \in Finite
        PROVE  /\ CountUpTo(before, Bounds[k]) <= le[k]
               /\ le[k] <= CountUpTo(Len(begun), Bounds[k])
    <3>1. Between(le[k], k) /\ le[k] \in Nat /\ k \in Nat
      BY <2>0, SizeFacts DEF BracketInv, LineInv, Finite
    <3>2. Cardinality(InSlots(begun, Added, k)) <=
             Cardinality(InSlots(begun, Len(begun), k))
      BY <2>1, <3>1, SlotsGrow
    <3>3. /\ Cardinality(InSlots(begun, Added, k)) \in Nat
          /\ Cardinality(InSlots(begun, Len(begun), k)) \in Nat
      BY <2>1, <3>1, SlotSets
    <3>4. /\ Cardinality(InSlots(begun, before, k)) <= le[k]
          /\ le[k] <= Cardinality(InSlots(begun, Len(begun), k))
      BY <3>1, <3>2, <3>3 DEF Between
    <3> QED
      BY <2>1, <2>2, <3>4
  <2>4. before <= total /\ total <= Len(begun)
    BY <2>0, <2>1 DEF BracketInv
  <2>5. SumOf(Len(begun)) < Word =>
           SumOf(before) <= secs /\ secs <= SumOf(Len(begun))
    BY <2>0 DEF BracketInv
  <2> QED
    BY <2>3, <2>4, <2>5 DEF ScrapeIsBracketed
<1> QED
  BY <1>1, SpecScrapeInv, SpecIInv, PTL

\* With any number of records during a scrape, none of its bucket lines is
\* above its +Inf line by more than one: there is one recording thread, it
\* adds at most one record to a bucket before it adds to the count, and the
\* scrape loads the count last.
THEOREM MetricsInfLagsByAtMostOne == MetricsSpec => []InfLagsByAtMostOne
<1>1. ScrapeInv => InfLagsByAtMostOne
  BY DEF ScrapeInv, BracketInv, InfLagsByAtMostOne
<1> QED
  BY <1>1, SpecScrapeInv, PTL

-----------------------------------------------------------------------------
\* Every message to_prometheus shows as counted is in the histogram it shows
\* after it, because process_text records before it counts.
THEOREM MetricsHistogramCoversMessages == MetricsSpec => []HistogramCoversMessages
<1>1. IInv => HistogramCoversMessages
  BY DEF IInv, ShownInv, HistogramCoversMessages
<1> QED
  BY <1>1, SpecIInv, PTL

\* Every answer of health, and every exchange_up line, was true of each
\* exchange at some moment of the request.
THEOREM MetricsHealthIsWitnessed == MetricsSpec => []HealthIsWitnessed
<1>1. IInv => HealthIsWitnessed
  BY DEF IInv
<1> QED
  BY <1>1, SpecIInv, PTL

\* No counter line, no bucket line and no +Inf line falls from one scrape to
\* the next, whatever is recorded while they are rendered.
THEOREM MetricsScrapesNeverFall == MetricsSpec => ScrapesNeverFall
<1> DEFINE Grows == /\ shown' >= shown /\ total' >= total
                    /\ \A k \in Finite : le'[k] >= le[k]
<1>1. IInv /\ [MetricsNext]_allVars => [Grows]_allVars
  <2> SUFFICES ASSUME IInv, MetricsNext PROVE Grows
    BY DEF allVars
  <2>0. shown \in Nat /\ messages \in Nat /\ shown <= messages /\ total \in Nat
        /\ \A k \in Finite : le[k] \in Nat
    BY DEF IInv, ShownInv, CounterInv, LineInv
  <2>1. CASE (\E d \in Durations : Decode(d)) \/ RecordStep \/ CountMessage
    <3>1. UNCHANGED <<le, total, shown>>
      BY <2>1, ThreadCounterInv
    <3> QED
      BY <2>0, <3>1
  <2>2. CASE \E e \in Exchanges : Flip(e)
    <3>1. UNCHANGED <<le, total, shown>>
      BY <2>2 DEF Flip, vars
    <3> QED
      BY <2>0, <3>1
  <2>3. CASE Scrape \/ AskHealth
    <3>1. UNCHANGED <<le, total>> /\ (shown' = messages \/ shown' = shown)
      BY <2>3 DEF Scrape, AskHealth, vars
    <3> QED
      BY <2>0, <3>1
  <2>4. CASE ShowUp \/ RenderStep
    <3>1. shown' = shown /\ total' >= total /\ \A k \in Finite : le'[k] >= le[k]
      BY <2>4, ScrapeIInv
    <3> QED
      BY <2>0, <3>1
  <2>5. CASE ReadFlag \/ AnswerHealth
    <3>1. UNCHANGED <<le, total, shown>>
      BY <2>5 DEF ReadFlag, AnswerHealth, vars
    <3> QED
      BY <2>0, <3>1
  <2> QED
    BY <2>1, <2>2, <2>3, <2>4, <2>5 DEF MetricsNext
<1> QED
  BY <1>1, SpecIInv, PTL DEF MetricsSpec, ScrapesNeverFall
=============================================================================
