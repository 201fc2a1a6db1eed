------------------------------- MODULE Metrics -------------------------------
(***************************************************************************)
(* The registry of src/metrics.rs as the threads write it and as the two   *)
(* HTTP handlers read it.  An exchange thread records the decode latency   *)
(* of a message (Histogram) and then counts the message; the merger does   *)
(* the same with e2e_latency and merges, which behave as these do.         *)
(* to_prometheus reads every counter before any histogram; health reads    *)
(* the connected flags one after another.  Requests only read, so one at a *)
(* time shows all they can see.                                            *)
(***************************************************************************)
EXTENDS Histogram

CONSTANT NumExchanges       \* the exchanges that are registered

ASSUME MetricsAssumption == NumExchanges \in Nat \ {0}

Exchanges == 1..NumExchanges

VARIABLES
    messages,               \* the counter of one exchange
    owed,                   \* its thread has yet to count a message
    connected,              \* per exchange: its flag
    request,                \* the request being answered
    shown,                  \* the messages line, over the previous scrape's
    showsUp,                \* the exchange_up lines
    next,                   \* the exchange whose flag is read next
    ups,                    \* how many flags health found set
    answer,                 \* health's, if that was the last request
    wasUp, wasDown          \* exchanges seen in each state since the request
                            \* came (history)

counterVars == <<messages, owed>>
healthVars == <<ups, answer>>
pastVars == <<wasUp, wasDown>>
registryVars == <<messages, owed, connected, request, shown, showsUp, next, ups,
                  answer, wasUp, wasDown>>
allVars == <<vars, registryVars>>

MetricsInit ==
    /\ Init
    /\ messages = 0 /\ owed = FALSE
    /\ connected = [e \in Exchanges |-> FALSE]
    /\ request = "none" /\ shown = 0 /\ next = 1
    /\ showsUp = [e \in Exchanges |-> FALSE]
    /\ ups = 0 /\ answer = "none"
    /\ wasUp = {} /\ wasDown = Exchanges

-----------------------------------------------------------------------------
(* The threads.                                                            *)

\* Mutant: the message is counted before its latency is recorded.
DecodeCounted(d) ==
    /\ ~owed /\ Observe(d)
    /\ messages' = messages + 1
    /\ UNCHANGED <<owed, connected, request, shown, showsUp, next>>
    /\ UNCHANGED healthVars /\ UNCHANGED pastVars

\* process_text has a book: record(), step by step, and then the count.
Decode(d) ==
    /\ ~owed /\ Observe(d)
    /\ owed' = TRUE
    /\ UNCHANGED <<messages, connected, request, shown, showsUp, next>>
    /\ UNCHANGED healthVars /\ UNCHANGED pastVars

RecordStep ==
    /\ AddBucket \/ AddSum \/ AddCount
    /\ UNCHANGED registryVars

CountMessage ==
    /\ owed /\ rpc = "idle"
    /\ messages' = messages + 1 /\ owed' = FALSE
    /\ UNCHANGED <<connected, request, shown, showsUp, next>>
    /\ UNCHANGED healthVars /\ UNCHANGED pastVars /\ UNCHANGED vars

\* A thread stores its flag: a session begins or ends.
Flip(e) ==
    /\ connected' = [connected EXCEPT ![e] = ~@]
    /\ IF request = "none" THEN UNCHANGED pastVars
       ELSE /\ wasUp' = IF connected'[e] THEN wasUp \union {e} ELSE wasUp
            /\ wasDown' = IF connected'[e] THEN wasDown ELSE wasDown \union {e}
    /\ UNCHANGED <<request, shown, showsUp, next>>
    /\ UNCHANGED counterVars /\ UNCHANGED healthVars /\ UNCHANGED vars

-----------------------------------------------------------------------------
(* The handlers.                                                           *)

Past == wasUp' = {e \in Exchanges : connected[e]}
        /\ wasDown' = {e \in Exchanges : ~connected[e]}

\* prom_metrics, to_prometheus: the counters come first.
Scrape ==
    /\ request = "none"
    /\ request' = "metrics" /\ next' = 1 /\ Past
    /\ shown' = messages
    /\ ups' = 0 /\ answer' = "none"
    /\ UNCHANGED <<connected, showsUp>>
    /\ UNCHANGED counterVars /\ UNCHANGED vars

\* Then the gauges, one exchange after another.
ShowUp ==
    /\ request = "metrics" /\ next <= NumExchanges
    /\ showsUp' = [showsUp EXCEPT ![next] = connected[next]]
    /\ next' = next + 1
    /\ UNCHANGED <<connected, request, shown>>
    /\ UNCHANGED counterVars /\ UNCHANGED healthVars
    /\ UNCHANGED pastVars /\ UNCHANGED vars

\* Then the histograms.  The text is complete with the last line.
RenderStep ==
    /\ request = "metrics" /\ next > NumExchanges
    /\ \/ (StartRender \/ ReadBucket \/ ReadCount) /\ UNCHANGED request
       \/ ReadSum /\ request' = "none"
    /\ UNCHANGED <<connected, shown, showsUp, next>>
    /\ UNCHANGED counterVars /\ UNCHANGED healthVars /\ UNCHANGED pastVars

AskHealth ==
    /\ request = "none"
    /\ request' = "health" /\ next' = 1 /\ Past
    /\ ups' = 0 /\ answer' = "none"
    /\ UNCHANGED <<connected, shown, showsUp>>
    /\ UNCHANGED counterVars /\ UNCHANGED vars

ReadFlag ==
    /\ request = "health" /\ next <= NumExchanges
    /\ ups' = IF connected[next] THEN ups + 1 ELSE ups
    /\ next' = next + 1
    /\ UNCHANGED <<connected, request, shown, showsUp, answer>>
    /\ UNCHANGED counterVars /\ UNCHANGED pastVars /\ UNCHANGED vars

\* Mutant: OK as soon as one exchange is up.
HealthOfAny == IF ups > 0 THEN "OK" ELSE "DOWN"

Health == IF ups = NumExchanges THEN "OK"
          ELSE IF ups > 0 THEN "DEGRADED" ELSE "DOWN"

AnswerHealth ==
    /\ request = "health" /\ next > NumExchanges
    /\ answer' = Health
    /\ request' = "none"
    /\ UNCHANGED <<connected, shown, showsUp, next, ups>>
    /\ UNCHANGED counterVars /\ UNCHANGED pastVars /\ UNCHANGED vars

MetricsNext ==
    \/ \E d \in Durations : Decode(d)
    \/ RecordStep \/ CountMessage
    \/ \E e \in Exchanges : Flip(e)
    \/ Scrape \/ ShowUp \/ RenderStep
    \/ AskHealth \/ ReadFlag \/ AnswerHealth

MetricsSpec == MetricsInit /\ [][MetricsNext]_allVars

-----------------------------------------------------------------------------
\* A message that a scrape shows as counted is in the histogram the same
\* scrape shows: a mean latency computed from the two is never over messages
\* that were not measured.
HistogramCoversMessages == request = "none" => shown <= total

\* From one scrape to the next no counter line falls, which Prometheus would
\* take for a restart of the process.
ScrapesNeverFall ==
    [][/\ shown' >= shown /\ total' >= total
       /\ \A k \in Finite : le'[k] >= le[k]]_allVars

\* The flags are not read at one moment, so "OK" does not mean that all
\* exchanges were ever up together; but each was up at some moment of the
\* request, for "DOWN" each was down at some moment, and for "DEGRADED" one
\* was up and another one down.  Likewise for each exchange_up line.
HealthIsWitnessed ==
    /\ answer = "OK" => wasUp = Exchanges
    /\ answer = "DOWN" => wasDown = Exchanges
    /\ answer = "DEGRADED" =>
          \E e, f \in Exchanges : e # f /\ e \in wasUp /\ f \in wasDown
    /\ answer = "none" /\ request = "none" =>
          \A e \in Exchanges : e \in (IF showsUp[e] THEN wasUp ELSE wasDown)
=============================================================================
