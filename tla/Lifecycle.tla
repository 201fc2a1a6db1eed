------------------------------ MODULE Lifecycle ------------------------------
(***************************************************************************)
(* The process: main of src/main.rs, the metrics server of src/metrics.rs, *)
(* the gRPC service of src/server.rs and its client streams, with the      *)
(* exchange threads and the merger thread reduced to when they start, what *)
(* they publish and when they end (WsAdapter and Merger have the rest).    *)
(* A summary is its version in the watch channel; version 0 is the default *)
(* value the channel is created with.                                      *)
(* tokio's watch channel and WatchStream and tonic's graceful shutdown are *)
(* libraries, modelled from how the code uses them.                        *)
(***************************************************************************)
EXTENDS Integers

CONSTANTS
    NumExchanges,           \* EXCHANGES.len()
    Clients,                \* the gRPC clients
    MaxSummaries            \* bound: summaries published

ASSUME LifecycleAssumption == NumExchanges \in Nat /\ MaxSummaries \in Nat

Exchanges == 1..NumExchanges

VARIABLES
    main,                   \* where main is
    result,                 \* what it returned
    cancelled,              \* the CancellationToken
    handlerSet,             \* the signal handlers are installed
    http,                   \* the task that runs serve_http
    portTaken,              \* its bind failed (history)
    server,                 \* the tonic server
    feed,                   \* per exchange: its thread
    merger,                 \* the merger thread, owner of summary_tx
    version,                \* version of the watch channel
    client,                 \* per client: its stream
    seen,                   \* per client: version its receiver has seen
    got                     \* per client: version last yielded

threadVars == <<feed, merger, version>>
clientVars == <<client, seen, got>>
taskVars == <<http, portTaken, handlerSet>>
vars == <<main, result, cancelled, handlerSet, http, portTaken, server, feed,
          merger, version, client, seen, got>>

Init ==
    /\ main = "bind" /\ result = "none"
    /\ cancelled = FALSE
    /\ handlerSet = FALSE
    /\ http = "none" /\ portTaken = FALSE
    /\ server = "none"
    /\ feed = [e \in Exchanges |-> "none"]
    /\ merger = "none"
    /\ version = 0
    /\ client = [c \in Clients |-> "away"]
    /\ seen = [c \in Clients |-> 0] /\ got = [c \in Clients |-> 0]

\* When main returns, the process is gone, whatever still ran.
Up == main # "exited"
Exit(r) == main' = "exited" /\ result' = r

-----------------------------------------------------------------------------
(* main                                                                    *)

\* The gRPC port is bound first of all, "fail fast".
BindGrpc ==
    /\ main = "bind"
    /\ \/ main' = "wire" /\ UNCHANGED result
       \/ Exit("bind")
    /\ UNCHANGED <<cancelled, server>> /\ UNCHANGED taskVars
    /\ UNCHANGED threadVars /\ UNCHANGED clientVars

\* One wire_exchange per exchange, in order; a thread that cannot be spawned
\* ends main at once, and with it the process and the threads it has.
WireExchange(e) ==
    /\ main = "wire" /\ feed[e] = "none"
    /\ \A f \in 1..(e - 1) : feed[f] # "none"
    /\ \/ /\ feed' = [feed EXCEPT ![e] = "starting"]
          /\ main' = IF e = NumExchanges THEN "merger" ELSE "wire"
          /\ UNCHANGED result
       \/ Exit("spawn") /\ UNCHANGED feed
    /\ UNCHANGED <<cancelled, server, merger, version>> /\ UNCHANGED taskVars
    /\ UNCHANGED clientVars

SpawnMerger ==
    /\ main = "merger"
    /\ \/ merger' = "running" /\ main' = "tasks" /\ UNCHANGED result
       \/ Exit("spawn") /\ UNCHANGED merger
    /\ UNCHANGED <<cancelled, server, feed, version>> /\ UNCHANGED taskVars
    /\ UNCHANGED clientVars

\* The signal task and the HTTP task are spawned, then the server runs.
Serve ==
    /\ main = "tasks"
    /\ main' = "serving" /\ http' = "binding" /\ server' = "accepting"
    /\ UNCHANGED <<result, cancelled, portTaken, handlerSet>>
    /\ UNCHANGED threadVars /\ UNCHANGED clientVars

\* The signal task is polled for the first time.
InstallHandler ==
    /\ main \in {"serving", "http", "join"}
    /\ ~handlerSet
    /\ handlerSet' = TRUE
    /\ UNCHANGED <<main, result, cancelled, http, portTaken, server>>
    /\ UNCHANGED threadVars /\ UNCHANGED clientVars

\* SIGINT or SIGTERM: shutdown, or death when no handler is installed yet.
Signal ==
    /\ Up
    /\ IF handlerSet THEN cancelled' = TRUE /\ UNCHANGED <<main, result>>
       ELSE Exit("killed") /\ UNCHANGED cancelled
    /\ UNCHANGED server /\ UNCHANGED taskVars
    /\ UNCHANGED threadVars /\ UNCHANGED clientVars

\* server.await returned; wait for the HTTP task.
AwaitHttp ==
    /\ main = "http" /\ http = "done"
    /\ main' = "join"
    /\ UNCHANGED <<result, cancelled, server>> /\ UNCHANGED taskVars
    /\ UNCHANGED threadVars /\ UNCHANGED clientVars

\* Mutant: the threads are not joined.
ThreadsJoinedNot == TRUE

ThreadsJoined == merger = "ended" /\ \A e \in Exchanges : feed[e] = "ended"

\* All threads are joined, whether they returned or panicked.
JoinThreads ==
    /\ main = "join" /\ ThreadsJoined
    /\ Exit("ok")
    /\ UNCHANGED <<cancelled, server>> /\ UNCHANGED taskVars
    /\ UNCHANGED threadVars /\ UNCHANGED clientVars

-----------------------------------------------------------------------------
(* serve_http                                                              *)

HttpBinds ==
    /\ Up /\ http = "binding"
    /\ http' = "serving"
    /\ UNCHANGED <<main, result, cancelled, portTaken, handlerSet, server>>
    /\ UNCHANGED threadVars /\ UNCHANGED clientVars

\* A failed bind cancels the whole process.
AfterPortTaken == TRUE

HttpBindFails ==
    /\ Up /\ http = "binding"
    /\ cancelled' = AfterPortTaken
    /\ http' = "done" /\ portTaken' = TRUE
    /\ UNCHANGED <<main, result, handlerSet, server>>
    /\ UNCHANGED threadVars /\ UNCHANGED clientVars

\* axum's graceful shutdown: requests in progress are short.
HttpEnds ==
    /\ Up /\ http = "serving" /\ cancelled
    /\ http' = "done"
    /\ UNCHANGED <<main, result, cancelled, portTaken, handlerSet, server>>
    /\ UNCHANGED threadVars /\ UNCHANGED clientVars

-----------------------------------------------------------------------------
(* The exchange threads and the merger thread.                             *)

\* The thread's runtime is built, or the thread panics: it ends alone where
\* panics unwind, and with the whole process in a release build, which aborts.
FeedStarts(e) ==
    /\ Up /\ feed[e] = "starting"
    /\ \/ /\ feed' \in {[feed EXCEPT ![e] = "running"],
                       [feed EXCEPT ![e] = "ended"]}
          /\ UNCHANGED <<main, result>>
       \/ Exit("aborted") /\ UNCHANGED feed
    /\ UNCHANGED <<cancelled, server, merger, version>>
    /\ UNCHANGED taskVars /\ UNCHANGED clientVars

\* run_ws_loop returns when it is cancelled, or when it has a book to send
\* and the merger is gone.
FeedEnds(e) ==
    /\ Up /\ feed[e] = "running"
    /\ cancelled \/ merger = "ended"
    /\ feed' = [feed EXCEPT ![e] = "ended"]
    /\ UNCHANGED <<main, result, cancelled, server, merger, version>>
    /\ UNCHANGED taskVars /\ UNCHANGED clientVars

\* summary_tx.send.  Without a receiver, that is once the server is gone, it
\* fails and changes nothing.
Publish ==
    /\ Up /\ merger = "running"
    /\ server # "done"
    /\ \E e \in Exchanges : feed[e] \in {"running", "ended"}
    /\ version < MaxSummaries
    /\ version' = version + 1
    /\ UNCHANGED <<main, result, cancelled, server, feed, merger>>
    /\ UNCHANGED taskVars /\ UNCHANGED clientVars

MergerStops == cancelled \/ \A e \in Exchanges : feed[e] = "ended"

\* run_spsc returns; the thread drops the receivers and summary_tx.
MergerEnds ==
    /\ Up /\ merger = "running" /\ MergerStops
    /\ merger' = "ended"
    /\ UNCHANGED <<main, result, cancelled, server, feed, version>>
    /\ UNCHANGED taskVars /\ UNCHANGED clientVars

\* Mutant: main keeps a clone of summary_tx.
SenderDroppedByMain == main = "exited"

\* summary_tx was moved into the merger thread.
SenderDropped == merger = "ended"

-----------------------------------------------------------------------------
(* The gRPC server and its streams.                                        *)

Open(c) == client[c] \in {"waiting", "changed"}

\* Mutants: the clone counts as having seen the current summary; a stream
\* that also yields the value it finds at first.
FirstSeenCurrent == version
FirstStateNew == "changed"

\* The service's own receiver never looks at the channel, so a clone of it
\* has seen version 0; from_changes waits for another one.
FirstSeen == 0
FirstState == "waiting"

\* book_summary
BookSummary(c) ==
    /\ Up /\ server = "accepting" /\ client[c] = "away"
    /\ client' = [client EXCEPT ![c] = FirstState]
    /\ seen' = [seen EXCEPT ![c] = FirstSeen]
    /\ UNCHANGED <<main, result, cancelled, server, got>>
    /\ UNCHANGED taskVars /\ UNCHANGED threadVars

\* changed(): a version that was not seen wins over a dropped sender.
Changed(c) ==
    /\ Up /\ client[c] = "waiting" /\ version # seen[c]
    /\ client' = [client EXCEPT ![c] = "changed"]
    /\ seen' = [seen EXCEPT ![c] = version]
    /\ UNCHANGED <<main, result, cancelled, server, got>>
    /\ UNCHANGED taskVars /\ UNCHANGED threadVars

\* borrow_and_update, to_proto, and one message on the stream: the summary is
\* the one that is current now, which may be newer than the change.
Yield(c) ==
    /\ Up /\ client[c] = "changed"
    /\ client' = [client EXCEPT ![c] = "waiting"]
    /\ seen' = [seen EXCEPT ![c] = version]
    /\ got' = [got EXCEPT ![c] = version]
    /\ UNCHANGED <<main, result, cancelled, server>>
    /\ UNCHANGED taskVars /\ UNCHANGED threadVars

\* Mutant: a dropped sender wins over a version that was not seen.
NothingToYieldClosed(c) == SenderDropped

NothingToYield(c) == version = seen[c] /\ SenderDropped

\* changed() fails: the sender is dropped.  The stream ends.
StreamEnds(c) ==
    /\ Up /\ client[c] = "waiting" /\ NothingToYield(c)
    /\ client' = [client EXCEPT ![c] = "ended"]
    /\ UNCHANGED <<main, result, cancelled, server, seen, got>>
    /\ UNCHANGED taskVars /\ UNCHANGED threadVars

\* The client cancels, or the HTTP/2 keepalive finds it dead.
ClientLeaves(c) ==
    /\ Up /\ Open(c)
    /\ client' = [client EXCEPT ![c] = "left"]
    /\ UNCHANGED <<main, result, cancelled, server, seen, got>>
    /\ UNCHANGED taskVars /\ UNCHANGED threadVars

\* The shutdown future is ready: no new connection or stream.
ServerDrains ==
    /\ Up /\ server = "accepting" /\ cancelled
    /\ server' = "draining"
    /\ UNCHANGED <<main, result, cancelled>>
    /\ UNCHANGED taskVars /\ UNCHANGED threadVars /\ UNCHANGED clientVars

Drained == \A c \in Clients : ~Open(c)

ServerEnds ==
    /\ main = "serving" /\ server = "draining" /\ Drained
    /\ server' = "done" /\ main' = "http"
    /\ UNCHANGED <<result, cancelled>>
    /\ UNCHANGED taskVars /\ UNCHANGED threadVars /\ UNCHANGED clientVars

ServerFails ==
    /\ main = "serving"
    /\ server' = "done" /\ Exit("transport")
    /\ UNCHANGED cancelled
    /\ UNCHANGED taskVars /\ UNCHANGED threadVars /\ UNCHANGED clientVars

-----------------------------------------------------------------------------
MainStep ==
    \/ BindGrpc \/ (\E e \in Exchanges : WireExchange(e)) \/ SpawnMerger
    \/ Serve \/ AwaitHttp \/ JoinThreads

HttpStep == HttpBinds \/ HttpBindFails \/ HttpEnds

StreamStep(c) == Changed(c) \/ Yield(c) \/ StreamEnds(c)

Next ==
    \/ MainStep \/ InstallHandler \/ Signal \/ HttpStep
    \/ \E e \in Exchanges : FeedStarts(e) \/ FeedEnds(e)
    \/ Publish \/ MergerEnds
    \/ \E c \in Clients : BookSummary(c) \/ StreamStep(c) \/ ClientLeaves(c)
    \/ ServerDrains \/ ServerEnds \/ ServerFails

Spec == Init /\ [][Next]_vars

\* Threads and tasks run.  A stream is polled as long as its client reads; a
\* client that is dead is found by the keepalive, so no stream stays open
\* without progress.  A cancelled exchange thread ends (WsAdapter) and so
\* does a cancelled merger (Merger).  Nothing makes a signal come, a client
\* call or leave, a summary be published, or a server fail.
Fairness ==
    /\ WF_vars(MainStep)
    /\ WF_vars(HttpStep)
    /\ WF_vars(MergerEnds)
    /\ \A e \in Exchanges :
          /\ WF_vars(FeedStarts(e))
          /\ WF_vars(cancelled /\ FeedEnds(e))
    /\ \A c \in Clients : WF_vars(StreamStep(c))
    /\ WF_vars(ServerDrains)
    /\ WF_vars(ServerEnds)

FairSpec == Spec /\ Fairness

-----------------------------------------------------------------------------
TypeOK ==
    /\ main \in {"bind", "wire", "merger", "tasks", "serving", "http", "join",
                 "exited"}
    /\ result \in {"none", "ok", "bind", "spawn", "transport", "killed",
                  "aborted"}
    /\ cancelled \in BOOLEAN /\ handlerSet \in BOOLEAN
    /\ portTaken \in BOOLEAN
    /\ http \in {"none", "binding", "serving", "done"}
    /\ server \in {"none", "accepting", "draining", "done"}
    /\ feed \in [Exchanges -> {"none", "starting", "running", "ended"}]
    /\ merger \in {"none", "running", "ended"}
    /\ version \in Nat
    /\ client \in [Clients -> {"away", "waiting", "changed", "ended", "left"}]
    /\ seen \in [Clients -> Nat] /\ got \in [Clients -> Nat]
    /\ \A c \in Clients : got[c] <= seen[c] /\ seen[c] <= version

\* A client whose stream ended has been sent the last summary that was ever
\* published: closing the channel does not overtake it.
StreamEndsWithLatest ==
    \A c \in Clients : client[c] = "ended" => got[c] = version

\* "skips the initial default (empty) Summary": every message on a stream is
\* newer than the one before it, and the first one is not the default.
YieldsAreNew ==
    [][\A c \in Clients : client[c] = "changed" /\ client'[c] = "waiting"
          => got'[c] > got[c]]_vars

\* A client that calls after the last publication is served too: it does not
\* wait for the exchanges to speak again.  And when nothing can speak any
\* more, because every exchange thread panicked and the merger returned, the
\* stream ends; the process itself goes on.
LateClientIsServed ==
    \A c \in Clients :
        /\ (client[c] = "waiting" /\ version > 0)
               ~> (got[c] > 0 \/ client[c] = "left" \/ main = "exited")
        /\ (Open(c) /\ merger = "ended") ~> (~Open(c) \/ main = "exited")

\* main returns Ok only after an orderly end, be it a signal or a metrics
\* port that is taken that cancelled: every thread over, the HTTP task over
\* and no stream cut off.
CleanExit ==
    result = "ok" =>
        /\ cancelled /\ http = "done" /\ merger = "ended"
        /\ \A e \in Exchanges : feed[e] = "ended"
        /\ \A c \in Clients : ~Open(c)

\* Cancellation ends the process, and so does a metrics port that cannot be
\* bound, which would leave it running unobserved: the server waits for the
\* streams, these for the merger to drop summary_tx, main for the HTTP task
\* and the threads, and none of them for one another in a circle.
ShutdownCompletes == (cancelled \/ portTaken) ~> main = "exited"
=============================================================================
