-------------------------- MODULE LifecycleProofs --------------------------
(***************************************************************************)
(* Proofs about Lifecycle for any number of exchanges, clients and          *)
(* summaries: a stream never repeats a summary and never ends without the   *)
(* last one, and main returns Ok only when everything is over.              *)
(***************************************************************************)
EXTENDS Lifecycle, TLAPS

\* Where a stream is says how what it has yielded relates to what its
\* receiver has seen; a stream has ended only once nothing is published.
StreamInv ==
    /\ \A c \in Clients :
          /\ client[c] = "away" => got[c] = 0
          /\ client[c] = "waiting" => got[c] = seen[c]
          /\ client[c] = "changed" => got[c] < seen[c]
          /\ client[c] = "ended" => got[c] = version /\ merger = "ended"
    /\ main \in {"bind", "wire", "merger"} => merger = "none"

\* The server drains only when cancelled, and main goes on only when it has.
ExitInv ==
    /\ main # "exited" => result = "none"
    /\ server = "draining" => cancelled
    /\ main \in {"http", "join"} =>
          /\ server = "done" /\ cancelled
          /\ \A c \in Clients : ~Open(c)
    /\ main = "join" => http = "done"
    /\ CleanExit

IInv == TypeOK /\ StreamInv /\ ExitInv

-----------------------------------------------------------------------------
\* Nothing runs before main binds its port.
LEMMA InitIInv == Init => IInv
<1> SUFFICES ASSUME Init PROVE IInv
  OBVIOUS
<1>1. cancelled \in BOOLEAN /\ handlerSet \in BOOLEAN /\ portTaken \in BOOLEAN
  BY DEF Init
<1>2. TypeOK
  BY <1>1 DEF Init, TypeOK
<1>3. StreamInv /\ ExitInv
  BY DEF Init, StreamInv, ExitInv, CleanExit, Open
<1> QED
  BY <1>2, <1>3 DEF IInv

\* A step that leaves the streams and the channel alone and does not revive
\* the merger leaves what is known of the streams.
LEMMA StreamsKept ==
    ASSUME IInv, UNCHANGED <<client, seen, got, version>>,
           merger = "ended" => merger' = "ended",
           main' \in {"bind", "wire", "merger"} => merger' = "none"
    PROVE  StreamInv'
  BY DEF IInv, StreamInv

\* What the steps of main before the shutdown leave of the invariant.
LEMMA StartIInv ==
    ASSUME IInv,
           BindGrpc \/ (\E e \in Exchanges : WireExchange(e)) \/ SpawnMerger \/ Serve
    PROVE  IInv'
<1> USE DEF IInv
<1>0. TypeOK /\ StreamInv /\ ExitInv
  OBVIOUS
<1>1. /\ UNCHANGED <<client, seen, got, version, cancelled, handlerSet, portTaken>>
      /\ main \in {"bind", "wire", "merger", "tasks"}
      /\ main' \in {"wire", "merger", "tasks", "serving", "exited"}
      /\ server' \in {server, "accepting"} /\ http' \in {http, "binding"}
      /\ merger' \in {merger, "running"}
      /\ feed' \in [Exchanges -> {"none", "starting", "running", "ended"}]
      /\ \/ result' = result /\ main' # "exited"
         \/ result' \in {"bind", "spawn"} /\ main' = "exited"
  BY <1>0 DEF TypeOK, BindGrpc, WireExchange, SpawnMerger, Serve, Exit, taskVars,
              threadVars, clientVars
<1>2. TypeOK'
  BY <1>0, <1>1 DEF TypeOK
<1>3. /\ merger = "ended" => merger' = "ended"
      /\ main' \in {"bind", "wire", "merger"} => merger' = "none"
  BY <1>0 DEF StreamInv, BindGrpc, WireExchange, SpawnMerger, Serve, Exit, threadVars
<1>4. StreamInv'
  BY <1>1, <1>3, StreamsKept
<1>5. ExitInv'
  BY <1>0, <1>1 DEF ExitInv, CleanExit
<1> QED
  BY <1>2, <1>4, <1>5

\* What signals, the HTTP task, the threads and the way out leave of it.
LEMMA RunIInv ==
    ASSUME IInv,
           \/ InstallHandler \/ Signal \/ HttpStep \/ AwaitHttp \/ JoinThreads
           \/ \E e \in Exchanges : FeedStarts(e) \/ FeedEnds(e)
           \/ MergerEnds \/ ServerDrains \/ ServerEnds \/ ServerFails
    PROVE  IInv'
<1> USE DEF IInv
<1>0. TypeOK /\ StreamInv /\ ExitInv
  OBVIOUS
<1>1. /\ UNCHANGED <<client, seen, got, version>>
      /\ merger' \in {merger, "ended"} /\ (merger' # merger => merger = "running")
      /\ main' \in {main, "http", "join", "exited"}
      /\ main # "exited"
  <2> USE DEF Exit, Up, taskVars, threadVars, clientVars
  <2>1. CASE InstallHandler \/ Signal \/ HttpStep
    BY <2>1 DEF InstallHandler, Signal, HttpStep, HttpBinds, HttpBindFails, HttpEnds
  <2>2. CASE AwaitHttp \/ JoinThreads \/ MergerEnds
    BY <2>2 DEF AwaitHttp, JoinThreads, MergerEnds
  <2>3. CASE \E e \in Exchanges : FeedStarts(e) \/ FeedEnds(e)
    BY <2>3 DEF FeedStarts, FeedEnds
  <2>4. CASE ServerDrains \/ ServerEnds \/ ServerFails
    BY <2>4 DEF ServerDrains, ServerEnds, ServerFails
  <2> QED
    BY <2>1, <2>2, <2>3, <2>4
<1>2. StreamInv'
  BY <1>0, <1>1, StreamsKept DEF StreamInv
<1>3. CASE InstallHandler \/ Signal
  <2>1. /\ UNCHANGED <<http, portTaken, server, feed, merger>>
        /\ cancelled' \in BOOLEAN /\ handlerSet' \in BOOLEAN
        /\ cancelled => cancelled'
    BY <1>0, <1>3, Zenon DEF TypeOK, InstallHandler, Signal, taskVars, threadVars
  <2>2. \/ UNCHANGED <<main, result>>
        \/ main' = "exited" /\ result' = "killed"
    BY <1>3 DEF InstallHandler, Signal, Exit
  <2>3. TypeOK'
    BY <1>0, <1>1, <2>1, <2>2 DEF TypeOK
  <2>4. ExitInv'
    BY <1>0, <1>1, <2>1, <2>2 DEF ExitInv, CleanExit, Open
  <2> QED
    BY <1>2, <2>3, <2>4
<1>4. CASE HttpStep
  <2>1. /\ UNCHANGED <<main, result, handlerSet, server, feed, merger>>
        /\ cancelled' \in BOOLEAN /\ portTaken' \in BOOLEAN
        /\ cancelled => cancelled'
        /\ http # "done" /\ http' \in {"serving", "done"}
    BY <1>0, <1>4 DEF TypeOK, HttpStep, HttpBinds, HttpBindFails, HttpEnds,
                     AfterPortTaken, threadVars
  <2>2. TypeOK'
    BY <1>0, <1>1, <2>1 DEF TypeOK
  <2>3. ExitInv'
    BY <1>0, <1>1, <2>1 DEF ExitInv, CleanExit, Open
  <2> QED
    BY <1>2, <2>2, <2>3
<1>5. CASE \E e \in Exchanges : FeedStarts(e) \/ FeedEnds(e)
  <2>1. /\ UNCHANGED <<cancelled, server, merger, http, portTaken, handlerSet>>
        /\ feed' \in [Exchanges -> {"none", "starting", "running", "ended"}]
        /\ \/ UNCHANGED <<main, result>>
           \/ main' = "exited" /\ result' = "aborted"
    BY <1>0, <1>5 DEF TypeOK, FeedStarts, FeedEnds, Exit, taskVars
  <2>2. TypeOK'
    BY <1>0, <1>1, <2>1 DEF TypeOK
  <2>3. ExitInv'
    BY <1>0, <1>1, <2>1 DEF ExitInv, CleanExit, Open
  <2> QED
    BY <1>2, <2>2, <2>3
<1>6. CASE MergerEnds
  <2>1. /\ UNCHANGED <<main, result, cancelled, server, feed, http, portTaken,
                       handlerSet>>
        /\ merger' = "ended"
    BY <1>6 DEF MergerEnds, taskVars
  <2>2. TypeOK'
    BY <1>0, <1>1, <2>1 DEF TypeOK
  <2>3. ExitInv'
    BY <1>0, <1>1, <2>1 DEF ExitInv, CleanExit, Open
  <2> QED
    BY <1>2, <2>2, <2>3
<1>7. CASE AwaitHttp \/ JoinThreads
  <2>1. /\ UNCHANGED <<cancelled, server, feed, merger, http, portTaken, handlerSet>>
        /\ \/ main = "http" /\ http = "done" /\ main' = "join" /\ result' = result
           \/ main = "join" /\ ThreadsJoined /\ main' = "exited" /\ result' = "ok"
    BY <1>7 DEF AwaitHttp, JoinThreads, Exit, taskVars, threadVars
  <2>2. TypeOK'
    BY <1>0, <1>1, <2>1 DEF TypeOK
  <2>3. ExitInv'
    BY <1>0, <1>1, <2>1 DEF ExitInv, CleanExit, ThreadsJoined, Open
  <2> QED
    BY <1>2, <2>2, <2>3
<1>8. CASE ServerDrains \/ ServerEnds \/ ServerFails
  <2>1. /\ UNCHANGED <<cancelled, feed, merger, http, portTaken, handlerSet>>
        /\ \/ /\ server = "accepting" /\ cancelled /\ server' = "draining"
              /\ UNCHANGED <<main, result>>
           \/ /\ main = "serving" /\ server = "draining" /\ Drained
              /\ server' = "done" /\ main' = "http" /\ result' = result
           \/ server' = "done" /\ main' = "exited" /\ result' = "transport"
    BY <1>8 DEF ServerDrains, ServerEnds, ServerFails, Exit, taskVars, threadVars
  <2>2. TypeOK'
    BY <1>0, <1>1, <2>1 DEF TypeOK
  <2>3. ExitInv'
    BY <1>0, <1>1, <2>1 DEF ExitInv, CleanExit, Drained, Open
  <2> QED
    BY <1>2, <2>2, <2>3
<1> QED
  BY <1>3, <1>4, <1>5, <1>6, <1>7, <1>8

\* A summary is published: every stream falls behind, none has ended.
LEMMA PublishIInv == ASSUME IInv, Publish PROVE IInv'
<1> USE DEF IInv
<1>0. TypeOK /\ StreamInv /\ ExitInv
  OBVIOUS
<1>1. /\ merger = "running" /\ version' = version + 1
      /\ UNCHANGED <<main, result, cancelled, server, feed, merger, http,
                     portTaken, handlerSet, client, seen, got>>
  BY DEF Publish, taskVars, clientVars
<1>2. TypeOK'
  BY <1>0, <1>1 DEF TypeOK
<1>3. StreamInv'
  BY <1>0, <1>1 DEF StreamInv
<1>4. ExitInv'
  BY <1>0, <1>1 DEF ExitInv, CleanExit, Open
<1> QED
  BY <1>2, <1>3, <1>4

\* A stream is opened, polled, or ends: the others do not notice.
LEMMA ClientIInv ==
    ASSUME IInv, NEW x \in Clients,
           BookSummary(x) \/ StreamStep(x) \/ ClientLeaves(x)
    PROVE  IInv'
<1> USE DEF IInv
<1>0. TypeOK /\ StreamInv /\ ExitInv
  OBVIOUS
<1>1. /\ main # "exited"
      /\ UNCHANGED <<main, result, cancelled, server, feed, merger, http,
                     portTaken, handlerSet, version>>
  BY DEF BookSummary, StreamStep, Changed, Yield, StreamEnds, ClientLeaves, Up,
         taskVars, threadVars
<1> DEFINE Fits(s, n, g) ==
          /\ client' = [client EXCEPT ![x] = s]
          /\ seen' = [seen EXCEPT ![x] = n]
          /\ got' = [got EXCEPT ![x] = g]
          /\ g <= n /\ n <= version
          /\ s = "waiting" => g = n
          /\ s = "changed" => g < n
          /\ s = "ended" => g = version /\ merger = "ended"
          /\ s \in {"waiting", "changed"} => server = "accepting" \/ Open(x)
<1> DEFINE States == {"waiting", "changed", "ended", "left"}
<1>2. \E s \in States, n \in Nat, g \in Nat : Fits(s, n, g)
  <2>0. /\ seen[x] \in Nat /\ got[x] \in Nat /\ version \in Nat
        /\ got[x] <= seen[x] /\ seen[x] <= version
        /\ seen = [seen EXCEPT ![x] = seen[x]] /\ got = [got EXCEPT ![x] = got[x]]
    BY <1>0 DEF TypeOK
  <2>1. CASE BookSummary(x)
    <3>1. Fits("waiting", 0, 0)
      BY <1>0, <2>0, <2>1 DEF BookSummary, StreamInv, FirstState, FirstSeen
    <3> QED
      BY <3>1
  <2>2. CASE Changed(x)
    <3>1. Fits("changed", version, got[x])
      BY <1>0, <2>0, <2>2 DEF Changed, StreamInv, Open
    <3> QED
      BY <2>0, <3>1
  <2>3. CASE Yield(x)
    <3>1. Fits("waiting", version, version)
      BY <1>0, <2>0, <2>3 DEF Yield, Open
    <3> QED
      BY <2>0, <3>1
  <2>4. CASE StreamEnds(x)
    <3>1. Fits("ended", seen[x], got[x])
      BY <1>0, <2>0, <2>4 DEF StreamEnds, StreamInv, NothingToYield, SenderDropped
    <3> QED
      BY <2>0, <3>1
  <2>5. CASE ClientLeaves(x)
    <3>1. Fits("left", seen[x], got[x])
      BY <2>0, <2>5 DEF ClientLeaves
    <3> QED
      BY <2>0, <3>1
  <2> QED
    BY <2>1, <2>2, <2>3, <2>4, <2>5 DEF StreamStep
<1>3. PICK s \in States, n \in Nat, g \in Nat : Fits(s, n, g)
  BY <1>2
<1>4. TypeOK'
  BY <1>0, <1>1, <1>3 DEF TypeOK
<1>5. StreamInv'
  BY <1>0, <1>1, <1>3 DEF StreamInv, TypeOK
<1>6. ExitInv'
  BY <1>0, <1>1, <1>3 DEF ExitInv, CleanExit, Open, TypeOK
<1> QED
  BY <1>4, <1>5, <1>6

\* Every step of main, its tasks, threads and clients preserves the invariant.
LEMMA NextIInv == IInv /\ [Next]_vars => IInv'
<1> SUFFICES ASSUME IInv, [Next]_vars PROVE IInv'
  OBVIOUS
<1>1. CASE UNCHANGED vars
  BY <1>1 DEF IInv, vars, TypeOK, StreamInv, ExitInv, CleanExit, Open
<1> QED
  BY <1>1, StartIInv, RunIInv, PublishIInv, ClientIInv DEF Next, MainStep

\* The inductive invariant of the process, for any number of parties.
THEOREM SpecIInv == Spec => []IInv
  BY InitIInv, NextIInv, PTL DEF Spec

-----------------------------------------------------------------------------
\* main, its tasks and the streams keep their types, and no stream is ahead
\* of the watch channel.
THEOREM LifecycleTypeOK == Spec => []TypeOK
<1>1. IInv => TypeOK
  BY DEF IInv
<1> QED
  BY <1>1, SpecIInv, PTL

\* A stream that ended because the merger dropped summary_tx has yielded the
\* last summary sent on it.
THEOREM LifecycleStreamEndsWithLatest == Spec => []StreamEndsWithLatest
<1>1. IInv => StreamEndsWithLatest
  BY DEF IInv, StreamInv, StreamEndsWithLatest
<1> QED
  BY <1>1, SpecIInv, PTL

\* main returns Ok only when threads, HTTP task and streams are over.
THEOREM LifecycleCleanExit == Spec => []CleanExit
<1>1. IInv => CleanExit
  BY DEF IInv, ExitInv
<1> QED
  BY <1>1, SpecIInv, PTL

\* Every message on a stream is newer than the one before it, and the first
\* one is not the default the channel is created with.
THEOREM LifecycleYieldsAreNew == Spec => YieldsAreNew
<1> DEFINE New == \A c \in Clients :
                     client[c] = "changed" /\ client'[c] = "waiting"
                         => got'[c] > got[c]
<1>1. IInv /\ [Next]_vars => [New]_vars
  <2> SUFFICES ASSUME IInv, Next, NEW c \in Clients,
                      client[c] = "changed", client'[c] = "waiting"
               PROVE  got'[c] > got[c]
    BY DEF vars
  <2>0. /\ got[c] \in Nat /\ seen[c] \in Nat /\ version \in Nat
        /\ got[c] < seen[c] /\ seen[c] <= version
        /\ client \in [Clients -> {"away", "waiting", "changed", "ended", "left"}]
        /\ got \in [Clients -> Nat]
    BY DEF IInv, TypeOK, StreamInv
  <2>1. PICK x \in Clients : BookSummary(x) \/ StreamStep(x) \/ ClientLeaves(x)
    BY DEF Next, MainStep, BindGrpc, WireExchange, SpawnMerger, Serve,
         InstallHandler, Signal, HttpStep, HttpBinds, HttpBindFails, HttpEnds,
         AwaitHttp, JoinThreads, FeedStarts, FeedEnds, Publish, MergerEnds,
         ServerDrains, ServerEnds, ServerFails, clientVars
  <2>2. x = c
    BY <2>0, <2>1 DEF BookSummary, StreamStep, Changed, Yield, StreamEnds,
                     ClientLeaves
  <2>3. Yield(c)
    BY <2>0, <2>1, <2>2 DEF BookSummary, StreamStep, Changed, StreamEnds,
                           ClientLeaves
  <2> QED
    BY <2>0, <2>3 DEF Yield
<1> QED
  BY <1>1, SpecIInv, PTL DEF Spec, YieldsAreNew
=============================================================================
