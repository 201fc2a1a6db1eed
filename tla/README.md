# Verification of the order book aggregator

TLA+ models of the aggregator's own logic, TLC configurations that check them
on small instances, and TLAPS proofs of the properties that matter most for
every size. Paths below are relative to the repository (`src/...` is the
crate's source directory).

## 1. The system

Four OS threads and a tokio runtime:

```
ws-binance  --slot-->  merger  --watch-->  gRPC streams (one per client)
ws-bitstamp --slot-->          --atomics-> /metrics, /health
main: startup, signals, gRPC server, HTTP task, join
client (a process of its own): gRPC stream --> terminal
```

| Component | State | Operations | Interaction |
|---|---|---|---|
| Atomic slot (`src/atomic_slot.rs`) | three buffers, a packed state byte, a refcount; `back` and `front` in the halves | `slot`, `send`, `recv`, `is_abandoned`, drop | shared memory between one exchange thread and the merger, two swaps and a decrement |
| Exchange adapter (`src/exchange/*.rs`) | session, backoff, last sequence number, per-exchange metrics | connect, subscribe, read, `process_text`, back off, return | network; `try_send_book` into the slot; cancellation token |
| Merger (`src/merger.rs`) | `BookStore`, position in the polling pass | cancel check, abandonment check, `recv`, insert, evict, merge, publish | receives from the slots, sends on the watch channel |
| K-way merge (`merge_top_n`) | cursors, best slice, result | inner and outer loop | called by `merge` once per side |
| Histogram (`src/metrics.rs`) | buckets, sum, count | `record`, `render` | recorded by one thread, rendered by any number of requests |
| Metrics registry (`src/metrics.rs`) | counters and `connected` flags of the exchanges | `to_prometheus`, `health`, the stores of the threads | atomics written by threads, read one after another by requests |
| Process (`src/main.rs`, `serve_http`) | what has been started, cancellation, exit value | bind, wire, spawn, serve, drain, join | starts and joins everything |
| gRPC service (`src/server.rs`) | a watch receiver per stream | `book_summary`, one poll of a stream | watch channel; tonic's graceful shutdown |
| JSON walkers (`src/json_walker.rs`, `walk` of both exchanges) | a position in a frame, the decimal, level and book being read | seek a key, read a number, a string, an array of levels | called by `process_text` for every frame |
| Fixed-point numbers (`src/types.rs`) | none | `parse`, `Display`, the difference `merge` takes for the spread | used by walkers and merger |
| Terminal client (`src/client.rs`) | the terminal's mode, the last summary, the screen | connect, take the terminal over, wait, draw, look for a key | gRPC stream; the user |

What is hard: the slot's interleavings and memory orderings; the drop race;
the freshness of data that is stamped in one thread, parked in a slot, stored
and merged in another; a reconnection loop with three exits per session and
cancellation at every await; a parser that fuses scanning, conversion and
truncation in one pass over bytes nobody has validated; counters and flags read
one by one while they are written; a shutdown in which five parties wait for
one another. The list, line by line and with
the properties aimed at each, is `hazards` in `PROJECT.json`.

What makes each part correct:

* slot: a latest-value mailbox; never two owners of a buffer; freed exactly
  once, after the last access;
* merge: the best n levels of the union, sorted, each once, ties in a fixed
  order, independent of levels deeper than n;
* merger: nothing stale is published, books merged together are close in time,
  no exchange goes back to an older book, nobody starves, the loop stops;
* adapter: retries for ever with a bounded backoff, ends when cancelled, never
  sends an older numbered book after a newer one, reports its session truly;
* walkers: a frame that arrives as it was sent is read as exactly its best
  levels; a damaged one is refused, or loses a whole side but never invents
  a level; a decimal is rounded down and never shifted;
* metrics: a scrape shows what was recorded, up to what overlaps it, and no
  line ever falls; what `/health` says of an exchange was true of it at some
  moment of the request;
* client: the terminal is given back however it ends, a quit key is heeded,
  every row shows the running total of its own level;
* process and streams: every client gets the newest summary and the last one,
  and shutdown always completes.

## 2. Modules

| Module | Models | Composes |
|---|---|---|
| `LatestValue` | what a slot promises: a one-place mailbox with atomic operations | |
| `AtomicSlot` | the triple buffer, one action per shared access | refines `LatestValue` |
| `SlotMemoryOrder` | the same with vector clocks for acquire and release | extends `AtomicSlot` |
| `MergeTopN`, `MCMergeTopN` | `merge_top_n` with `merge`'s comparators; all pairs of small books | |
| `MergeTruncated` | the same call on slices cut off after n levels, for comparison | two `MergeTopN` |
| `Merger` | `run_spsc` and `BookStore` against concurrent exchanges, clock and cancellation | one `LatestValue` per slot |
| `WsAdapter` | `run_ws_loop`, `backoff_sleep`, `try_send_book`, both handlers | |
| `FixedPoint` | `parse`, `Display`, the spread | |
| `Frames` | the bytes of a text frame, how a book is written in one, and what may happen to it on its way | extends `FixedPoint` |
| `Walker`, `MCWalker` | `Scanner`, `read_quoted_decimal`, `read_raw_levels`, both `walk`s; three families of frames | extends `Frames` |
| `Histogram` | `record` and `render`, access by access | |
| `Metrics`, `MCMetrics` | `to_prometheus` and `health` against the threads | extends `Histogram` |
| `Client`, `MCClient` | the terminal client | |
| `Lifecycle` | `main`, `serve_http`, `book_summary`, streams | feeds and merger in outline |
| `SlotProofs` | theorems about the slot and its memory orderings | |
| `MergeTopNProofs`, `MergerProofs` | theorems about merge and merger | |
| `WsAdapterProofs`, `WalkerProofs` | theorems about an exchange thread and what it parses | |
| `MetricsProofs`, `LifecycleProofs` | theorems about the registry and the process | |
| `ClientProofs` | theorems about the terminal client | |

Correspondence of state and actions with the code: variables carry the names
of the fields and locals they stand for, history variables are marked as such
where they are declared, and `map` in `PROJECT.json` gives the lines of every
definition. A definition that has a variant "Mutant: ..." above it was
checked to matter: with the variant in its place TLC finds a violation.

Abstractions, module by module:

* **AtomicSlot.** A value is its number in the order of sending; the slot never
  looks at values. `send` is two actions (buffer write, swap), `recv` three
  (load, swap, take), a drop two (decrement, free). Accesses are sequentially
  consistent.
* **SlotMemoryOrder.** Each thread has a vector clock; a Release swap leaves it
  in the atomic, an Acquire swap joins it, a read-modify-write that does not
  release continues the release sequence. `recv`'s relaxed load is of the
  newest byte in `MOSpec`; in `StaleSpec` it may also miss a swap. Every access of plain memory is compared with the other thread's
  last access of the same buffer.
* **MergeTopN.** Prices and amounts are naturals (`FixedPoint` compares as its
  `u64`). Slices are strictly sorted by price, the invariant `OrderBook` states
  and the exchanges provide. A side is chosen once; `merge` calls the function
  for both.
* **Merger.** A book is its number and its `decode_start`; a summary is
  identified with the store it was merged from, because `merge` is a pure
  function of it. The receiver's position equals the `exchange_id` of its
  books, as `main` wires them. `all(is_abandoned)` is one step although it
  reads one count after the other: an exchange that is gone stays gone, so the
  reads have the outcome of one atomic read at the last of them. `decode_start`
  and the send are separate steps of the exchange, so a book can age between.
  The history `passedBy` counts, while a book waits in a slot, the calls of
  `recv` on each other receiver.
* **WsAdapter.** A text frame is one of the outcomes of the walkers: a book with
  or without a number, a frame that does not parse, and for Bitstamp an event,
  an error, or a frame that ends in an escape, on which the walker panics
  (finding 4): `WalkerPanics` ends the thread with the gauge up. Cancellation and
  the merger's end stay possible after it, as in a build that unwinds; a release
  build has aborted. The random part of the backoff is one of its two extremes. The
  subscription's own retry path and the common one are the same code twice and
  one action here, entered after the gauge was reset. `decode_latency.record`
  is Histogram's.
* **Walker, Frames, FixedPoint.** A byte is a number: the ten digits, the bytes the
  scanner tells apart, one for the rest. What stands between the quotes of a
  key or of an event is one byte. `seek`, `skip_ws`, `read_string` and
  `read_u64`, which have no effect but a position, are operators; the loops of
  `read_raw_levels` and `read_quoted_decimal` are actions, one per iteration.
  `POW10` is a constant with the property a table of powers of ten has; the
  power that `Display` pads with is the value of a one and zeros (`TenTo`).
  Arithmetic the code does unchecked is taken modulo `Word`, checked arithmetic
  gives `None`. Slicing a frame beyond its end is the panic it is in the code.
  `Frames` is the sender's side, which the repository has only as the patterns
  and examples in its tests: keys, a number, arrays of quoted pairs without
  spaces. `WellFormed` is a frame as an exchange sends it. `Delivered` is what a
  damaged one may be: it may hold anything anywhere, but from a side's key on
  (from the quote on, for a quoted number) it holds the bytes that were sent at
  least until it ends or has a byte that neither an array nor a number has.
  Keys may be lost, repeated or in another order.
* **Histogram, Metrics.** Two bounds, four-bit words. Accesses interleave as on
  x86-64; on a machine that reorders relaxed accesses to different locations a
  scrape can be torn by more. One exchange's counter and histogram stand for
  all such pairs, the merger's `merges` and `e2e_latency` too: the code records
  before it counts in both places. Requests only read, so one at a time sees
  all there is to see. The history is the sequence of all durations `record`
  was called with and how many of the calls were complete when a scrape began;
  what a line may show is counted and summed from a prefix of it.
* **Client.** The terminal library and the stream are external: each call on
  them may fail. Amounts are naturals above zero, because the walkers drop a
  level without amount, and a bar's length is rounded as the code rounds it. The release profile aborts on a panic, so the guard runs on
  returns only. A failing `ratatui::init` panics, and the hook it has installed
  before anything else undoes what it did to the terminal: one outcome of
  `InitTerminal`, with the hook external. Other panics are left to that hook
  and are not steps of the model.
* **Lifecycle.** A summary is its version in the watch channel. Exchange threads
  and merger are reduced to start, publish and end; that a cancelled one ends
  is `CancelEndsThread` and `MergerStops`. A thread that cannot build its
  runtime panics: in a release build that aborts the process, elsewhere the
  thread is gone and the others go on; the panic of finding 4, which ends a
  thread later, is not a step here. The watch channel, `WatchStream`,
  axum's and tonic's graceful shutdown are external and modelled from their
  use: `changed` reports a version that was not seen before it reports a
  dropped sender, and a stream's read sees the version that is current then.

## 3. Runs

| Run | Instance | States | Shows |
|---|---|---|---|
| `slot` | 5 sends, with the clocks of `SlotMemoryOrder` | 1 328 | `DistinctIndices`, `NoUseAfterFree`, `AbandonedIsExact`; a take() is ordered after the write (`PublicationOrdered`), every access before the free (`FreeOrdered`); `EventuallyReceived`, `EventuallyFreed`; `ImplementsMailbox` |
| `slot_reuse_race` | 5 sends, stale relaxed loads | violation | `ReuseOrdered`, finding 1 |
| `merge_top_n` | n = 2, up to 2 slices of up to 3 levels, 3 prices, 2 amounts, both sides | 11 942 | `MergeIsTopN` (sorted, the top of the union, each level once, full or exhausted), `TiesKeepSliceOrder`, `DeepLevelsAreIrrelevant` |
| `merger` | 2 exchanges, 2 books each, threshold 1, 2 ticks | 502 257 | `FreshAndClose` (freshness and skew), `SummaryIsStore`, `NoRollback`, `SlotsAreMailboxes`, `NoSlotIsStarved`, `MergerStops` |
| `merger_silent_feeds` | 2 exchanges, 1 book each, 3 ticks | violation | `StaleBookLeaves`, finding 2 |
| `walker` | 2 fractional digits, words of 10 bits, 2 levels kept; every text of up to 5 bytes over {0, 1, 9, dot, other} as a price, books of up to 3 levels, single-byte faults and cuts of six frames | 421 953 | `FusedAgreesWithParse`, `DecimalIsRoundedDown`, `WalkReadsTheBook`, `SpreadIsSigned` |
| `walker_escape` | the frames of `walker` | violation | `EscapeIsSafe`, finding 4 |
| `ws_session` | Bitstamp, 3 frames, numbers up to 2, 7 attempts | 318 790 | `ConnectedDuringSession`, `NumberingIsOfThisSession`, `BackoffIsExponential`, `NumberedBooksIncrease`, `CancelEndsThread`, `KeepsTrying` |
| `ws_duplicate` | Binance | violation | `DuplicatesAreDropped`, finding 3 |
| `metrics` | 2 bounds, 4 durations, 2 records, 2 exchanges | 1 274 320 | `ScrapeIsBracketed`, `InfLagsByAtMostOne`, `ScrapesNeverFall`, `HistogramCoversMessages`, `HealthIsWitnessed` |
| `lifecycle` | 2 exchanges, 2 clients, 2 summaries | 129 837 | `StreamEndsWithLatest`, `YieldsAreNew`, `LateClientIsServed`, `CleanExit`, `ShutdownCompletes` |
| `client` | up to 2 levels a side, 3 keys, 2 updates | 18 160 | `TerminalRestored`, `RowsShowRunningTotals`, `QuitIsHeeded` |

**Why the bounds are enough.** Slot: three indices and one flag; five sends let
every buffer go round more than once in each role. Merge: 2 slices is the
number of exchanges; 3 levels in a slice exceed n, so exhaustion, truncation,
ties in price and ties in both occur. Merger: two books per exchange give
overwriting, replacement and eviction followed by a newer book; two ticks over
a threshold of one make the first book stale while the second is fresh.
`NoSlotIsStarved` needs no endless traffic to fail: it counts the calls of `recv`
that pass a waiting book by, and a loop that started its pass again after a merge
would reach two with two books; for any number of books it is a theorem.
Adapter: seven attempts reach the 30 s limit and stay there; three frames give
duplicates with and without an unnumbered frame between; they are too few for
`select!` to prefer the stream for ever, which strong fairness excludes (below).
Walker: five bytes
hold more digits than are kept, a second dot, a value beyond the word and one
that only the scaling takes beyond it; three levels exceed the two that are
kept; every byte of a frame is damaged or is the last one at some time.
Metrics: two records overlap one scrape or separate two; durations lie on a
bound, beside it, beyond the last and beyond a word; flags flip without bound.
Client: a quit key behind two other events, a summary replaced by another. Two
updates are no busy stream; that a silent one does not keep the key from being
read is what `QuitIsHeeded` shows, and a message only adds a pass. Slot: that
the relaxed load may be stale is in `slot_reuse_race` and in the theorems, not in
`slot`, whose liveness needs that a load sees a swap at some time.
Lifecycle: two summaries let one be
published between a stream's wake-up and its read and one after.
What the bounds cannot show, the theorems of section 5 do.

**Deadlock** checking is off where the modelled part really stops: both halves
dropped, merge finished, walk returned, merger or thread ended, process or
client exited, or a bounded input used up. `metrics` checks it.

**Fairness.** Weak fairness of the steps a running thread takes by itself: the
swap that follows a write, the merger's polling, an adapter's connection
attempt (it has a timeout), subscription, processing and sleep, the startup and
shutdown steps of `main`, a stream whose client reads or is found dead by the
HTTP/2 keepalive, the steps of the client's loop and its one-second tick. Strong fairness of one step, the cancellation branch of the
adapter's `select!`, which tokio polls in random order. No fairness is assumed
of the environment: exchanges need not send, fail or stop, signals need not
come, clients need not call or leave.

## 4. Findings

1. `slot_reuse_race`: `send` swaps with Release and `recv` with Acquire, so
   nothing orders the consumer's `take()` of a buffer before the producer's
   next write of it. The comment at `src/atomic_slot.rs:55` says the protocol
   "ensures no concurrent access to any buffer". It holds for interleavings
   (`DistinctIndices`), not for the language's happens-before; AcqRel on both
   swaps would give it. x86-64 orders the accesses anyway.
2. `merger_silent_feeds`: eviction happens only when some book arrives. When all
   exchanges are silent the stale summary stays, against
   `docs/ARCHITECTURE.md:124`. `FreshWhenMerged` and `BoundedSkew` are what the
   code does guarantee.
3. `ws_duplicate`: a book without a sequence number resets the duplicate check,
   against `docs/ARCHITECTURE.md:123`. `NumberedBooksIncrease` is what holds.
4. `walker_escape`: `read_string` steps over two bytes at an escape, which
   `src/json_walker.rs:86` calls safe because "if the backslash is the last byte,
   the while condition exits on the next iteration". It does, and the string is
   given up, but the position stays one beyond the end of the frame. Bitstamp's
   `walk` takes the missing string for number 0 and seeks on, and `seek` slices
   the frame there (`src/json_walker.rs:64`): a panic, which in a release build
   aborts the process. `WalkerPanicNeedsEscape` proves that no other frame makes
   a walker do that.

Observations: behaviour that no document forbids outright, or that a passing
property states as it is.

* A scrape between the increments of a bucket and of the count can show that
  bucket above `+Inf`, by exactly one and never more (`InfLagsByAtMostOne`). The
  other way round there is no such bound: records that complete between the
  loads of the buckets and of the count are in `+Inf` only.
* "OK" from `/health` means that each exchange was up at some moment of the
  request, not that all were up at one (`HealthIsWitnessed`).
* The Shutdown exit of `run_ws_loop` leaves the `connected` gauge at 1
  ("Connection status (1=up)", `docs/MONITORING.md:31`). It can only happen once
  the merger has gone, which `ConnectedDuringSession` states.
* A metrics port in use cancels everything and the process ends with `Ok(())`,
  where `src/error.rs:12` describes `Error::Bind`; `CleanExit` and
  `ShutdownCompletes` say that it does end, with everything joined.
* `walk` for Bitstamp treats both sides as optional, so a frame cut before
  `asks` is a book with bids only: the merger then shows that exchange on one
  side. Binance refuses such frames.
* `read_u64` reads the digits it finds: a Binance number followed by anything
  else is its leading digits, and one beyond 64 bits counts as missing.
* The client's `MAX_DISPLAY` bounds the totals, the server's `DEPTH` the levels;
  the code relies on the first not being the smaller (`ClientAssumption`), as
  they do: both are 10. Nothing here checks longer sides. There the bids beyond
  the capacity would have total 0; the asks, whose totals are reversed before
  they are matched with the reversed rows, would be misaligned throughout, and the
  best of them have total 0.

## 5. Proofs

All theorems hold for every value of the constants, from the named assumptions
of the modules only: bounds are naturals; the inputs of a merge are sorted
slices; the bounds of a histogram increase and lie below the largest word; the
scale fits a word of even size and `POW10[m + n]` is `POW10[m] * POW10[n]`; a
frame is any sequence of bytes; for `WalkerReadsTheBook` alone, frames are
`Delivered` and intact ones `WellFormed` (`DeliveryAssumption`, which TLC
evaluates on every frame of the run); a summary has no more levels than the client
has totals, with amounts above zero. For each module: the parts
of its inductive invariant, and what follows from it.

* **SlotProofs**, interleavings (any number of sends). The inductive invariant
  joins the type invariant and the distinct indices with three parts neither
  has: `TakeIsFresh` and `NewestIsReachable`, which say in whose hands the
  newest value is at each point of `send` and `recv`; `HistoryInv`, which says
  that what is written and not published is in the back buffer and that values
  received do not overtake values published; `RefcountInv`, which ties the
  count to the two program counters, so that a half about to free is alone.
  From it: `SlotTypeOK`, `SlotExclusive`, `SlotTakeIsFresh`,
  `SlotNewestIsReachable`, `SlotNoUseAfterFree`, `SlotAbandonedIsExact`, the
  action property `SlotReceivedInOrder`, and the refinement
  `SlotRefinesMailbox`: each action maps to one action of the mailbox or to a
  stutter. `PackFacts` says that packing index and flag in a byte loses
  neither.
* **SlotProofs**, memory orderings. The clocks are added to that invariant.
  `PublishInv`: what the producer wrote in the middle buffer was released
  through the state byte, and what it wrote in the front buffer the consumer
  has acquired. `DropInv`: a half that is gone left all its time in the
  refcount, and the half that frees has it from there. From it:
  `SlotPublicationOrdered` and `SlotFreeOrdered`, each for `MOSpec` and for
  `StaleSpec`, and `SlotExclusiveWhenStale`, which repeats `SlotExclusive` for a relaxed load that misses swaps. The
  invariant has no counterpart for the producer's next write of a buffer, which
  is finding 1.
* **MergeTopNProofs** (any number of slices, any n, any sorted input). `ScanInv`
  describes the inner loop half way: `best` is the first of the best heads so
  far. `TiesLeft` strengthens the tie rule to the levels still in the slices.
  `BeforeOrder` (the comparators are strict weak orders) and the sortedness of
  slices carry the comparison of heads to all levels behind them. From it:
  `MergeCursorsInRange`, `MergeBestFirst`, `MergeNothingBetterLeft`,
  `MergeEachLevelOnce`, `MergeFullOrExhausted`, together `MergeReturnsTopN`, and
  `MergeTiesKeepSliceOrder`. `MergeDeepLevelsAreIrrelevant`: every step is also a
  step of the merge over the slices cut off after n levels, because no cursor
  gets beyond n while the result has room. This is what lets the walkers drop deep levels unread.
* **MergerProofs** (any number of exchanges, any threshold, runs of any
  length). `TimeInv`: no book is from the future, and between eviction and
  publication the store is fresh at `t0`. `OrderInv`: slot, store and published
  history of an exchange are ordered by number. `PassInv`: a merge belongs to a
  receiver that exists. `TurnInv`: while a book waits in a slot, a receiver
  that has been called once since it came will not be called again before that
  slot's own, because of where the two stand relative to the position in the
  pass (`Behind`). From it: `MergerNoSlotIsStarved`; `MergerFreshWhenMerged`,
  `MergerBoundedSkew`, together `MergerFreshAndClose`; `MergerSummaryIsStore`; the
  action property `MergerNoRollback`; and `MergerSlotsAreMailboxes`, the other half
  of the slot's contract: the merger and the exchanges use each slot only as
  `LatestValue` allows, and `SlotRefinesMailbox` says that a real slot offers
  that.
* **WsAdapterProofs** (both handlers, any numbers, any run). `BackoffInv` says
  which backoff stands after how many sleeps, which the bound on the delay
  needs; the gauge and the numbering are inductive beside it. From it:
  `WsTypeOK`, `WsConnectedDuringSession`, `WsNumberingIsOfThisSession`,
  `WsBackoffIsExponential`, and the action property `WsNumberedBooksIncrease`.
* **WalkerProofs** (any frame, any word, any number of kept digits, any depth).
  `NumInv`: the fraction read so far is below its own power of ten, which
  divides the scale. `BookInv`: sides hold at most `Depth` levels of words, none
  with amount zero. From it: `WalkerUncheckedNeverWraps`, which justifies the
  unchecked arithmetic, `WalkerSidesFit`, and `WalkerSpreadIsSigned`, which rests
  on `SignedDifferenceIsExact`: two casts and a wrapping subtraction give the
  difference of two words whenever that fits a signed one.
  `DecimalInv` relates the loop of `read_quoted_decimal` to the text it has
  passed: `ReadInv` says that its accumulators are the values `parse` has of the
  bytes between the opening quote and the position, `LeftInv` that a walk that
  has left a decimal has passed its closing quote, or has ended on a text that
  `parse` refuses. From it `WalkerFusedAgreesWithParse`: the fused loop accepts and refuses
  what `parse` does, with the same value. `WalkerDecimalIsRoundedDown` then is
  about `parse` alone: what `Display` writes of the result is read back as the
  result, and the decimal lies between it and the next one. `PosInv` keeps the
  scanner within the frame except behind an escape, hence
  `WalkerPanicNeedsEscape`: no frame without a backslash makes `walk` panic.
* **WalkerProofs**, the book that was sent (books of any size, frames of any
  length, any damage `Delivered` allows). `WalkReadsTheBook` speaks of the end
  of a walk only; `ReadBook` says what holds on the way. `ArrayInv`: inside an
  array, what stands between its key and the position is the prefix of the array
  that was sent, the position is at the byte of some level k that its place in
  the code calls for (`Spot`), and the side holds the levels before k that have an
  amount, fewer than `Depth`. `SidesInv`: a side that has been left is what was sent,
  or for Bitstamp it is missing. `NumberInv`: the same of the number. `IntactInv`:
  an intact frame is not refused and the next key lies ahead. `Agreement` takes
  the prefix one byte further: where it ends, the frame has the next byte that
  was sent or one at which the walk refuses; where level k begins and which byte
  follows it are `PairFacts`, `UptoFacts` and `ArrayFacts`; that a decimal read
  from such bytes is `Parse` of the text sent is `WalkerFusedAgreesWithParse`'s
  invariant `DecimalInv` again. From it:
  `WalkerReadsTheBook`.
* **MetricsProofs** (any bounds, any number of exchanges, records and requests).
  `CounterInv`: the counter lags by the message that is recorded and not yet
  counted. `ShownInv` and `LineInv`: what a scrape has written is not above what
  the atomics hold, line by line. `PastInv` and `UpsInv`: what the flags read so
  far say of the exchanges during the request. From it:
  `MetricsHistogramCoversMessages`, `MetricsHealthIsWitnessed`, and the action
  property `MetricsScrapesNeverFall`. `HistoryInv` says what the atomics are a
  count and a sum of at each point of `record`, `BracketInv` where between the
  records complete at the start of a scrape and those begun by now each value
  it has read lies. From them `MetricsScrapeIsBracketed` and
  `MetricsInfLagsByAtMostOne`.
* **LifecycleProofs** (any number of exchanges, clients and summaries).
  `StreamInv`: where a stream is determines how what it yielded relates to what
  its receiver saw; `ExitInv`: what has ended at each step of the shutdown. From
  it: `LifecycleTypeOK`, `LifecycleStreamEndsWithLatest`, `LifecycleCleanExit`,
  and the action property `LifecycleYieldsAreNew`.
* **ClientProofs** (any summaries, any keys). `TerminalInv`: the terminal is raw
  exactly while the guard lives, at every exit of `main`. `ScreenInv`: the
  screen was drawn from a summary the server sent. With a lemma about `Render`
  (a row has the sum of the amounts up to its own level, and totals rise, so
  that bars grow towards the full one): `ClientTerminalRestored` and
  `ClientRowsShowRunningTotals`.

**Induction over data.** The value of a sequence of digits, a sum of durations
and a running total are recursive functions. The library's induction theorems
take an operator, which the provers cannot instantiate; the proofs use the
same principle for a set instead: `SetInduction` says that a set of numbers with
zero and the successor of each of its members holds every natural number, and
follows from the well-foundedness of `<`. A recursive function is a `CHOOSE`
of a function that satisfies its equation; that there is one is proved from the
same lemma. For the bytes of an array and the levels kept of it, which build
sequences, `BoundedInduction` and `RecursionExists` do this once: a function
that takes n given steps from a first value exists.

**Only model-checked.** Liveness under fairness, which the prover does not reach:
`EventuallyReceived`, `EventuallyFreed`, `MergerStops`,
`CancelEndsThread`, `KeepsTrying`, `LateClientIsServed`, `ShutdownCompletes`,
`QuitIsHeeded`. Every invariant and every action property of a passing run has a
theorem.

## 6. Not modelled

* The conversions between words and `f64` (`to_f64`, `to_proto`): floating
  point. They change no state, and the client's copy is for display.
* `extract_string`: its result goes to a log message only.
* The text of `/metrics` and of the client's screen beyond its numbers: layout.
* Core pinning: one system call that affects scheduling only. Configuration:
  clap's parsing and one check of a string.
* Generated protobuf code, tests, benchmarks, the monitoring stack.
* HTTP/2 flow control: a client that answers pings and never reads keeps a
  stream open; `ShutdownCompletes` assumes it away and the hazard list says so.
* A timeout on reads from an exchange: the code has none (hazard list).

## 7. Plan

Done: every component of section 1, with its run; a theorem for every safety
property the passing runs check.

Next: the adapter composed with the merger over `LatestValue`, that is, a
reconnection and the numbering of the new session seen from the published
summaries.
