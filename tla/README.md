# A TLA+ model of the trading engine

The repository is a spot trading engine for OKX in C++20: a market data feed
kept as an order book, a quoting strategy, an order manager and a private
WebSocket session, all on one busy-spinning thread, and a logger thread. This
directory holds TLA+ modules translated from its source, the TLC
configurations that check them on small instances, and proofs that TLAPS
checks for every value of the constants. `PROJECT.json` lists components, runs,
mutants, the source lines behind each definition, findings, hazards and theorems.

## The system

| Part | State | Operations | Interacts with |
|---|---|---|---|
| `Order` (order_lifecycle) | state, state to revert to, ordId | ApplyEvent, OnCancelRequested, OnAmendRequested, OnRequestRejected | store, round trip, quoter |
| `OrderStore` | array of orders sorted by client id, at most 1024 | Add, Remove (calls the quoter back), lookup | all order handlers |
| `ReconcileOrders` | - | adopt, skip, drop | store, REST |
| `OrderTimeoutMonitor` | timer | CheckAndResolve every second | store, reconciliation |
| `WsOrderRoundTrip`, `WsResponseDemux` | current order, handlers awaiting a response | place, then amend, then cancel | store, private session |
| `NaiveQuoter` | bid id, ask id, last mid | OnBookUpdate, OnTimer, OnOrderRemoved | store, rate limiter, session |
| `KillSwitch` | triggered | Trigger | store, REST |
| `CheckPreTradeRisk`, `Position`, `AccountState` | limits; quantity and profit; balances | check; ApplyFill; ApplyMessage | login handler, fills, account channel |
| `EndpointRateLimiter` | ring of timestamps per endpoint | TryAcquire | quoter |
| `OkxWsClient`, `RingBuffer`, `WebSocketReassembler` | transport, timers, tx ring, flags, fragments | Connect, ScheduleReconnect, ReadLoop, WriteRaw, StartWrite, heartbeat | asio, engine |
| `OrderBook`, `JsonBookSource` | sorted levels, seqId | ApplyBookMessage, resubscribe | public session, quoter |
| `SbeBboSource` | best bid and ask, seqId | OnMessage | public session, quoter |
| `AsyncLogger` | SPSC ring, drop count, running flag | Emit; WriterLoop; destructor | every part, writer thread |
| frame codec, handshake | bytes received so far | DecodeFrame, EncodeFrame, PerformHandshake | `OkxWsClient` |
| JSON scanner | - | FindString, FindNumber, ForEach... | everything that reads a message |
| REST client, signing | - | I/O | |
| latency histogram | counters | Record | |

What is hard about it: pushes, responses and REST answers reach the order
manager in any relative order; sessions are lost with what they carry and
orders outlive both sessions and processes; handlers throw, and a throw ends
the process; completion handlers queued in asio run after the connection they
belong to is gone; rings and arrays fill up; two threads share the log ring.

## The modules

| Module | What it models |
|---|---|
| `OrderLifecycle` | class `Order` as operators on a record |
| `TradingEngine` | store, quoter, round trip, demultiplexer, reconciliation, timeout monitor, kill switch, risk check, startup and private session, composed as class `Engine` wires them, with the exchange |
| `OrderMap`, `OrderStore` | the map the order handlers rely on, and the sorted array that implements it, one slot a step |
| `Accounting` | `Position` and the loss limit fed by the orders channel, `AccountState` fed by the account channel |
| `WindowLimit`, `RateLimiter` | what a sliding-window limiter promises, and the ring of timestamps that implements it |
| `AsyncLogger` | the logger's ring, both threads, one atomic access a step |
| `RingBuffer`, `OkxWsClient` | the tx ring with the width of its unsigned size, and the private session above asio |
| `WebSocketFrame`, `FrameStream` | the frame codec as operators on bytes, and what lies between the socket and a message: handshake, read loop, control replies, reassembler |
| `OrderBook`, `BookFeed` | the sorted arrays, and the feed that keeps them with the exchange behind it |
| `SbeFeed` | the binary best-bid-and-offer feed, its decoder and the mid the quoter quotes at |
| `JsonScanner` | the scanner on texts of characters |
| `MC...` | instances for TLC |
| `EngineSessionProofs` and `TradingEngineProofs`, `OkxWsLinkProofs` and `OkxWsClientProofs`, `BookFeedProofs`, `RateLimiterProofs`, `AsyncLoggerProofs`, `OrderStoreProofs` | theorems and lemmas; of each pair the second module continues the first |

Operators whose name starts with `Mut` are mutated forms of the definition
they precede. A run is tried against them to see that its property notices.

### TradingEngine

The reactor runs one handler at a time, so an action is a whole handler with
the blocking REST calls in it. The variables are named in the module beside the
members they stand for. `status` is the process: `boot`, `running`, `stopped`,
or the name of the call that threw. `store` maps client ids to orders; `requests`,
`responses` and `pushes` are what is on its way on the private session; `exch`
is the exchange's own view, `late` the placements of a lost session that may
still arrive.

Abstractions, each of which allows more than the code does: any pending order
may be overdue when the timeout monitor looks; the rate limiter's answer is a
free choice; a fill may or may not breach the loss limit; pushes are in order
per order only, and unordered against responses; a GET of the pending orders
may return an error body. Ids are 1, 2, 3, ... because `GenerateId` increases
strictly; the ids of amend and cancel requests are left out. Responses that
nobody tracks are dropped at their source. Messages of a lost session vanish
with it; the rare message dispatched after its connection was given up belongs
to `OkxWsClient`, and so the REST fallback of the round trip is not reached here.
Of what a lost session had sent, only placements may still arrive (`late`): a late
cancel looks like the exchange closing the order on its own, and a late amend, with
its push on the next session, is left out.

The store is a map here. That the array behind it behaves like one is shown in
`OrderStore`; what a fill does to position and loss is shown in `Accounting`.

### OrderStore

Every turn of a loop is a step: bisection, the shifts of `Add` and `Remove`, the
walk of `ForEach` and of `FindByOrdId`. A moved-from slot and an empty one are
told apart, because `At` throws at the empty one. A caller may hold the `Order*`
of a lookup until its next call, and `Remove` may be handed a view of the order
it removes, as `ApplyOrderEvent` does: its argument is then read through the
array. In `OrderMap` a caller names its call and the argument (`call`), and the
map answers it in one step by what it holds under that argument. The array's call
counts as unanswered (`Unanswered`, the refinement's view of `call`) until `Add`
emplaces, `Remove` tells the listener or misses, and the others return; so a lookup
that misses a stored order or finds another, and a `Remove` that leaves a stored
order alone, are no steps of the map.

### Accounting

Doubles are exact fractions in lowest terms. A push of the orders channel holds
one order, as OKX sends them; an unknown order state ends the process. `cash` is
a history of what the fills applied have earned and cost, `held` and `wallet` are
the account at the exchange, and `missed` records a fill that no push brought. A
new session begins with a push of all balances.

### RateLimiter

`TryAcquire` is one step: the loop's outcome is described by `StopsAfter` (it
passes every expired grant up to the first that is not). `granted` and `sent`
are histories. `WindowLimit` grants exactly when fewer than `Capacity` grants
lie in the window; `ImplementsWindow` says that the ring does the same.

### AsyncLogger

An acquire load may return an older value, but never one older than the thread
has seen: `unseenHead` and `unseenTail` count the stores a thread may still
miss. A slot being written holds `Torn`, so that a reader too early is seen.
Level names, formatting and truncation of the text are left out.

### OkxWsClient

What asio has pending ends by putting a handler into `ready`, which the reactor
works off in order. Destroying the transport makes its pending operations end
with an error; a handler already in `ready` keeps its result. These are the
assumptions about asio. A read brings one frame; a close frame is answered like
a ping. The backoff's length is open, and it may be over while handlers are
still queued (`early`), because `ComputeBackoff` draws from zero up. `stale`
records that a handler with a good result ran after its connection was given
up; the safety properties hold without that, and `MoreQueuedWhenNotEmpty` and
`ReconnectionCancelsHeartbeat` show what happens with it. A new connection gets a number
that nothing refers to any more.

### FrameStream

A read takes any number of the bytes on their way, up to the size of the chunk, so
frames are cut and joined everywhere. The limits of the three forms of a length
are constants, 125 and 65535 in the code. The server is external: it answers the
upgrade well or badly, frames as RFC 6455 says or sends a bad frame (reserved
bits or opcode, masked), and sends nothing before the handshake is over: bytes
that `ReadHandshakeResponse` reads past the terminator are lost, in the model as
in the code. The text of HTTP is three parts. `cutOff` records that a connection
was lost within a message, whose fragments stay in the reassembler.

### JsonScanner

The scanner works on a text; the document the text was written from says what
the answer should be. Positions are counted from 1.

### SbeFeed

A message is a record of the fields the decoder reads, with the size of the
whole; prices are whole numbers of 10^kMinExponent, so `Scale` is exact. The
exchange numbers its updates upwards across sessions, until it starts anew
(`restarts`); a session may be lost with what it carries. The quoter is the part
of `OnBookUpdate` that decides whether to quote again, and hears of updates only
while the private session is up.

### BookFeed

Pushes arrive in order; the exchange may fail to send one; a session may be
lost with what it carries. An update changes one level, a snapshot lists a side
best first. Whether a new mid is far enough from the last is left open. Prices
are small integers, since the code compares doubles parsed from the same text. A
level without a price or a size makes `ApplyLevels` throw in the middle of a side;
nothing below `main` catches it, so the book it leaves is never read and the
exchange of the model sends none.

## The runs

Passing runs:

| Run | Shows | Distinct states |
|---|---|---|
| engine_quoter | the quoter across a lost session and the kill switch: in step with the store (`QuoterTracksStore`), no placement after the kill switch (`NoPlacementAfterKill`) | 0.72 M |
| engine_everything | quoter, round trip, a leftover order, a lost session and a failing REST call at once: the inductive invariant (`IInv`), legal transitions, real acknowledgements, logins align the store, nothing open is dropped unless a listing failed (`DroppedOnlyIfNotPending`), no order goes back, the kill switch closes what it can name, dead pending orders leave the store | 74 k |
| order_store | the array implements the map (`ImplementsMap`), every call returns (`CallsReturn`) | 59 k |
| accounting | P&L accounts for every fill, quantity and balances are the exchange's, a realised loss triggers the kill switch | 0.69 M |
| rate_limiter | the ring implements the window, on rings of one and three slots | 0.19 M |
| async_logger | whole, in order, no race, drops counted; published records are printed, the destructor returns | 0.16 M |
| ws_client | byte stream, wake-ups, one read and one write, login first, no spurious teardown; reconnection and draining | 0.11 M |
| frame_stream | frames and messages as they were sent, replies are masked echoes | 61 k |
| json_scanner | lookups and walks give what a parse of the text gives | 86 k |
| book_feed | sorted and equal to the exchange's book, gaps admit only a snapshot and are closed by one | 0.20 M |
| sbe_feed | the book is the top applied last, the quoted mid stays near it, the book catches up | 0.18 M |

engine_late_push ends in a violation of a sentence in the repository (quoted in
`findings`): a fill push that overtakes a rejection makes `OnRequestRejected`
throw.

### What TLC refutes

The last section of each module states, besides the one above, what the
repository says of the program and the program does not do. TLC refutes each
formula when it is the only property of the configuration named here.

| Formula | Configuration | What happens |
|---|---|---|
| `KillSwitchCancelsEverything` | EngineQuoter | `KillSwitch::Trigger` (kill_switch.cpp:22) skips an order whose ordId is not known yet and never comes back to it, so it stays open; README.md:59-60 says "a kill switch cancels everything and halts on a realised-loss breach" |
| `PreTradeChecksRun` | EngineEverything | `PlaceSide` (naive_quoter.cpp:155) adds and sends without `CheckPreTradeRisk`, and takes the store past max_open_orders; README.md:59 says "Pre-trade checks run before any order placement" |
| `LoginRefreshesOrders` | EngineQuoter | `ReconcileOrders` (reconciliation.cpp:38) skips an order the store has, so one acknowledged while the session was lost keeps PendingNew and an empty ordId; README.md:58-59 says "reconciled against exchange state on every reconnect" |
| `OnlyEndedOrdersAreDropped` | EngineEverything | an error body in answer to GET pending orders reads like an empty list (reconciliation.cpp:29), so open orders are dropped as "no longer pending on exchange" (reconciliation.cpp:76) |
| `AmendsAreResolved` | EngineEverything | `ReplaceSide` (naive_quoter.cpp:147) tracks no response: a refused amend stays PendingAmend, and both the quoter and reconciliation skip the order from then on |
| `RequestsRespectWindow` | RateLimiter | the round trip (ws_order_round_trip.cpp:44) sends without `TryAcquire`; README.md:61-62 says the limiter "checks each endpoint" |
| `EverythingReachesStdout` | AsyncLogger | `WriterLoop` (async_logger.cpp:66) loads `tail_` before `running_`; records published in between are never printed |
| `MoreQueuedWhenNotEmpty` | WsClient | `on_write` (okx_ws_client.cpp:210) commits its bytes although `ScheduleReconnect` has reset the ring since, and `size_` wraps below zero; okx_ws_client.cpp:212 says "More queued past this write, or past the wrap point" |
| `MessagesAreWhole` | WsClient with MaxFragments 3, MaxArrivals 4, no sends or beats | `Connect` (okx_ws_client.cpp:75) clears `rx_buffer_` but not `reassembler_`: fragments of two connections are joined |
| `ReconnectionCancelsHeartbeat` | WsClient | a heartbeat handler already queued survives the cancel (okx_ws_client.cpp:231), writes a ping and arms the timer without a connection |
| `BestPricesExist` | BookFeed | `Set` (order_book.hpp:57) stores the deletion of a level that fell off the full array as a level of size 0, which can become the best price |
| `StaleBookIsNotQuoted` | BookFeed | `OnTimer` (naive_quoter.cpp:92) places at the last mid while a gap is open; market_data.cpp:75-76 says the book "must not be trusted until a fresh snapshot resets it" |

Others hold only with the exception that they state, and without it TLC refutes
each. `DroppedOnlyIfNotPending` and `LoginAlignsStore` except the step in which a
listing fails; `PositionIsExchanges` excepts fills of a lost session (`missed`),
which nothing fetches; `CatchesUp` excepts a restart of the exchange's numbering,
after which `SbeBboSource` rejects updates until the numbers pass `last_seq_id_`;
`NoSpuriousTeardown` excepts a connection made while a handler of the one before it
was still queued (`early`), which that handler gives up.

Four say less than their names may suggest. `NeverRegresses` compares, under an
amend or a cancel in flight, the state a rejection would restore; a Live push
that `ApplyEvent` ignores in PendingCancel (order_lifecycle.cpp:71-73) and a refusal
after it leave the order unacknowledged, which it does not see. `MidFollowsTop` is
about `last_quoted_mid_`, not about the price of an order whose amend was skipped
(naive_quoter.cpp:133-141). `BookIsExchanges` compares levels until one has fallen
off the array; until the next snapshot it then speaks of order and size only.
`LossTriggersKillSwitch` is about the loss `Position` knows of.

### Bounds

*Engine.* Three orders let the quoter hold both sides and abandon one; a store of
two or three fills up. One lost session, one REST error, one or two waiting
requests and one unread push per order are enough for each hazard to occur with
each handler due next. engine_quoter switches off what its question does not
need, and engine_everything puts all of it together on two orders, one of which
an earlier process may have left open. The theorems hold for all values of these
bounds.

*Store.* Four slots and five ids: bisection over every length up to a full array,
and a key before, between and after all others. The proofs hold for every
capacity. *Accounting.* Three fills of two prices and two sizes open, add to,
reduce, close and turn around a position; three currencies meet a table of two.
*Logger.* The ring holds two records and sees eight calls, so that it wraps twice
and more.

*Session.* The tx ring has five bytes with frames of one and two, so that frames
wrap and overflow; its size counts modulo 10, a multiple of 5 as 2^64 is of 2^14.
One fault is followed by a whole recovery, with a backoff that may be over early.
`StreamIntact` notices a wrapped size because the modulus is small. *Frames.* Three
frames over two connections; payloads of up to one byte, of two and of more take
the three forms of a length, so the comparisons are checked at their edges and the
literals 125 and 65535 are not; a reassembly buffer of three bytes overflows.
*Feeds.* One update is missed (`MaxMissed`), after which others may follow. Arrays of two levels meet three bid prices, so that levels
fall off; a gap, a reconnect and two pushes on their way. The exponents of the
binary feed are -1 to 1 with one beyond each end. *Scanner.* Documents nested two
deep; strings of brackets, commas, quotes, backslashes and the text of keys.

Bounds on steps (`Max...`) stand in guards. Deadlock is not checked where the
process may really stop or the inputs are used up (`TradingEngine`, `Accounting`,
`FrameStream`, `JsonScanner`, `SbeFeed`); elsewhere a rest is an explicit step
(`Rests`, `Terminated`). The symmetry of accounting's currencies is sound: the
code only compares them.

### Fairness

Weak fairness of handlers, because `Engine::Run` polls for ever; of timers; of
the exchange's answers to requests it has received. For the logger, weak
fairness of both threads, and strong fairness of the loads that see the latest
store: a store becomes visible in finite time. For the order store, weak fairness
of the steps within a call. For the binary feed, of message handlers, of the
reconnect and of the exchange taking up a subscription. Market moves, faults, signals and
calls to the logger have no fairness. Faults are bounded, so liveness says what
happens once they stop.

## The proofs

*TradingEngine* (`BoundsAssumption`: bounds are natural numbers). `IInv` adds to
the type invariant: the store holds only working orders; no id is used before
`GenerateId` gave it out; a session carries only a login until it is answered
and no login afterwards; the round trip awaits one response about its current
order, and the quoter holds none of its orders; whatever the exchange says about
an order, it has received it. `NoIllegalTransition` alone is not inductive: an
amend of the round trip meets no amend in flight only because the quoter never
holds that order, which rests on ids being issued once. There is a lemma per
action: in `EngineSessionProofs` for the exchange, the session, reconciliation
and the login, in `TradingEngineProofs` for the order handlers and the quoter,
whose two sides are treated with an invariant of the record handed from one to
the other. From `IInv`
follow `TypeOK`, `NoTerminalOrderInStore`, `NoIllegalTransition`,
`QuoterTracksStore`, `NoPhantomAcknowledgement`, `RequestsNeedLogin` and the
action properties `NeverRegresses`, `NoPlacementAfterKill`,
`KnownOrdersCancelledByKill` and `LoginAlignsStore`. `DroppedOnlyIfNotPending`
needs a second invariant on top, `EndsAreFinal`: a push that ends an order is about
an order the exchange has closed, and a closed order stays closed, because a
placement that waits or is late is the only one of its order and the exchange has
not seen it.

*RateLimiter* (`LimitsAssumption`: capacities positive, windows natural). `IInv`
is the type invariant, `GrantsRespectWindow` and `RingIsRecent`, without which
the others are not inductive: the ring holds the latest grants in order, and
what it forgot has left the window for good; so the number left after the loop is the number in the window, which
gives both `GrantsRespectWindow` and the refinement `ImplementsWindow`. Lemmas
about indices modulo the capacity stand at the head of this module, of
`AsyncLoggerProofs` and of `OkxWsLinkProofs`.

*AsyncLogger* (`RingAssumption`: capacity positive). The slots from `head_` to
`tail_` hold the unread records, and with those the engine's thread may still
believe unread they leave a slot free; from it follow `PrintedInOrder`,
`NoConcurrentAccess` and `Accounted`.

*OrderStore* (`StoreAssumption`: ids are positive numbers in the order of their
strings, the capacity is natural). `IInv` says what holds at every step of every
call: the occupied slots, which are those below `count_` except for the gap a
shift moves along, hold orders and are strictly sorted, and there are `count_` of
them; during a search the ids left of `begin` are smaller than the argument and
those from `end` on are not; while `Add` shifts, the gap is at or above the place
of the new id, which no order has. Sortedness alone is not inductive: that the
emplaced order fits into the gap rests on what the search has established. From
`IInv` follows the refinement `ImplementsMap`: the orders in the occupied slots
are the map, a call is unanswered up to the step named above, and a shift leaves
both as they are. That a search answers for the key it was given is what the bounds
on the ids left of `begin` and from `end` on are needed for.

*OkxWsClient* (`ClientAssumption`: the ring holds at least a byte, its counter's
modulus is a larger multiple of its size, and every frame fits). The properties
speak of one handler at a time, but what makes them hold is spread over the ring,
the flag, the pending operations and the handlers in `ready`. `IInv` is the type
invariant and three parts. `NothingPending`: without a connection nothing is
pending on one. `ReconnectInOrder`: while no backoff was over early, `Connect`
finds no connection and no failure left behind. `Session`, until a handler
outlives its connection: the ring's unread bytes are the bytes still to be sent;
a pending write and the handler of one both describe the front of the ring, and
there is at most one of the two; `write_in_flight_` is set exactly while there is
one, or while the login is being put together, and is clear only when the ring
is empty; there is at most one read; a connection's first frame is the login.
`StreamIntact` alone is not inductive: that `on_write` commits the bytes that were
written rests on the region being the front of the ring, and that on there being
one write. From `IInv` follow `StreamIntact`, `NoLostWakeup`, `OneReadOneWrite`,
`LoginFirst` and the action property `NoSpuriousTeardown`.

*BookFeed* and *OrderBook* (`FeedAssumption`: the capacity is positive, prices and
sizes are natural numbers). Three layers. The array: `LowerBound`'s bisection
returns the place of a price in a sorted array, for every length, and `Set` there
keeps the array sorted and within its capacity and, unless a level fell off, changes
exactly the level at that price. The push: setting the levels of a snapshot one
after the other makes the side the exchange's, and so does a change that chains
onto a book that is the exchange's. The queue: `IInv` says that each push on its
way that chains onto another, or onto the book, is the change between the two
books of the exchange; that before the first snapshot no change arrives without a
snapshot ahead of it; and that while a gap is open every change on its way is
newer than the book, so that none chains. `BookIsExchanges` alone is not inductive:
a change leads to the exchange's book only if it was the next one. From `IInv`
follow `BookIsExchanges` and the action property `GapBlocksUpdates`. The
inductions, over the positions of an array, the width of the range and the levels
of a push, use the least-number principle: the lemmas assume it (`LeastNumbers`),
and the theorems take it from `WellFoundedInduction`, where it needs no operator as
parameter.

Each proof module opens with a `USE` that gives a leaf to Zenon for a few seconds
and then to the SMT solver: most leaves are propositional once the facts they cite
are in place, and tlapm's translation for SMT, which has a time limit of its own,
becomes slow late in a long module.

Only model-checked: every liveness property (fairness is out of the prover's
reach); and everything about `SbeFeed`, `FrameStream`,
`JsonScanner` and `Accounting`. The codec and the scanner are recursive operators
over bytes and characters, which the prover cannot expand, and the P&L compares a
state with a history of fractions in lowest terms.

## Not modelled

- Latency histogram and tick-to-trade statistics: counters that are only logged.
- Signing, base64, SHA-1, TLS, the text of HTTP and REST requests, configuration:
  text and I/O without state that another part reads.
- `ParseDouble` and `ParseLL`: calls of the C++ library.
- Rounding of doubles, in prices and in P&L.
- Malformed messages past the decoder and the scanner: where the code throws at
  one, the process ends.
- A push with several orders, which OKX does not send.
- The REST fallback of the round trip, reached only by a message dispatched after
  its connection was given up.
- `BuildWsBatchOrdersMessage`, which nothing calls.
- The public session, which is the private one without login; its sessions are
  external to `BookFeed` and `SbeFeed`.

## Plan

Next: late dispatches and the REST fallback of the round trip; proofs about
`SbeFeed` and `Accounting`.
