# liquibook-x in TLA+

This directory specifies and verifies the core of liquibook-x: the limit order
book with the containers it is built from, the matching engine on top of it,
the lock-free ring buffer, the two-thread pipeline that feeds the book from a
NASDAQ ITCH stream, and the code that reads, decodes and generates such streams.
Paths below are relative to the repository's root unless they name a module.

## 1. The system

| Component | State | Operations | Talks to |
|---|---|---|---|
| Order book `book/` | per-price levels (flat array around a reference price, hash map of outliers), order pool, reference index, cached best bid/ask | `add_order`, `execute_order`, `cancel_order`, `delete_order`, `replace_order`, `apply`; queries `best_bid`, `best_ask`, `shares_at`, `next_level_after` | pool, list, hash map |
| Matching engine `engine/` | none between calls (it works on a book) | `submit` for Limit, Market, IOC and FOK orders, with optional self-trade prevention | book; handler callbacks `on_fill`, `on_rest`, `on_kill` |
| SPSC ring buffer `containers/spsc_ring_buffer.hpp` | buffer, two atomic indices | `push` (one thread), `pop` (another) | - |
| ITCH pipeline `pipeline/` | producer offset, `producer_done`, consumer loop | `run_itch_pipeline` | decoder, ring buffer, book |
| Object pool `containers/object_pool.hpp` | slots, free list inside them | `acquire`, `release` | orders of the book |
| Intrusive list `containers/intrusive_list.hpp` | head, tail, size; links in the objects | `push_back`, `push_front`, `remove`, iteration | queues of the book |
| Hash map `containers/hash_map.hpp` | probed table with tombstones | `insert`, `find`, `erase` | reference index of the book |
| ITCH decoder `itch/decode.cpp` | none | `decode` | pipeline, file reader |
| ITCH file reader `itch/file_reader.cpp` | mapping, read offset | constructor, moves, destructor, `next_raw_message`, `next_message` | decoder, operating system |
| Synthetic streams `itch/synth.cpp` | live orders, counters | `generate` | tests and benchmarks |
| Bench, smoke, allocation guard | - | measurement and test support | - |

What is hard here, and what makes each part correct:

* **Book.** One order lives in four places (pool slot, index, level queue,
  level total) and its price in a cache; every operation updates them one after
  the other and some undo themselves half-way. Correct means: the four always
  describe the same orders, a refusal changes nothing, totals and best prices
  are exact, time priority is kept, and the whole behaves like the plain map of
  `book/tests/reference_order_book.hpp`.
* **Engine.** A loop that edits the book it iterates over. Correct means:
  shares are conserved, price-time priority holds, FOK is atomic, a book is
  never left crossed, self-trade prevention works, the events tell the truth,
  the loop ends.
* **Ring.** Two threads without a lock, working with stale copies of each
  other's index. Correct means: no data race and FIFO delivery, also when the
  indices wrap.
* **Containers.** Raw pointers, links and probes that must agree after any
  history of calls. Correct means: each behaves as the plain thing it stands for
  (a stack of slots, a sequence, a bounded partial function), and the book on
  them behaves as the book on those.
* **Decoder and generator.** Two hand-written layouts of the same records, one
  by offsets, one by the order of appends. Correct means: no read outside the
  record, no byte in two fields or in none, what is encoded is what is decoded,
  and a generated stream only speaks of orders that exist.
* **File reader.** A move-only owner of a mapping, built by three system calls
  that may fail. Correct means: every mapping has one owner, no descriptor
  leaks, records come in order and stop at a cut.
* **Pipeline.** A termination handshake over two atomics. Correct means: no
  message lost, repeated or reordered, and the call returns.

`PROJECT.json` lists the individual hazards with their source lines and the
properties that would catch each of them.

## 2. Modules

| Module | Models | Role |
|---|---|---|
| `OrderBookOps` | `book/order_book.cpp`, contracts of the three containers | the book's operations as functions from book value to book value |
| `OrderBook` | the same, as a state machine | one action per public mutating method and `apply` |
| `ReferenceBook` | `book/tests/reference_order_book.hpp` | abstract specification of the book |
| `OrderBookOpsProofs` | - | lemmas about the operations: coherence; resting orders, totals, best prices |
| `OrderBookProofs` | - | theorems about `OrderBook` |
| `MatchingEngine`, `MCMatchingEngine` | `engine/matching_engine.hpp` | `submit`, one step per iteration of `execute_match`; instance for TLC |
| `MatchingEngineProofs` | - | theorems about `MatchingEngine` |
| `HashMap` | `containers/hash_map.hpp` | insert, find, erase as functions of a map value, and a state machine that runs them |
| `BoundedMap` | - | abstract specification of the hash map |
| `PowersOfTwo` | the rounding of both ring and map | what a power of two is |
| `ArithmeticProofs` | - | lemmas on remainders, powers of two and finite sums, and on the existence of recursive functions |
| `IntrusiveList` | `containers/intrusive_list.hpp` | the list's methods as functions of the objects and a list value |
| `NodeSequences` | - | abstract specification of the lists |
| `ObjectPool` | `containers/object_pool.hpp` | `acquire` and `release` as functions of a pool value, whose slots are objects or links of the free list |
| `PooledLists` | the two above, as the book uses them | objects of one pool linked into several lists; one action per method |
| `SlotStack` | - | abstract specification of the pool |
| `ContainerProofs` | - | theorems about `HashMap` and `PooledLists` |
| `MCContainers` | - | hash map and pooled lists for TLC, side by side |
| `LinkedBook`, `MCLinkedBook` | `book/order_book.cpp` on the three containers | every operation as the code's sequence of container calls; composes the container modules with `OrderBook` |
| `LinkedBookProofs` | - | theorems about `LinkedBook` |
| `ItchTypes` | `itch/types.hpp`, the check in `decode` | message types, lengths, what is accepted |
| `ItchCodec` | `itch/decode.cpp`, `itch/byteorder.hpp`, the encoder in `itch/synth.cpp` | records as sequences of bytes |
| `ItchRecords` | - | every record with a few nonzero bytes, given to `decode` |
| `SynthStream` | `itch/synth.cpp` | `generate`, one step per record, composed with codec and book |
| `MCItch` | - | generator, records and file readers for TLC, side by side |
| `Framing` | the length prefixes of both readers of streams | records in a stream that may be cut |
| `ItchFileReader` | `itch/file_reader.cpp` | readers, one step per system call and per call of a method |
| `ItchProofs` | - | theorems about `ItchFileReader`, `ItchRecords` and `SynthStream` |
| `BoundedFifo` | - | abstract specification of the ring |
| `SpscRingBuffer` | `containers/spsc_ring_buffer.hpp` | push and pop split at the atomic operations |
| `ItchPipeline`, `MCItchPipeline` | `pipeline/itch_pipeline.hpp` | producer and consumer on the ring and the book; instance for TLC |
| `ItchPipelineProofs` | - | theorems about `SpscRingBuffer` and `ItchPipeline` |

`MatchingEngine` extends `OrderBookOps` and calls its operators as the code
calls the methods. `ItchPipeline` extends `OrderBookOps` and `SpscRingBuffer`:
its consumer runs the very `apply` of `OrderBook` and its threads take the very
steps of the ring. `LinkedBook` instantiates `ObjectPool`, `IntrusiveList` and
`HashMap` on the parts of one book value, and `OrderBook` on the abstraction of
that value. `SynthStream` extends `OrderBookOps` and `ItchCodec`. Pipeline, file
reader and codec share `ItchTypes!accepts`, pipeline and file reader the
length-prefixed records of `Framing`.

An operator whose comment begins with *Mutant:* is a deliberately wrong version
of the definition that follows it. No specification uses it; substituting it
must make a property fail, which shows that the property can fail
(`PROJECT.json`, `mutants`).

### How state and actions correspond to the code

*Order book.* A book value is a record with one field per member of the class.
An `Order*` is the number of its pool slot, `nullptr` is `NoSlot`, an empty
`optional` is `NoPrice`. Level `<<"flat", i>>` is `flat_levels_[i]`,
`<<"outlier", p>>` the entry of `outlier_levels_` for `p`; an entry that was
not created yet is an empty level, since no caller can tell them apart. Shares
and prices keep their width: totals are computed modulo `ShareSpan`, the price
of a flat slot modulo `PriceSpan` (both 2^32 in the code). Each operator
answers `[ok, book]`, the method's return value and the book after it; failed
inserts and their undo are part of `add_order`. Here the hash map appears as a
partial function that refuses when full, the pool as a LIFO list, the intrusive
list as a sequence; `LinkedBook` justifies that, and `LinkedRefinesBook` proves it.

*Hash map.* A slot is state, key and value. `mix64` is left open: the map value
carries the home index of each key, `MapInit` chooses it, nothing changes it, so
what is checked holds for every hash. `Probes` is the loop of all three methods.

*Pooled lists.* A pool slot is a union, so a record with a `next_free` member or
an object with `prev` and `next`, never both; the lists share the objects, as the
levels of a book share the orders of one pool. `owner` records the precondition
of the methods: only a held object is linked or released, and a node is in the
list the caller says.

*Linked book.* One value per member: `pool`, `index`, `lists`, `total`, `best`.
An order has its `prev` and `next`, released memory becomes a free-list link.
`Abstraction` reads off the book of `OrderBook.tla` by walking the links, the
free slots and the probes.

*Codec.* The decoder is a table of offsets and widths per type, the encoder a
table of appends; `read_be` and `append_be` convert byte by byte, with a
`ByteSpan` in place of 256. *Generator:*
`Emit` is `append_header` to `write_framed` for one record, together with the
reader behind it, which decodes the record and applies it to the book of the
run. Every draw is a free choice, including draws of low probability.

*File reader.* `life` is the place of an object: absent, in the constructor
after `open` or after `fstat`, alive. `mapped` is the kernel's table: `munmap`
takes away as many bytes as the reader asks for.

*Engine.* `pc` is the position in `submit`: idle, matching, done. `Submit` is
the part before the loop (zero quantity, FOK dry run), `Iterate` one iteration
of `execute_match` or, once the loop ends, the treatment of the remainder;
`Return` hands control back. `events` records the handler's callbacks of the
current submit. `BookCall` stands for the owner of the book calling it
between submits.

*Ring.* `push` is three steps (load of `read_index_`, write of the slot, store
of `write_index_`), `pop` likewise. A load may return any value from the last
one the thread has seen up to the current one, as an acquire load may.

*Pipeline.* A stream is a sequence of frames and a number of bytes, which may
cut the last ones. `Walk` is the framing loop with `decode`'s accept/refuse
decision, `TryPush` / `FillSlot` / `CompletePush` the retried `push`, `TryPop` /
`CopySlot` / `CompletePop` / `ApplyMessage` the consumer's loop body,
`CheckDone` its acquire load of `producer_done` (reading TRUE makes all of the
producer's stores visible), and the second `pop` that follows it.

## 3. Runs

| Run | Question | Instance |
|---|---|---|
| `order_book` | Is the book coherent, does it implement the reference book and give its answers, are totals and level walks exact, is a refusal free of effects? | 3 references for 2 slots, so that the pool fills and slots are reused; the first and the last price of the flat window and the outlier next to each, so that every edge is met from both sides; share counts 0, 1, 2, so that partial, exact and excessive reductions happen |
| `order_book_queues` | Time priority with queues of three; best prices, also beside a flat slot whose price wraps below zero onto that of an outlier | 3 slots, window around 0 with `PriceSpan` 8, prices 0 and 1 in the window and 7, the outlier whose price the slot below 0 carries as well |
| `share_total_wrap` | *(violation)* Are best prices exact when a level's total wraps? | `ShareSpan` 4, orders of 2 shares |
| `matching_engine` | Conservation, FOK atomicity, uncrossed book, truthful events, and Market and IOC orders killed only when nothing is left for them, without self-trade prevention | 3 resting references, 3 prices (two flat, one outlier), incoming sizes up to 3 so that one order sweeps several orders and levels |
| `self_trade` | Price-time priority, no self-trade, Limit orders that rest crossed only at a blocked level, and the end of every submit, with prevention, resubmitted references and a book that is fed directly as well | 2 references and slots, so that two orders of different traders meet in one queue; resting orders of 2 traders (0 is "none": such an order is never blocked), IOC, FOK and Market orders of trader 1, 2 prices |
| `fok_self_trade` | *(violation)* Is FOK all-or-nothing with self-trade prevention? | 2 traders, 3 slots, FOK of 3 |
| `kill_self_trade` | *(violation)* Is a Market or IOC order killed only when nothing is left that it may trade with? | 2 traders, 2 prices, 3 slots |
| `full_pool` | *(violation)* Do the events match the book when the pool is full? | 1 slot |
| `itch_pipeline` | Data-race freedom of the ring and refinement of `BoundedFifo`; same book as one thread would build, nothing lost, the call returns | capacity 3 rounded to 4, indices modulo 8, so that the indices wrap and the ring fills and empties; a stream of 16 records (12 accepted), complete, cut inside the last record, cut inside a length prefix; the empty stream |
| `containers` | Is the map a bounded partial function with exact answers, counters and lookups? Is the pool a stack that never touches a live object, do the lists behave as sequences, forwards and backwards? | 5 keys, one of them 0, for 4 slots (hint 3), every hash up to rotation of the table and exchange of keys: full table, wrapped probes, table full of tombstones. 4 objects and 2 lists: removals with neighbours on both sides while another node is elsewhere, free lists in any order |
| `linked_book` | Does the book on its containers equal the book on their contracts, and are its pointers sound? | 3 references for 2 slots and a table of 2, every hash; one flat and one outlier level |
| `itch_input` | Does every generated record decode to what was meant, does the stream replay? Do offsets and lengths agree, and does each byte belong to one field? Who owns mappings and descriptors of files, and in which order do their records come? | *Streams:* 1 symbol, 2 adds into a pool of 2, up to 4 references, shares and prices of several bytes, prices that wrap below zero. *Records:* every type and every length up to one more than needed, with up to two nonzero bytes behind the type. *Files:* 2 readers, 3 addresses; an empty file, and a file of five records (good, unsupported, short, empty, long) whole, cut in a record, cut in a prefix |

`ImplementsBook` is a simulation checked as an invariant: from each reachable
linked book, each call with each argument gives the answer and the abstraction
that the abstract call gives. Together with equal initial states this is the
refinement of `OrderBook`; stated as a temporal property it asks TLC to evaluate
the abstract next-state relation on every step and does not finish in useful
time. `LinkedBookProofs` proves both forms.

`containers` holds two machines and `itch_input` three that share operators but
no state. A behaviour works on one of them and leaves the others in their initial
state: interleaving them would only multiply states.

`itch_input` uses 16 values per byte, so that the eighth byte of a 64-bit
field stays within TLC's integers. Characters are taken modulo that, which keeps
the ones that a decision depends on (`B` and `S`) apart; the message types, whose
letters would coincide, are numbered.

The bounds are chosen so that each boundary named in the hazards is inside the
instance: full pool, full ring, index wrap, both kinds of level, emptied level,
order drained exactly, queue with a middle, several levels swept by one order.
All orders of one level behave alike in the code and levels interact only
through the best-price scan, which the instances exercise within the flat
window, within the outliers and between them.

Deadlock is checked in every run. The pipeline's end state is the step
`Return`, which changes nothing.

### Fairness

* `MatchingEngine`: weak fairness of `Iterate`. `submit` is one thread in a
  loop without waits or locks; it keeps executing.
* `ItchPipeline`: weak fairness of each thread (both spin, neither blocks), and
  strong fairness of the loads that return the *current* value. The C++
  standard asks that stores become visible to atomic loads in a finite amount of
  time; without it a consumer could read stale indices for ever.
* All other modules: none; only safety is stated.

## 4. Findings

The runs marked *violation* show code that disagrees with what the repository
says about it.

1. **A wrapped level total hides a level** (`share_total_wrap`,
   `book/order_book.cpp:74`). Totals are 32-bit sums; when the orders of a level
   sum to a multiple of 2^32 the scan takes the level for empty and the cached
   best price is wrong. The differential test expects `book.best_bid()` to equal
   the reference's after every operation.
2. **FOK is not atomic with self-trade prevention** (`fok_self_trade`,
   `engine/matching_engine.hpp:134`). The dry run adds up eligible shares of
   all crossing levels; the loop stops at the first level where everything is
   blocked. `engine/order_types.hpp` promises all or nothing.
3. **Market and IOC orders are killed with liquidity left** (`kill_self_trade`,
   `engine/matching_engine.hpp:134`). The same break: when every order at the best
   price is of the order's own trader, the loop does not look at the next price, and
   the remainder is killed beside orders it may trade with.
   `engine/order_types.hpp:15` says a Market order matches "until filled or the book
   is exhausted", `engine/events.hpp:28` that a Market or IOC remainder is discarded
   "after the available liquidity ran out". A Limit order stops at the same place and
   rests (`RestsOnlyWhenBlocked` in `self_trade`).
4. **A refused remainder is reported as resting** (`full_pool`,
   `engine/matching_engine.hpp:51`). `submit` ignores the answer of `add_order`.

Two more observations, which no run states as a property:

* Empty slots of the hash map are never regained: a tombstone only becomes
  occupied, and an erase makes it a tombstone again. Churn uses the empty slots
  up at any load; from then on each lookup of an absent key, and with it each
  `add_order`, walks the whole table. The class comment expects reuse to keep
  tombstones from degrading every future probe. Answers stay right
  (`containers`), only their cost grows.
* The generator's Executed, Cancel, Delete and Replace messages take the locate
  of the symbol drawn for the message, not that of the order
  (`LiveOrder::symbol_index` is stored at `itch/synth.cpp:157` and never read).
  With one symbol, or one book for all as in the tests, the stream is consistent
  (`itch_input`); a router by `stock_locate`, as `book/order_book.hpp` has it,
  would misdirect it.

The positive runs state the conditions under which the properties do hold:
totals below the span, self-trade prevention off, room in the pool, one book for
the stream.

## 5. Proofs

All theorems hold for every value of the constants that satisfies the `ASSUME`s
of the model's modules. These say what the constructors and the types of the
code guarantee: prices, share counts and trader ids lie in the ranges of their
types and 0 is a trader id; the index has at least as many entries as the pool
has slots; the ring's indices wrap at a power of two that is at least twice the capacity
asked for; a file or stream ends within the bytes its records were framed to,
and the messages of a stream are messages of the book; the objects of the lists
are the slots of the pool, may have any members besides `prev` and `next`, and can
hold any pointer in these; a byte has at least two values, and symbols are texts
of bytes. A
hypothesis beyond these stands in the theorem itself, and each of them is
explained below.

### Order book (`OrderBookProofs`)

| Theorem | Statement |
|---|---|
| `TypeCorrect`, `Coherence`, `RefusalsAreSafe` | `Spec => []TypeOK`, `[]Coherent`, `[]RefusalsChangeNothing` |
| `TotalsAreExact`, `AnswersAreExact` | `Spec => []TotalsExact`, `[]AnswersAgree` |
| `BookRefinesReference` | `Spec => ImplementsReference` |
| `KeepsTimePriority` | `Spec => TimePriority` |
| `BestIsExact`, `WalkIsExact` | `Spec /\ []NoWrap(book) => []BestExact`, `[]WalkExact` |
| `BestIsExactIfSmall` | `Spec => [](BestExact /\ WalkExact)` if orders have at most `M` shares and `M * OrderCapacity < ShareSpan` |
| `RollbackRestores` | the undo of `add_order` gives back the book it started from |

*Inductive invariant.* `BookInv(b)` is `Sound(b)` (type and `BookCoherent`)
with `TotalsSound(b)` (each counter is the sum of its orders modulo its width)
and `BestBacked(b)` (a cached best price, if there is one, is a price at which
orders rest on its side; this half of exactness holds even when counters wrap). The halves of `Sound` need each other: that a total or a slot
keeps its type needs the index to point at a real order whose level is that of
its price, and coherence needs the typing of every field.

*Argument.* The operations are understood once, through the set of resting
orders: `Orders(b)` is the map from live references to orders, and `AddEffect`,
`ReduceEffect`, `RemoveEffect`, `DeleteEffect` and `ReplaceEffect` say for each
operation that it keeps the invariant, what it answers, and how `Orders` changes
(one entry joins, changes or leaves). Everything else is derived from that:

* Totals: a sum over `Orders` changes by the one entry that changed.
* Refinement: `Resting(book)` is `Orders(book)` without levels, so the effects
  are the steps of `ReferenceBook`.
* Answers: the pool has a free slot exactly when fewer orders rest than it has
  slots (`PoolCount`), and while it has one the index has room (`IndexHasRoom`):
  a cardinality argument from the injection of live references into slots.
  That is also why `replace_order`, which removes first and adds then, never
  loses the old order.
* Time priority: a free slot is in no queue and a used one in its own queue
  only, so that linking appends to one queue, unlinking takes one place out of
  one queue, and every other queue shows the same references as before.
* Best prices: under `NoWrap` a counter is zero exactly when its level is empty,
  so that the scan of the levels is a scan of the orders; `BestLeads` (nothing
  rests at a better price) is then inductive beside `BookInv`.

Inside `reduce_shares` an order is drained to zero shares before
`remove_order_fully` takes it out; `SoundBut(b, s)` is soundness with the
exception of slot `s` and covers the book in between. `RollbackRestores` is
proved although `IndexHasRoom` shows that the insert cannot fail: only the
constructor's arguments keep the undo from running.

*The hypothesis* `NoWrap` (the shares at a level sum to less than the span of
its counter) is necessary: without it `share_total_wrap` violates `BestExact`.
`BestIsExactIfSmall` discharges it from bounds a deployment can check: with 32-bit
counters, 65536 slots and orders of at most 65535 shares for instance.

### Matching engine (`MatchingEngineProofs`)

| Theorem | Statement |
|---|---|
| `EngineTypeCorrect`, `EngineConserves` | `Spec => []TypeOK`, `[]Conservation` |
| `EngineNoSelfTrade` | with `PreventSelfTrade`: `Spec => NoSelfTrade` |
| `EnginePriority`, `EngineStops` | `Spec /\ []NoWrap(book) => PriceTimePriority`, `[]RestsOnlyWhenBlocked` |
| `EngineKills` | without `PreventSelfTrade`, or when no incoming order names a trader: `Spec /\ []NoWrap(book) => []KillsOnlyWhenExhausted` |
| `EngineNotCrossed` | without `PreventSelfTrade` and `MixedFeed`: `Spec /\ []NoWrap(book) => []NotCrossed` |
| `EngineEvents` | with `UniqueRefs`: `Spec /\ []RoomToRest => EventsMatchBook` |
| `EngineFOKAtomic` | without `PreventSelfTrade`: `Spec /\ []SidesFit(book) => []FOKAtomic` |

*Inductive invariant.* `EngineInv`: the book's `BookInv`, the types of order,
`remaining` and events, and `Accounted` (what was reported and what remains add
up to the order's shares). `EngineInv` needs no hypothesis on wrapping: even with
wrong best prices, shares are conserved. The proofs use the effect lemmas of the
book and never its representation. `NotCrossed` needs in addition that the best
opposite price no longer crosses when the loop has ended and that the remainder
is added then, `KillsOnlyWhenExhausted` the first of these; `RestsOnlyWhenBlocked`
that the best price which ended the loop has blocked orders only, and that the
remainder joins the other side.

`FOKAtomic` rests on `FOKInv`: a FOK order that is being matched still finds
enough shares in reach for what remains, and one that was killed found too few.
The dry run is a recursion from price to next price. It is well defined because
each step leaves fewer levels ahead (`DescentExists`), and what it adds up at a
price is exactly what rests at the crossing prices from there on. An iteration
takes as much from the reach of the order as from `remaining`, so that the loop
can stop only with nothing remaining.

*The hypotheses* are the conditions under which the properties hold in the
code. `PreventSelfTrade`, `MixedFeed` and `UniqueRefs` are the model's switches
for the caller's choices, and both values are taken in the runs. `RoomToRest`
(the pool has a free slot while a Limit order is matched) is necessary, see
`full_pool`. `SidesFit` (the shares of each side sum to less than the span of
`Shares`) is `NoWrap` for the dry run, which adds up the counters of several
levels in that width; `~PreventSelfTrade` is necessary, see `fok_self_trade` and
`kill_self_trade`.

### Ring (`ItchPipelineProofs`)

`RingTypeCorrect` (`RingSpec => []RingTypeOK`), `NoDataRace` (`RingSpec =>
[]RaceFree`) and `RingIsFifo` (`RingSpec => ImplementsFifo`). `RingInv` adds to the
type that what each thread remembers of the other's index lies between the other's
last store and its own: from the producer's view the ring is at least as full, from
the consumer's at least as empty, as it is; that what was written stays in its
slot until it is published, and what is being copied until it is released; and that
every index between the two has an item in its slot. All of it is said with the distance
of two indices modulo the index width, so that wrapping needs no case of its
own; that the mask takes different indices within one capacity to different
slots is where the powers of two enter (`PowersDivide`, `ModApart`).

### Pipeline (`ItchPipelineProofs`)

| Theorem | Statement |
|---|---|
| `PipelineTypeCorrect`, `PipelineRaceFree` | `Spec => []TypeOK`, `[]RaceFree` |
| `PipelineIsSequential`, `PipelineProcessesAll` | `Spec => []BookIsSequential`, `[]AllProcessed` |
| `PipelineIsFifo` | `Spec => ImplementsFifo` |

The ring's own theorems are about a ring whose two threads push and pop at
will. Here its steps are taken from two loops, and there is one that the ring
alone does not have: reading `producer_done` makes the last store of
`write_index_` visible. `PipeInv` is `RingInv` together with where each loop
stands: the producer stands before a record of the stream and pushes only that
one, it stops only in front of an incomplete one, the try after the check of
`producer_done` sees the last `write_index_`; and `Carried`: of the messages of the stream,
the first `processed` made the book, the one being applied follows, then those
inside the ring, and together they are the ones the producer has sent. The
last two give `AllProcessed`: the consumer leaves only when nothing is inside, and
by then everything was sent.

### Hash map (`ContainerProofs`)

`MapTypeCorrect`, `MapFinds`, `MapAnswers` (`MapSpec => []MapTypeOK`,
`[]FindExact`, `[]AnswersExact`) and `MapIsPartialFunction` (`MapSpec =>
ImplementsMap`), for every capacity and every hash. The inductive invariant
`MapSound` says, besides type and exact counters, that no key is stored twice and
that there is no empty slot between a key's home and its place; this is what
`erase` protects by leaving tombstones, and what lets a probe stop at an empty
slot.

### Pool and lists (`ContainerProofs`)

`PooledLinksSound` (`PooledSpec => []LinksSound`), `PoolIsStack` (`PooledSpec =>
ImplementsStack`) and `ListsAreSequences` (`PooledSpec => ImplementsSequences`),
for every capacity and every set of lists. `PooledInv` says that there *is* a
sequence without repetition whose neighbours are linked with each other, from
head to tail, for each list, and likewise one for the free list, and that these
sequences visit exactly the slots with that owner. The operations are
then understood on the sequences: a push or a removal changes the links of at
most three objects, all of one owner, so that every other sequence stays one.
That a walk along the links gives the sequence back needs that the recursive
function exists (`WalkExists`) and that a repetition-free sequence ends within
as many steps as there are slots.

These theorems leave open what else an object has (`Objects`, of which
`Linkable` says only that prev and next are members that any pointer may be
written to), so that they apply to the orders of a book as well as to the bare
nodes that TLC uses.

### Book on its containers (`LinkedBookProofs`)

| Theorem | Statement |
|---|---|
| `LinkedInvariant` | `Spec => []LinkedInv` |
| `LinkedPointersSound` | `Spec => []PointersSound` |
| `LinkedImplementsBook` | `Spec => []ImplementsBook` |
| `LinkedRefinesBook` | `Spec => Book!Spec` |

The last is the refinement of `OrderBook` by the book made of pool, links and hash
table, for every capacity, window, set of references and hash function. With it
the theorems about `OrderBook` are theorems about the code's pointers: since
`OrderBook` implements `ReferenceBook`, so does the linked book.

*Inductive invariant.* `LinkedInv` is `Represented(linked)`: the linked book `b`
and its abstraction `a` are related by `Rep(b, a)`, and `a` satisfies the
`BookInv` of the order book's proofs. `Rep` says that a slot holds an order
exactly where `a.slots` has one, with the same visible members; that the list of
each level and side is linked, in both directions, as `a.queue` says; that the
free list is linked as `a.free` says and `size()` counts the others; and that
the table is a sound map that answers as `a.index`. `PointersSound` alone is not
inductive: it says nothing of the order within a queue or of the free list, nor of
tombstones.

*Argument.* One lemma per call (`AddSim`, `ReduceSim`, `DeleteSim`,
`ReplaceSim`): related books stay related and the answers are the same. Each
follows the code's sequence of container calls, by the lemmas of
`ContainerProofs` on what push, removal, acquire, release, insert and erase do to
sequences and look-ups, instantiated for the orders of the book. The
intermediate states matter: between unlinking an order and releasing its slot
the structures disagree, and an order whose last share was taken is still linked
(`SoundBut`). What must be shown at each step is that the container is called as
its contract supposes: that the acquired slot is in no list, that the removed
order is in the list of *its own* level and side, that its key is still read from
live memory. The insert into the index cannot fail, because a map built for
`order_capacity` keys has at least that many slots (`RoomIs`). So the undo branch
of `add_order` in `LinkedBook` is unreachable; `RollbackRestores` shows what it
would do.

### File reader (`ItchProofs`)

`MappingsOwnedOnce` (`Spec => []OwnedOnce`) and `RecordsComeInOrder` (`Spec =>
[]RecordsInOrder`). `ReaderInv` adds to `OwnedOnce` what each phase of an
object's life knows: a reader without a mapping is at offset 0 and has answered
nothing, one with a mapping knows the size of its file, which is not 0, and its
offset is behind a whole number of records. The last makes `FrameAt` well
defined (prefixes have two bytes, so more records are more bytes) and keeps a
reader from looking for a record behind the last one.

### Decoder, encoder and generator (`ItchProofs`)

| Theorem | Statement |
|---|---|
| `DecoderReadsInside` | `RecordSpec => []ReadsInside` |
| `DecoderReadsEachByteOnce` | `RecordSpec => OneByteOneField` |
| `StreamReadsBack`, `StreamIsConsistent` | with `WideEnough`: `SynthSpec /\ []CountersFit => []WireExact`, `[]StreamConsistent` |

*Decoder.* The fields of each type tile the record: every byte between the type
and `wire_length` lies in exactly one field. A number read from bytes differs
when one of the bytes does, so a changed byte changes its field, and no other
field contains it.

*Round trip.* `append_be` followed by `read_be` is the number again if it has
no more digits than the field has bytes; the digits are peeled off from the least
significant one, `s[width - k]` for growing `k`. A table of where each append
ends shows that the appends put every field where the decoder looks for it.

*Generator.* `GenInv`: the counters' ranges; what each live order may be (a
reference already used, at least one share left), and that there are at most as
many as were added; `WireExact` for the last record; the book's `BookInv`; and
`Mirrors`, which says that the orders resting in the replayed book are the live
ones. Each message is first read back from the
wire and then applied, so the round trip is used in every step; that an Add is
not refused follows from `PoolCount` (fewer live orders than slots).

*The hypotheses.* `WideEnough` states the widths of the code's types: shares and
prices fit four bytes, references eight, lengths two, `B` and `S`
are different characters; every price is one the book takes, and the
book has a slot for each of the `num_orders` adds, as in the tests that replay
streams (a replace needs none of its own). `CountersFit` keeps the two counters
that only grow within their fields, the timestamp in six bytes and the match
number in eight; `generate` checks neither.

### Sums, minima and recursions

The provers cannot instantiate the library's induction theorems. The facts on
finite sums (`ArithmeticProofs`: any index can be taken out of a sum, a sum
depends only on its values, ...) and on minima are proved from the existence of
a least element of a set of naturals instead, by minimal counterexample.

A recursive function is a `CHOOSE`, and says something only once a function that
satisfies its equation is shown to exist. `IterationExists` (a sequence of
values, each computed from the one before) is proved by minimal counterexample;
`DescentExists` (a recursion along a falling rank) and `WalkExists` (a walk along
links) follow from it, and `SameSteps` says that two iterations with the same
start and step agree. Dry run, walks along links, sequential book and the
conversions of numbers are instances.

### Only model-checked

* Termination (`SubmitTerminates`, `Terminates`): liveness under fairness and
  `ENABLED` are beyond the prover.

## 6. Not modelled

* The bits of `mix64` (any hash is allowed instead) and the random engine and
  distributions of the generator (any draw is allowed).
* What the operating system does inside `open`, `fstat`, `mmap`, `munmap` and
  `close`: they succeed or fail, and change the tables of mappings and
  descriptors. A file does not change while it is mapped.
* The zero attribution that `decode` gives an Add Order message without one.
* The moves of pool and hash map, which the compiler generates and the
  repository never calls on a container in use.
* Benchmarks, the latency histogram, the allocation guard and the version
  string, which do not take part in the system's behaviour.
* Data that no property of the book, the engine or the pipeline tells apart:
  stock symbols, timestamps, match numbers, attribution. The codec and the
  generator do model them.

## 7. Plan

1. *(done)* The book, its reference, its runs and first theorems; the engine;
   the ring and the pipeline.
2. *(done)* The containers as modules of their own with their abstract
   specifications; the book on them; decoder, encoder, generator and file
   reader.
3. *(done)* Theorems about the order book (up to the refinement of its
   reference and exact best prices), the engine (up to the atomicity of FOK), the
   ring and the pipeline, the hash map, pool and lists, the book on them, the
   file reader, the decoder and the generator.

What is left is termination, which only TLC can show here.

The modules to be proved about declare no recursive operator; walks along links
are recursive functions.
