# CDHT in TLA+

A specification of the CDHT node (UDP key-value node in C), checked with TLC on
small instances and, for its core, proved with TLAPS for all instances.
Source paths below are relative to the root of the repository's tree.

## 1. The system

A node is one process. `main` reads the configuration, creates the lookup table
and the node, pings its seed nodes one after another, and then runs the receive
loop for ever. Eight worker threads, created before most of the node is set up,
take requests from a queue and answer them.

| Part | Source | State | Modules | Proofs |
|---|---|---|---|---|
| Request queue | `src/helpers/xqueue.c` | linked list with dummy, mutex, condition variable | `XQueue`, abstract `FifoQueue` | `XQueueProofs` |
| Packet format | `src/packet/packet.c` | none | `Packet`, `PacketWire` | `PacketProofs` |
| Handler, commands | `src/node/request_handler.c`, `load_commands.c`, `commands/ping.command.c` | command table | `RequestHandler` | |
| UDP server | `src/transfer/udp.c`, started by `node.c`, `main.c` | socket buffer, requests on the heap, queue, workers | `UdpServer` (uses `FifoQueue`, `RequestHandler`) | `UdpServerProofs` |
| Handshake, UDP client | `src/main.c`, `src/transfer/udp_client.c` | loop counter, client socket, network | `Handshake` (uses `RequestHandler`) | `HandshakeProofs` |
| Node identity | `src/helpers/network.c`, `node.c` | `node_id.bin` | `NodeLife` | `IdentityProofs` |
| Signals, shutdown | `src/core/signal.c`, `global.c` | `global_state`, nested handlers | `NodeLife` | |
| Configuration, INI parser | `src/core/args.c`, `src/helpers/ini.c` | `global_config`, state of the parser | `Config` | `ConfigProofs` |
| SHA-1 | `src/helpers/sha1.c` | `SHA1_CTX` | `Sha1` | `IdentityProofs` |
| Bucket index | `src/database/store.c` 8-14 | loop variables | `StoreHash` | `KvStoreProofs` |
| Storage engine | `src/database/store.c` | chains, bucket locks | `KvStore`, abstract `KvMap` | `KvStoreProofs` |
| Lookup table | `src/node/lookup_table.c` | list, counter, mutex, heap | `LookupTable` | `LookupTableProofs` |
| Table images | `src/node/lookup_table.c` 206-308 | data, table being built | `TableImage` | `LookupTableProofs` |
| Logger, clock, converters | `src/helpers/default_logger.c`, `time.c`, `convert.c` | static time buffer | not modelled | |

How the parts meet: `UdpServer` is written over the channel of `FifoQueue`, and
`XQueue` is shown to implement that channel, so the server's properties rest on
the queue as it is coded. `UdpServer` and `Handshake` both answer with
`RequestHandler`, which parses and builds real bytes with `Packet`. `MCKvStore`
takes its function from keys to buckets from what `StoreHash` shows of the index.

Each `MC*` module instantiates the module it is named after; `MCInputs` instantiates
the four modules of sequential algorithms, `PacketWire`, `Config`, `Sha1` and
`StoreHash`, side by side. Operators under a
"Seeded fault" comment are not used by any specification: each is a plausible
mistake in the definition that follows it, kept to show which property notices.

## 2. Modules and code

**XQueue.** `next`, `data`, `head`/`tail` and the mutex as in `xqueue_t`; a node
is a heap cell. `chain` is the list as a sequence, kept beside the pointers so
that `ListShape` can say the pointers form it. Each lock, wait and unlock is a
step, `cond` is the set of threads asleep, a signal wakes any one of them, and a
sleeper may wake without one. An item is enqueued again only when its consumer
is done with it, as `udp.c` does with requests. malloc does not fail (the code
does not test it); `Cells` bounds the heap.

**Packet, PacketWire.** Bytes are numbers below 256 and packets are encoded byte
by byte; `htons` and `ntohs` are modelled as what they do. `PacketWire` says what
may arrive of a packet that is sent: all of it, a prefix, or more than it. An
empty payload stands for both NULL and an empty block.

**RequestHandler.** The handler returns a buffer and a length, separately, as the
code does; what is sent is the prefix of that length. Before it dispatches a packet
the handler formats it for the log into a block of 512 bytes. `packet_to_string` is
the length of that line, and `LogFits` says for which datagrams it fits: with a longer
one the code is undefined from there on, and the model stands for nothing.

**UdpServer.** Starts when `udp_server_new` has returned: socket bound and
workers running, nothing else set. `StartUp` steps are the assignments of
`node_new` and `main` that the workers depend on. `arrived` and `sent` are
history variables. Requests are cells of `Reqs`, allocated by `Receive` and freed
by `Free`. Logging is left out, except that `LogAssumption` restricts the datagrams
to those whose log line fits. `sendto` with length 0 sends an empty datagram.

**Handshake.** Several nodes, each with its list of seeds, which may contain other
nodes, the node itself and names that `inet_pton` refuses. Nodes are stopped at any
point and started again (`Stop`, `Start`; `life` counts). `OpenSocket` is
`udp_client_new`; `SendPing` sends and `SendFails` does not, because `inet_pton` or
`sendto` failed; `Timeout` is a `select` or `recvfrom` without a response, `Response`
and `ForeignResponse` are one with. Datagrams are sets on which loss, repetition and
delay act freely, also across restarts. A seed's answer is one step here. `Foreign`
are answers of other programs at the address of a seed: bytes that are not a packet,
or a packet with another payload. `Ephemeral[l][i]` is the set of ports that the i-th
client socket of a node's l-th life may get.

**StoreHash, KvStore.** `StoreHash` is the loop of `sha1_mod_bucket` with signed
characters that are converted to `size_t`, whose arithmetic wraps at `SIZE`. `KvStore` takes any function `BucketOf` from keys (digests) to
buckets. `put` takes the lock, walks the chain, links and unlocks as separate
steps; so does `get`, which reads `data_length` only after the unlock, as the code
does. No command of the node calls the store yet, so any thread may call it.

**LookupTable.** One mutex; nodes are heap cells with `next` pointers. The loops of
`add`, `remove` and `find` go one node per step with the code's `current` and `prev`,
`remove` relinks as the code does (`Unlink`), and `add` inserts in a step of its own.
`list` is a history variable, the nodes that were added and not removed, with which
`TableSound` compares the pointers. `find` hands out a cell that its caller reads
later. `serialize` takes the mutex and calls
`serialized_size`, which takes it too: the thread stays there. `Stored` says what
is left of a host in 45 characters. When `Cells` are used up, malloc fails.

**TableImage.** The data that `serialize` writes after the size call, cut anywhere
or with a byte appended, and `deserialize` on it, record by record, with any
malloc failing. Counts for which the size computation wraps are excluded.

**NodeLife.** Processes that are started in a directory, go through `main` and
`node_new` step by step, and are killed or signalled anywhere. `disk` is the
content of `node_id.bin`: none, an id, or `TORN` when it has fewer than 20 bytes,
which it has from `fopen` for writing until the buffer of the `FILE` is written.
`fclose` writes that buffer and so does `exit`, but a kill does not. Calls that the
code does not test, or whose failure `node_new` ignores, may fail: an id is then
whatever the array held (`Junk`). The `exit` of the handler is one step: what other
threads do while it runs is not modelled. Handlers are a stack for each of two threads, as
different signals interrupt each other's handlers; a signal before `signal()` has
installed the handler ends the process. Random ids never repeat.

**Config.** A file is a sequence of lines, a line a sequence of lexemes: white space,
punctuation, digits, and words that the code only compares. White space is a blank or
a tab: at `\v` and `\f`, which `isspace` accepts too, `strtok` does not divide.
Numbers, with or without a sign, fit an `int`. `Parser` is the state of
`ini_parse_stream` after each line, `ParseLine` the body of its loop, with the options
that `ini.h` sets by default (continuation lines, BOM, inline comments, a buffer of
fixed length, no stop at the first error). `handler` replaces the list of seeds: its
n-th element is the word of rank n among the words with a colon, and `Allocated` is
the size of the block it gets.

**Sha1.** All of `sha1.c`. Words are sets of bits. A step is one call of `SHA1Update`:
for a byte of the message (`Feed`), for the byte 0200 (`FinalStart`), for a byte of
padding (`FinalPad`) or for the length (`FinalEnd`). The buffer of the context starts
with arbitrary bytes, since `SHA1Init` leaves it alone. The rounds of a block and the
blocks of a call are iterations of functions (`Iterate`; the rounds in groups of
sixteen, `Sixteens`, which keeps the evaluation by TLC shallow). `Standard` is the
definition of FIPS PUB 180-1, written independently of the code, with a schedule of eighty words
and the padded message; `MCInputs` evaluates it on the test vectors that `sha1.c`
quotes.

## 3. Runs

All passing runs explore their whole state space.

| Run | Bounds | What it shows |
|---|---|---|
| `xqueue` | 2 producers, 2 consumers, 3 items | list and heap intact (`ListShape`, `HeapExact`), no consumer unlinks a missing node (`TakeFindsNode`), no item waits for a sleeper without a wake-up on its way (`WorkConserving`), implements `FifoQueue` with its fairness (`FifoFairSpec`) |
| `inputs` | packets with fields at byte boundaries, payloads of 0, 1, 4, 256 bytes, every cut; files of up to 3 lines of 19 kinds, with and without the section in front, some longer than the buffer; 10 messages around 0, 1 and 2 blocks; 100 digests at the ends of char, 1024 buckets, a `size_t` of 17 bits | no packet is misread (`NoMisparse`, `Canonical`); the last setting counts, with all its seeds (`LastSettingWins`), a continuation replaces the value (`ContinuationRepeats`), lines in error change nothing (`SkippedLines`), a line that is cut keeps its first seeds (`OverlongKeepsFirst`); the digest is that of the standard (`DigestIsStandard`) however the data is divided (`UpdateIsStream`); only two characters decide on the bucket (`LastTwoDecide`) |
| `udp_server` | 2 workers, 2 clients, 3 arrivals, buffer of 2, 2 requests at a time | everything is set when a worker handles a request (`HandlerReady`), requests have one owner (`OneOwner`), replies are single and belong to their request (`AnsweredOnce`, `RepliesMatch`), a PING gets its PONG (`PingGetsPong`), what the socket buffers is answered (`BufferedIsAnswered`) |
| `handshake` | 3 nodes in a circle and a pair, 2 seeds each, one node started twice, fresh ports, 2 answers of other programs | client sockets are closed on every path (`SocketsClosed`), a peer is who answered and serves (`PeerServes`), peers that still run form no cycle (`PeersAcyclic`), a started node serves (`StartedServes`) |
| `node_life` | 1 node, 3 starts, 3 kinds of signals of which 2 arrive, 2 failures | one identity across restarts and one more per failure at most (`StableIdentity`), a saved one is kept (`SavedStays`), a handled signal ends the process (`SignalStops`) |
| `kv_store` | 2 threads, 3 keys (2 in one bucket), 2 values, 4 buckets | `ChainsSound`, `LengthFits`, `ChainsOnlyGrow`, `MapSpec`, `LocksReleased` |
| `lookup_table` | 2 threads, 3 cells, 2 hosts, 2 ports | pointers, counter and heap agree (`TableSound`), `AddressesUnique`, `MutexReleased` |
| `table_image` | up to 3 nodes, every cut, every malloc failing or not | `ReadsInside`, `NothingLeaks`, `ComesBackReversed`, `Returns` |

Why these bounds: two threads are enough for a race on one lock; three items empty
and refill a queue that two producers share; two keys in a bucket make a
chain with an end to race for; a socket buffer smaller than the arrivals
overflows; three nodes close a cycle of seeds that is longer than a pair; a restart
lets an answer outlive the node that sent it or that waits for it; three cells of the
peer table have a node at the head, one inside and one at the end; two failures let a
node lose its identity twice; three
starts allow for two interrupted ones before one that serves, and two signals for
a handler that is interrupted by another or runs beside it; three lines allow for a
setting, something that disturbs it and a line that depends on it. The line buffer
of `Config` is shorter than in the code so that lists of seeds exceed it. Deadlock
is checked in `xqueue` and `kv_store`; elsewhere a
behaviour may end (arrivals, starts and signals are bounded, a call has returned)
or, with `serialize`, really stops.

Runs that are expected to fail show where code and documentation disagree:

| Run | Disagreement |
|---|---|
| `udp_error` | a datagram that does not parse is answered by an empty datagram; the README documents `CMD_ERROR` as the response |
| `lookup_serialize` | `lookup_table_serialize` blocks on its own mutex |
| `lookup_find` | `lookup_table_find`, listed as thread-safe, returns a pointer that a concurrent remove makes dangle |
| `node_unique` | the README derives the identity of a node from MAC address and port and calls it globally unique; the code keeps a random one in the working directory, so two nodes that are started there share it |

`PeerServes` needs the system to give every client socket of a node a port of its
own (`PortsFresh`): the handshake compares neither the sender nor the request id
of a PONG, so on a reused port a late answer of one seed would count for the next.
A node that is started again must not get a port of its earlier life either.
`AddressesUnique` needs hosts that fit their field (`HostsFit`), as addresses in
text form do: a longer host is cut when it is stored but compared uncut, so that
every `lookup_table_add` of it adds another node.

**Fairness.** Weak fairness of each thread that is inside an operation, that is,
the scheduler runs threads that can run. Mutexes are not assumed to be fair, and
nothing is assumed of callers, of the network, or that nodes are started. In
`UdpServer` the receive loop spins on a non-blocking socket, and `Dequeue` is fair
as a whole because `FifoQueue` is implemented with its fairness. In `Handshake`
weak fairness of `Main` includes `Timeout`: `select` is given one second; that a
response comes is not assumed. That a queued item is taken (`FifoFairSpec`) holds with
an unfair mutex because there are finitely many items and nodes: producers that overtake
a consumer at the mutex run out of them. In
`NodeLife` main and the handlers run on, the handlers because `sleep` returns; kills
and signals need not come.

## 4. Proofs

Each proof holds for all values of the constants that satisfy the named
assumptions of the module.

- **XQueueProofs.** `TypeCorrect`, `ListIntact` (`ListShape`), `HeapIntact`
  (`HeapExact`), `TakeIsSafe` (`TakeFindsNode`), `NoLostWakeup` (`WorkConserving`),
  `ImplementsFifo`. The
  inductive invariant adds who holds the lock at which step (`ControlInv`),
  without which two threads might both be past the test of `head->next`, and that
  no item is in two places (`ItemInv`), which the FIFO mapping needs.
- **PacketProofs.** `ParseWellFormed` for all byte strings, `RoundTrip`
  (`NoMisparse`) and `ParseIsCanonical` (`Canonical`) for all packets, cuts and
  paddings.
- **KvStoreProofs.** `TypeCorrect`, `KeysOnce` (`ChainsSound`), `LengthCorrect`
  (`LengthFits`), `EntriesStay` (`ChainsOnlyGrow`), `ImplementsMap` (`MapSpec`).
  The invariant says that a thread between lock and unlock owns its bucket
  (`LockInv`), so that what the walk of a put found is still so when it links
  (`LinkInv`), and that the entry a get points to is unchanged after its unlock
  (`FoundInv`), because chains only grow. Of `StoreHash`, for all digests,
  bucket counts that are powers of two up to 1024 and every `SIZE` of a `size_t` that is
  a multiple of 65536: `TwoCharsDecide` (`LastTwoDecide`), the index depends on the last
  two characters only. Its invariant relates `result` to the last two characters after
  each iteration; the lemmas are that a wrap changes no remainder (`Wrapped`) and that a
  term multiplied by 65536 is absorbed.
- **UdpServerProofs.** `TypeCorrect`, `HandlerIsReady` (`HandlerReady`),
  `RequestsOwned` (`OneOwner`), `OneAnswer` (`AnsweredOnce`), `AnswersMatch`
  (`RepliesMatch`), `PingIsAnswered` (`PingGetsPong`). The invariant follows the id of
  a datagram, which is in the socket, in one request or sent (`IdInv`), says that a
  request holds what arrived (`CopyInv`) and what a worker is about to send
  (`OutputInv`), and ties what is set up to the place of main (`StartInv`).
  `PingIsAnswered` uses the theorems about packets.
- **HandshakeProofs.** `SocketsAreClosed` (`SocketsClosed`) and, under `PortsFresh`,
  `PeersServe` (`PeerServes`) and `NoCircle` (`PeersAcyclic`), for any number of restarts.
  The invariant traces datagrams: whatever is on its way went through a port that tells
  which seed of which life it concerns, and replies come from lives of nodes that served,
  which serve until they are stopped. There is no cycle because a node has no peer
  until it serves, and is nobody's peer before.
- **LookupTableProofs.** `TableIntact` (`TableSound`) and, under `HostsFit`,
  `AddressOnce` (`AddressesUnique`). The invariant says which steps hold the mutex
  (`ControlInv`), that a loop stands at a node of the list with `prev` at the one before
  and has passed only nodes that do not match (`LoopInv`), so that `remove` relinks what
  points to its node (`RemoveIs`), and that the comparison of `add` still holds when it
  inserts (`InsertInv`). Of `TableImage`, for tables of any number of nodes:
  `ImageReadsInside` (`ReadsInside`), `ImageNothingLeaks` (`NothingLeaks`),
  `ImageComesBack` (`ComesBackReversed`). `BuiltInv` says that the list built so far
  is the part of the table that has been read, backwards, that the offset is the one
  after its last record, and that the heap has one block for each of its nodes and
  one for the table.
- **IdentityProofs.** Of `NodeLife`, if every node has a directory of its own (`OwnDirectory`):
  `IdentityStable` (`StableIdentity`), `FileStays` (`SavedStays`), `IdentityUnique`
  (`UniqueIdentity`, which `node_unique` refutes for a shared directory). `SavedInv`
  says that without failures the file is incomplete as long as an id is generated and
  saved, and after that holds the only id; `FreshInv` that no two nodes have an id of
  `RAND_bytes` in common; `CountInv` that the ids a node has served under or may still
  serve under (`Known`) are one more than the failures at most, and one less while another
  id is expected (`Room`).

  Of `Sha1`, for every message of less than 2^28 bytes and every content of the buffer:
  `DigestIsStandardHolds` (`DigestIsStandard`) and `UpdateIsStreamHolds`
  (`UpdateIsStream`). The argument has three layers. `TransformIs`: the code keeps
  sixteen words of the schedule in place of eighty and computes its functions with
  fewer operations; after n rounds its registers are those of the standard, and its
  block holds the last sixteen words (`SixteensIs`: rounds in groups make no
  difference). `UpdateRepresents`: a context `Represents` the
  bytes it has taken in if its state is that of the standard after their complete
  blocks, its count is their number, and its buffer starts with the rest; a call
  of `SHA1Update` with more bytes leaves a context that represents both together.
  `HashInvariant`: so the context represents the bytes of the message that were fed
  and, in `SHA1Final`, the message with a part of its padding; when the count is 56
  modulo 64, the eight bytes of the length complete exactly `Padded`. What a word is
  worth as a number (`Total`, `Low`, `High`) is used by code and standard alike and
  plays no part.
- **ConfigProofs.** For every file and every size of the line buffer and of a host:
  `SkippedLinesHold` (`SkippedLines`), `ContinuationRepeatsHolds`
  (`ContinuationRepeats`), `LastSettingWinsHolds` (`LastSettingWins`),
  `OverlongKeepsFirstHolds` (`OverlongKeepsFirst`). First come the lemmas about the
  helpers of `ini.c`: what `ini_lskip`, `ini_rstrip` and `ini_find_chars_or_comment`
  return, and that stripping twice is stripping once. The state of the parser is
  compared up to line numbers and errors (`Same`), which no configuration depends on;
  two files are compared by `SameStart`, `SameLineAfter` and `SameEnd`, before, at and
  after the line in which they differ. `SettingsInvariant` is the invariant of the
  parser over the lines: the section is [SERVER] exactly in the lines of `InServer`,
  and the configuration has the last settings so far. That the block of `handler` holds
  all seeds (`RoomForAll`) is shown by an injection from the words that are not the
  first to the blanks before them; that a cut list keeps its first seeds by the words
  of a prefix having the same ranks (`PrefixSeeds`).

Induction over the number of lines, rounds or blocks is done with sets: `Least`, every
non-empty set of naturals has a least element, comes from the library's theorem on
well-founded relations, and `NatInductive` takes the set of numbers for which the
statement holds. For the same reason recursion in these two modules is a recursive
function on the naturals or a part of them, whose equations (`ParserSteps`,
`IterateIs`) are proved first.

Only model-checked: liveness (`FifoFairSpec`'s fairness, `BufferedIsAnswered`,
`LocksReleased`, `MutexReleased`, `StartedServes`, `SignalStops`, `Returns`), which is
outside the reach of the prover's backends, and the values of `atoi`, which no proof
looks into. That `Standard` agrees with the test vectors is evaluated, not proved.

## 5. Not modelled

- `xqueue_destroy`, `kv_store_destroy`, `udp_server_destroy`, `node_destroy`: no
  execution reaches them, since `udp_server_run` does not return and the signal
  handler leaves through `exit`. For the same reason the queue, the server and the
  store are listed as partly modelled.
- Failures after which the code has no defined behaviour: malloc in the server and
  the store, `socket`, `bind`, `pthread_create`.
- The logger, the clock and the converters: no state of the node depends on what they
  write. That threads share the static buffer of `time_now_string` is a hazard of the log
  only. That `packet_to_string` has a block of 512 bytes is more than that: a longer line
  is undefined behaviour in the middle of the handler. Datagrams that lead to one are
  excluded by `LogAssumption`; both are noted in `PROJECT.json`.
- Of the INI parser: `\v` and `\f` as white space, numbers beyond an `int`, names and sections longer than 50 characters, a last line
  without newline, and the entry points that nothing calls (`ini_parse`,
  `ini_parse_string`). Of SHA-1: messages of 2^28 bytes and more.
- The quality of OpenSSL's random numbers.
- Answers to the handshake that are packets with fewer than four bytes of payload, past
  which `memcmp` reads, and a PONG of a program that is no node (`ForeignAssumption`).
- Calls of the lookup table with a NULL argument, which return at once.
- Serialized tables with a count near the top of `size_t`, for which the size
  computation of `lookup_table_deserialize` wraps.
