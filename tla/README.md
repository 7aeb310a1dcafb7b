# Verification of NetworksLab2020HSE

The repository holds three independent programs, each a C++ library with small
command line programs around it:

| directory      | program                                    | concurrency                                   |
|----------------|--------------------------------------------|-----------------------------------------------|
| `udp/`         | a TFTP server and client                   | one thread and `poll` in the server, blocking calls in the client, an unreliable network between them |
| `tcp/`         | a chat server and client                   | one thread and `poll` in each, blocking reads and writes, TCP between them |
| `individual/`  | a caching, compressing HTTP proxy          | one thread that runs the handlers of `boost::asio` |

They share nothing but a copy of CLI11. This directory models all three. TLC
checks the modules on small instances; TLAPS proves, for any number of clients, any
messages and any sizes, what TLC checks of the safety of TFTP, of its packets and files, of the chat,
of the proxy's sessions and cache and of its HTTP messages, and that TFTP and the chat
implement their abstract specifications.

## 1. Inventory

### TFTP (`udp/`)

* **Server** (`lib/Server.cpp`). State: the transfers (`IClient`, in the vector
  `clients`), each with its socket, its block number, its file, and the time of
  its last packet. `Run` repeats a round: `poll`; at most one datagram of each
  transfer, or its timeout; the sweep that destroys those that ended; at most one
  new request (`AcceptClient`). A transfer reads or writes, in octet or netascii
  mode; netascii is read at once and written by the destructor.
* **Client** (`lib/Client.cpp`). `Read` and `Write` are loops of one
  `ReceivePacket` and at most one packet sent. They keep the port of the server's
  transfer and a block number.
* **Packets** (`lib/Packet.cpp`). `ToBytes` and `ParsePacket`, the loops
  `AppendIntegral` and `ReadIntegral` over the bytes of a number, `ToNetASCII` and
  `FromNetASCII`.
* **Transport** (`lib/Transport.cpp`). Sockets, addresses, a random port.

Interaction: datagrams only. Hard: loss, duplication, reordering, damage; several
transfers in one round; a transfer that ends while datagrams for it are on their
way; two transfers for one request; block numbers at their limits; the last block.
Correct is: what is read or stored is a prefix of the data, block by block; what
is acknowledged has been received; duplicates do no harm; what can be served is.

### Chat (`tcp/`)

* **Server** (`lib/Server.cpp`). State: `pollFDs_`, `clientSockets_` and
  `clientWrappers_`, three vectors that belong together, and the history
  `Messages_`. `Run` polls, then walks the descriptors: a new client gets the
  history, a message is read and written to all, a client that closed is removed
  by a swap with the last.
* **Client** (`lib/Client.cpp`, `apps/Client.cpp`). Standard input and the
  connection, each with a buffer.
* **Sockets and messages** (`lib/Socket.cpp`, `lib/Message.cpp`). A message is a
  line with its length and the rest; `ReadN` and `ReadUntil` read through a buffer
  that `poll` knows nothing of.

Hard: blocking calls in an event loop, buffers behind `poll`, vectors that change
while they are walked, clients that go at any time. Correct is: everybody reads one
conversation, complete and in order; the vectors stay aligned; who left is
forgotten.

### HTTP proxy (`individual/`)

* **Server** (`lib/Server.cpp`). The acceptor, the signals, the list of sessions.
* **Session** (`lib/Session.cpp`). Reads a request, answers it from the cache or
  connects to the origin, writes, reads, compresses, caches, writes. Each operation
  ends in a handler that captures the session by address.
* **Cache** (`lib/Database.cpp`). Responses by URL, each with a time to expire.
* **HTTP** (`lib/HTTP.cpp`). Headers, kept as a list and as a map; parsers that
  consume what has arrived so far.
* **Compression** (`lib/Compress.cpp`). Whether to use gzip, and what changes.

Interaction: handlers queued in the `io_context`, shared list and cache. Hard:
handlers that run after a session has gone, errors in the middle, signals, several
sessions and one cache entry, lengths that change. Correct is: one operation of a
session at a time and none when it is gone; what is cached may be and is fresh; what
is sent is framed right and is what was received.

## 2. Modules

| module | models | with |
|---|---|---|
| `TftpPacket` | packets, and what is left of a block number on the wire (`WireId`) | `Packet.h`, `Packet.cpp` |
| `Tftp` | server, clients and network: the core | `Server.cpp`, `Client.cpp`, `Transport.cpp` |
| `TftpInvariants` | the inductive invariants `TypeInv`, `ReadInv`, `ReadSync`, `WriteInv`, `RoundInv` | |
| `TftpProofs` | the theorems about `Tftp`: types, the server's rounds, its files byte by byte, `Read` and `Write` to the refinements | |
| `FileTransfer` | abstract: one stream, what has arrived of it, what the sender knows of, how the call ended | |
| `TftpTransfers` | the refinement: every `Read` and every `Write` of `Tftp` is a `FileTransfer` | |
| `TftpPorts` | extends `Tftp`: the numbers of the ports under the transfers, and who shares one | `Transport.cpp` |
| `TftpText` | bytes, `ToNetASCII` and `FromNetASCII` | `Packet.cpp` |
| `TftpBytes` | numbers, `ToBytes` and `ParsePacket`, byte by byte | `Packet.cpp` |
| `TftpCodec` | packets written, received into a buffer and parsed; netascii files block by block | `Packet.cpp`, `Transport.cpp`, `Server.cpp` |
| `TftpCodecProofs` | the theorems about numbers, packets and netascii files | |
| `ChatLog` | abstract: one log, and what each member has read of it | |
| `PromiseProofs` | what `FileTransfer` means for who calls and `ChatLog` for the members, proved | |
| `Chat` | server, clients and connections; implements `ChatLog` | `tcp/lib`, `tcp/apps/Client.cpp` |
| `ChatInvariants`, `ChatProofs` | the invariants `VectorInv`, `ConversationInv`, `SpeechInv`; the theorems | |
| `ProxyCache` | what is kept and for how long | `Database.cpp` |
| `Proxy` | server, sessions, the `io_context`; extends `ProxyCache` | `Server.cpp`, `Session.cpp` |
| `ProxyInvariants`, `ProxyProofs` | the invariants of sessions, exceptions and cache; the theorems | |
| `HttpHeaders`, `HttpMessage` | headers; parsing, compressing and passing on one message | `HTTP.cpp`, `Compress.cpp`, `Session.cpp` |
| `HttpMessageProofs` | lemmas: headers with their two views, delimiters, lines, numerals, and what is left of a message to read | |
| `HttpPassedProofs` | the theorems about what is passed on | |
| `SequenceFacts` | lemmas: induction over numbers and sequences, and what `FlattenSeq` of the community modules computes | |
| `MCTftp`, `MCTftpPorts`, `MCTftpCodec`, `MCChat`, `MCProxy`, `MCHttpMessage` | values of the constants for TLC | |

Every definition whose comment says "mutant" is a plausible mistake in the code;
no specification uses it. Each checked property is violated when one of them takes
the place of the definition it belongs to.

### Tftp and the code

`xfer` is every `IClient` ever made; the index is its port, so that a port is
never used twice. `srv` holds the locals of a round: `ready` are the datagrams of
the sockets that `poll` flagged, taken one per socket; `todo` the transfers the loop
has still to visit, in the order of the vector; `dead` those to be swept. `late` is
`SinceLast(now) > Timeout_`. `cl[c]` holds the locals of `Read` or `Write`. Actions:

* `Poll`, `ServeReady` (one visit: `Handle`, with all four kinds of transfers in
  `HandlePacket`, its answer and its write to the file), `ServeExpired`, `Sweep`
  (destructors), `EndRound`, `RejectRequest`, `AcceptClient`, `GrowLate` (time);
* `Start`, then one action per way a `ReceivePacket` can go: `ClientGarbled`,
  `ReadStranger`, `ReadRefused`, `ReadDuplicate`, `ReadBlock`, `WriteRefused`,
  `WriteAccepted`, `WriteDuplicate`, `WriteNext`, and `ClientTimeout`;
* the network: `Lose`, `Duplicate`, `Garble`, and `Discard` for closed sockets.

Data on the network is a `Chunk`: which stream, which block of it, how long. A stream is a
number of full blocks and a rest. Files are bytes (`stored`), for what a file holds depends on
the lengths of what is written over what: `Bytes` are those of a chunk, `Overwrite` is `Out_.write`, which
leaves what lies behind the bytes it writes and fills a gap before them with zeros, and
`WrittenAtEnd` is the destructor of the netascii writer, which decodes all that it was given as
one text and writes that. `poll` has no timeout in the server, so a transfer is found
late only when something else arrives, and the model can come to rest with
transfers open: the runs switch the deadlock check off for that.

The netascii clients of the model are clients of another make: this one has no such
mode. That netascii data survives, whatever the block boundaries, is `TftpCodec`'s.

`TftpPacket` says in one line each what the wire does to a packet (`Wire`, `WireId`);
`TftpCodec` shows that this is what the byte loops of `Packet.cpp` compute
(`ArrivesAsWired`, proved for all packets), so that `Tftp` need not carry bytes. The operators
`&`, `|`, `<<` and `>>` of C++ are functions of the bits in `TftpBytes`, by recursion on their number.

In `Tftp` a port is never used twice. `TftpPorts` puts numbers under them: `Open`
draws one that `bind` accepts, which may be another transfer's, and `Steer` is the
kernel's choice among the sockets bound to one number.

**Refinement.** `FileTransfer` has `got`, the blocks that have arrived, `known`, how many of
them the sender knows of, and `status`. For a `Read` of client `c`, `got` is what the client
has written to its stream (`cl[c].out`), `known` the number of blocks whose ACK the
server's transfer has seen (its block number less one), `status` whether the call has
returned or thrown. For a `Write`, `got` is what the transfer has been given to append,
`known` the number of ACKs the client has counted. Which transfer that is changes when
the client takes the port of the first answer; until then nothing is known. So a step
of `Tftp` is a `Deliver`, a `Learn` or a `Fail` of the transfer, or nothing: `ReadsTransfer`
and `WritesTransfer`.

### Chat and the code

A message crosses a connection in two pieces, the line with its length and the
rest, which is what `ReadMessage` tells apart. `up` and `down` are what the kernel
holds, `UpCap` and `DownCap` pieces; the buffers of the wrappers and of the client are
`buf`. `srv.pc` says where `Run` is: in `poll`, in its loop, blocked in `ReadMessage`
(`read`) or in `Write` (`write`), lost in `ReadN` (`spins`), or ended by an exception
or SIGPIPE (`dead`). The three vectors are `fds`, `socks` and `wraps`; `Bye` is the swap
and pop of all three.

**Refinement.** The `log` of `ChatLog` is the server's history with the message that is being
broadcast (`Said`), and `heard[c]` is what client `c` has printed. `SaidAndHeard` is
`ChatLog`'s specification: a message enters the log when its broadcast begins, with its
author's next line, and is never taken back; a client prints the line after those it
has printed. Everything else of `Chat` (pieces, buffers, vectors, who comes and goes)
is a stuttering step of the log.

### Proxy and the code

`pend[c]` is the operation a session waits for, `ready` the queue of handlers with
their error codes. The environment completes operations; `Run` takes the first
handler. `OnSignal` closes everything, and what was under way is queued as aborted, in
the order of the list; as it erases the element that its loop is at, what follows is undefined
behaviour: the model has both what was meant and an end of the program (`undefined`). A handler of an erased session is `OnFreed`, with the
same two outcomes. `resolve`, `connect` and `shutdown` throw, and nothing catches that
(`threw`).

In `ProxyCache` a Cache-Control header is a sequence of directives. A `max-age` that is
not followed by `=` makes `substr` throw; one with nothing after the `=` leaves the
result of `from_chars` as it was, uninitialised, and `CacheDuration` may return
any of `Uninitialised`. The last `max-age` counts (`LastAge`), also for `RightReply`.

`HttpMessage` takes one message through the parser's states, one symbol of input
after the other, and through what the session does to it: removing headers,
lengths, compression. Texts are sequences of symbols: a space, a colon, CR and LF are
symbols, and so is a word or a number. First lines and headers are split, parsed and
written again as the code does it, so that a colon without a space, two spaces,
a reason of two words or of none come out as they do in the proxy.

## 3. Runs

| run | question | instance |
|---|---|---|
| `TftpRead` | `ReadsTransfer`: every `Read` is a `FileTransfer`. `ReadPrefix`: what `Read` hands over is the file, in order, each block once, whole when it returns. `StopAndWait`: the server is at most one block ahead. `ReadInv`: the invariant of the proof. `Served`: unless something is lost or damaged, what can be served is, in spite of a duplicate | a reader of two blocks and the empty one that ends them, a writer of one block; losses, one duplicate, one damaged datagram, no timeout while an answer is on its way |
| `TftpWrite` | `WritesTransfer`: every `Write` is a `FileTransfer`. `WritePrefix`, `AckedMeansReceived`: a transfer gets a prefix of its client's data; what `Write` counts as sent was received. `StoredAsGiven`: a file of one transfer holds the bytes it was given, decoded if they are netascii. `StoredInPlace`: in a file of several, a byte is what one of them put there, or a zero in a hole. `RoundEndsTheLate`: a round that is over has left no transfer open that was late. `EndedIsFinal`: nothing is handled after the end. `TypeOK` | two writers of one file, octet (a block of three and a byte) and netascii (five bytes, with a CR LF that the end of the first block cuts); one duplicate, timeouts at any time |
| `TftpLong` | violation: a file of sixteen blocks arrives (`ServedWhole`) | a reader of sixteen blocks and a writer, no fault, answers in time |
| `TftpPorts` | violation: two transfers have the same port, and one is handed what is sent to the other | two writers, two free numbers and a taken one |
| `TftpCodec` | `ArrivesAsWired`: what bytes, buffer and parser do to this program's packets is what `Tftp` assumes. `ForeignNumberArrives`, `ShortOrRefused`: which packets of others are read right, and what becomes of one that is cut short. `TextSurvives`, `PartialText`, `EndIsTold`: netascii block by block | numbers with 7 high bytes and all low bytes; names, messages and texts up to 4 characters of {plain, CR, LF, NUL or a negative char}; blocks of 3, a buffer of 8 |
| `ChatTalk` | `SaidAndHeard`: the chat is a `ChatLog`; a line is said once, in the order its author typed them. `Aligned`, `SameConversation`, `TypeOK`. `Shown`: what is typed is shown to all who stay, with three exceptions. `Forgotten`: who left is forgotten | two clients, two lines (perhaps pasted) and one; the first may quit, the other may be killed; three pieces to the server, one to a client, three in one read |
| `ChatCached` | violation: a second message of one read stays in the buffer | one client, two lines |
| `ProxyCached` | `OneOperation`, `RightReply`, `TypeOK`. `ThrowsForPeers`: nothing but what a peer does makes the proxy throw | two clients, one URL, four Cache-Control headers (one forbids what its max-age allows, two have a max-age without a number), messages in two parts, two seconds; the peers of one client may fail |
| `ProxySignal` | `NoneAfterClose`, `SignalEnds`, `SessionsEnd` | a signal at any time, two parts |
| `ProxyStop` | violation: handlers run on a session that was stopped and destroyed | a signal at any time |
| `HttpPassed` | `TwoViews`, `Framed`, `BodyArrives`, `ChunksInOrder`, `NoOtherBody`, `LinesArrive`, `PassedOn` | all bodies up to 2 symbols of {plain, CR, LF}; up to two chunks; status lines with two words for a reason, with none, and without its space; no space after a header's colon, one, or two; headers for hosts, encodings, repeated ones |
| `HttpChunks` | violation: the body of a response in chunks arrives as it was sent (`ChunksArrive`) | as in `HttpPassed` |

**Bounds.** TFTP: the transfers of one client only meet when a request is
duplicated, and two clients only meet in the server's round and in the file they
share, so that two clients and one duplicate show each pair. A damaged datagram can
be any one; `TftpRead` has one for a reader or an octet writer, `TftpWrite` has none. `TftpWrite` has no
`Lose`: for safety a datagram that is lost is one that never gets its turn, which every
run allows. In `TftpRead` three blocks are what a second answer to a duplicate ACK
takes to get the server two blocks ahead; that the number of blocks does not matter otherwise is proved. Sixteen blocks
are where the numbering breaks (`TftpLong`). In `TftpWrite` blocks have three bytes and the
writers four and five, so that each file has bytes of a full block and of a shorter one, a shorter chunk
is written over a longer one, and a duplicated WRQ opens a third transfer that empties the file while
another goes on behind the hole. In `TftpCodec` a
buffer of 8 is one that a packet of a few characters overruns, and the texts have
every pair of special characters before, across and after the end of a block.
Chat: a connection to the server that holds a message and a half, and reads of as much, cut
messages everywhere and put two into one read (`Kept`); one to a client that holds
half of one makes the server and a client block on each other (`MutualWait`). `Shown` holds with both exceptions and is
violated when either is left out, `Forgotten` when `MutualWait` is. Two clients, of whom
one is moved by the swap to the place the loop has passed, are what that takes; one who
stays is then author and reader, and three or more who come and go
are the theorems' `VectorsAreAligned`, `OneConversation` and `ChatIsLog`, for any number.
Proxy: two sessions for one URL share all there is to share, the list and the cache, so
that it is enough that one of them fails while the other goes on;
two parts make every read loop go round; two seconds reach both sides of an age of one;
an int that is not assigned is one that forbids to keep the response or one that lets it
be kept for longer than the longest age.

**Fairness.** The processes run when they can: in Tftp and Chat `WF` on the next steps of the server and the clients
together, which is enough as none of them goes on for ever without the others and which assumes
nothing of who is first; in Proxy and HttpMessage as said below. Each process is a loop over system calls that return when they
can. Nobody has to quit, to be killed, or to send a signal, and no fault is
fair. In Tftp a closed socket swallows what is sent to it (`Discard`). A datagram may
be delayed, but with `Timely` (`TftpRead`, for `Served`, and `TftpLong`) no timeout happens while
something that concerns the client is on its way; without that assumption the code can
serve nobody, for it never sends anything again. In Proxy the handlers and the completions are fair,
and so are the clients and origins: the code has no timeout, so that a silent peer
keeps its session for ever. In HttpMessage what has arrived is consumed.

**Deadlock** is not checked anywhere: clients do their work once, and then the
system rests in `poll`, has returned from `run`, or has passed its message on.

## 4. Proofs

Each theorem holds for any number of clients and any sizes; section 3's instances are
where TLC finds out what is worth proving. A property is seldom inductive by itself:
the modules `*Invariants` hold what it needs. TLC checks `ReadInv` in `TftpRead`; the
other auxiliary invariants are in no configuration, for the theorems cover them.

### TFTP

All in `TftpProofs`.

**Types.** `TypeCorrect`: `Spec => []TypeOK`. The loop of `Write` sends to
`transferID`, which has to be a port: `TypeInv` adds `WritersBound`. Most lemmas say what
type an operator returns; then there is one per action.

**Rounds and files.** `RoundInv` says what the locals of a round are:
what is to be visited is open, what is to be swept has ended, and whoever was late when
`poll` returned is still to be visited. From it:

* `LateEnds` (`RoundEndsTheLate`) and `EndsForGood` (`EndedIsFinal`, an action property);
* `BlocksInPlace` (`StoredInPlace`) and `FilesAsGiven` (`StoredAsGiven`), from `FileInv`.

`FileInv` says of each file: it is as long as what an octet transfer has put into it, unless another
one has emptied it since; a byte at a place is what one of its transfers put there, or a zero in such
a hole; and with one transfer, the file is what that has put there. `Put` only ever
grows at its end: an octet transfer's by the bytes of the block it is given, which `Overwrite` puts behind
the sum of the lengths of those before (`Given`, a `FlattenSeq`); a netascii transfer's from nothing to the
decoded text when its destructor runs, once, after which it is given nothing more (`RoundInv`).
A transfer that is opened, or whose destructor opens the file, empties it, and is from then on one
that the others are emptied by. So no step takes away what a byte, or a zero, stands there for.

**Reading.** `ReadIsPrefix`: `Spec => []ReadPrefix`. The block
number is damaged on the wire and the client compares a 64-bit counter with it; why
is a block with the right number the right block? Because

1. `WireId(k) <= k`: the wire only ever takes bits away;
2. the server has sent no block beyond the one its client expects
   (`ReadTransfers`: `pos <= block`, or 1 for a transfer the client is not bound to);
3. so a block `k` on its way has `k <= block`, and if its number `WireId(k)` equals
   `block` then `k = block`. As `WireId` is never 16, the client never gets past 16.

The second needs that an ACK on its way is of a block accepted before and goes to the
port the client is bound to (`FromReaders`), that ports belong to one client
(`OwnPorts`), that blocks on their way are blocks sent (`DataInFlight`), that the locals of
`Read` say how far it is (`ReaderLocals`), and that a round visits open transfers only
(`RoundLocals`). `ReadInv` is their conjunction (`ReadInvHolds`); it is inductive together with
`TypeInv`. The refinement `ReadIsTransfer` (`Spec => ReadsTransfer`) has to know where a transfer
is to the block: `ReadSync` adds that every block before the last was full, and that
the transfer has sent the block before the one its client expects, or that one too.
A step of a client then is a `Deliver`, or a `Fail`, or nothing; one of the server is a `Learn` or
nothing.

**Writing.** `WriteInv`: every block on its way is one the client has sent,
with the number the wire leaves of it (`FromWriters`); the transfer the client is bound to
has been given all of them but perhaps the last, every other one none (`WriteTransfers`); an
ACK on its way is of a block its transfer has (`AcksInFlight`). It is inductive with
`TypeInv`, `ReadInv` (whose `OwnPorts` keeps the clients apart) and `RoundInv`. From it follow
`WriteIsPrefix` (`WritePrefix`), `AckedIsReceived` (`AckedMeansReceived`), although `Write` takes an ACK
from any port, and `WriteIsTransfer` (`Spec => WritesTransfer`); with `ReadSync` also
`OneBlockAhead` (`StopAndWait`). `SixteenIsTheEnd` says that no call for sixteen blocks or more returns
(`LongNeverEnds` of `TftpInvariants`): what `TftpLong` shows of one file is so for every longer one.

`TransferKept` (`PromiseProofs`): `Spec => []TransferInv` of `FileTransfer`, for every
stream and block size: what has arrived is the stream's blocks in order, no block but
the last is short, the sender knows of all or of all but one, and the whole has arrived
if the call has returned. With the two refinements this is what `Read` and `Write` promise.

Assumptions: the sizes are numbers and `BlockSize > 0`, the switches are Booleans, the
maps have their domains, a text has a first byte (it is repeated as far as its stream goes), and a file that is read is not written at the same time
(`DisjointAssumption`). TLC evaluates them in every run of `MCTftp`.

### Chat

`ChatProofs`, in three invariants, each inductive with those before it:

1. `VectorInv`: the three vectors are parallel; a client that is connected is in them or in
   the backlog, once; the loop reads where there is a client. `Bye`, the swap and pop, keeps it
   because it does the same at one place of all three. From it `ChatTypes` (`TypeOK`) and
   `VectorsAreAligned` (`Aligned`).
2. `ConversationInv`: count the pieces of the conversation, two for a message. What a client
   has shown, has in its buffer and has on its way are the first pieces, in order
   (`Ordered`); what the server has still to write to it is one stretch of `srv.writes`, and holds the
   last pieces, up to the message that is being broadcast (`ToBeSent`). A broadcast adds two
   pieces to both ends; `AcceptClient` starts with all of the history. From it
   `OneConversation` (`SameConversation`).
3. `SpeechInv`: the pieces in the server's buffer for a client and on their way from it
   are those that follow what the server has taken from it so far (`Spoken`). So when the
   rest of a message is taken it is the author's next line, and says who the author is.

`ChatIsLog` is the refinement `Spec => SaidAndHeard`: `TakeRest` is a `Say` by 3, `ClientTake` of the
second piece is a `Hear` by 2, and every other step leaves the log as it is.

`LogKept` (`PromiseProofs`): `Spec => []LogInv` of `ChatLog`, for any members: what each has
read is a beginning of the one log, hence no two of them disagree. By `ChatIsLog` this is
what the chat promises. `LogInv` and `TransferInv` are inductive as they stand.

Assumptions: the capacities and `MaxRead` are positive, the numbers of lines are numbers, the sets of those
who leave are sets of clients, and the listening socket is none of them.

### Proxy

`ProxyProofs`. `SessionInv` says, until the signal, that a session is in the list once, that it is there
if and only if it has an operation that waits or a handler that is queued (`Busy`), never both,
and that a client that has just been accepted is in neither. The other parts are: nothing
is left after the signal (`Closed`), what an origin has heard and sent (`OriginIdle`,
`NoControlYet`), and the entries of the cache (`CacheInv`). From them `ProxyTypes` (`TypeOK`),
`OneAtATime` (`OneOperation`), `SignalIsLast` (`NoneAfterClose`), `PeersThrow` (`ThrowsForPeers`),
`CacheIsRight` (`CacheInv`) and `RepliesAreRight` (`RightReply`). That a handler never runs on an erased
session (`StopIsFinal`) does not follow, and is false: after the signal the handlers
queued before are still there, which is the run `ProxyStop`.

Assumptions: the maps have their domains, `Parts > 0`, and the ages are numbers.

### Texts, by induction

`ToNetASCII`, `FromNetASCII`, the lines and chunks of a message and the headers that are
written again are all made by `FlattenSeq`. `SequenceFacts` says what that computes for
sequences of any length. The induction theorems of the library have an operator for a
parameter, which the provers here cannot instantiate; `SetInduction` and `SeqInduction`
have a set instead, of the numbers or sequences that have the property: one that has the
first and with each the next has all. `FlattenSeq` is the last value of a recursive function,
which exists by the same induction (`UnfoldingExists`); from there on its lemmas are those of a
concatenation: of one more (`FlattenAppend`), of two parts (`FlattenConcat`), from an element on and
up to one (`FlattenFrom`, `FlattenUpTo`).

**Netascii** (`TftpCodecProofs`). `FromNetASCII` is not homomorphic: a CR at the end of a block
and the character that follows it in the next one make a pair. That is why the receiver keeps
all blocks and decodes at the end, and why the beginning of an encoding may decode to
a CR in place of an LF. `Survives`, by induction over texts, says of each text what its
encoding decodes to, and what each beginning of that does. `FileInv`, which is inductive as it stands:
what has been received is what has been read of the encoding so far, the position is a number of whole
blocks until the end, and `told` says whether it is. From it `TextSurvivesAlways`,
`PartialTextAlways` and `EndIsToldAlways`.

**Numbers and packets** (`TftpCodecProofs`). A recursive function has the values its equation says only
if there is such a function: `Recursion` and `ByHalvesExists` build them, for `Power` and for
the bitwise operators. From their equations it follows, by induction over the number of bits, that `& 0xf` is the
remainder by 16 (`MaskIs`), and that an `|` with a byte adds it to a number that has eight zeros
at its end, or sets all bits above it when the byte is negative (`OrIs`). `NumberIs` and `ReadTwo`
then say what `AppendIntegral` writes and `ReadIntegral` reads, `NumberReads` what comes out of both.

A packet may be cut anywhere: by a maker that stops, and by the buffer. So every lemma about
`ParsePacket` is about the first k bytes: `ParseCut` for the opcode, then `RequestParsed`, `DataParsed`, `AckParsed` and
`ErrorParsed`. Texts are read up to the first zero (`AroundZero`). The encoding of a text has a zero
exactly if the text has one or a CR (`ZerosOfEncoding`), because CR is encoded as CR NUL: that is why a name
with a CR makes a request unreadable, and the whole of the condition in `ArrivesAsWired`. A cut message is never
decoded to the message itself (`ProperBeginning`); a default message is one element and cannot be cut.
`PacketInv`, inductive as it stands, says that what is under way are the first bytes of a packet of its maker, all of
them if it is this program's, and that the result is what `ParsePacket` makes of those in the buffer. With
it `ArrivesAsWiredAlways`, `ForeignNumberAlways`, `ShortOrRefusedAlways` and, with `FileInv`, `CodecTypes`.

Assumptions on the packets: this program's requests have names without NUL, its data any bytes, its errors
one of eight codes and a message without NUL and CR; others may send any number as an error code, any
bytes in a message, modes that are unknown, and a packet that is unknown. The buffer holds a block and its header.

**HTTP** (`HttpMessageProofs`, `HttpPassedProofs`). The six invariants of `HttpMessage` are about what
is passed on, after the parser has forgotten what it parsed. What makes them inductive is `Reading`: in
each state of the parser, what it has consumed of the current part and what it has still to
consume are together the message on the wire from that part on (`AtLine`, `AtHeaders`, `AtData`,
`AtLength`, `AtChunk`), and what it holds of the parts before is what they are parsed to. Lines and
words are read up to the first occurrence of a delimiter, so that every step needs that none
occurs before, be it across the border of line and delimiter. There is one lemma for each
state (`LineRead`, `HeadersStep`, `DataStep`, `LengthStep`, `ChunkStep`); at the end first line,
headers and body are those of the message, the body only if its length is understood (`AtEnd`).

`PassedInv` adds `Outcome`: what has been passed on is the first line, one of three lists of headers
(as they came, with a length and without chunks, or compressed), both views of which agree, and the
body or what it is compressed to. From it `FramedAlways`, `BodyArrivesAlways`, `ChunksInOrderAlways`,
`NoOtherBodyAlways` and `LinesArriveAlways`; the last also says what `ParseHeader` and
`SerializeHeader` make of a line, with a space after its colon and without. `TwoViewsAlways` needs no
position: the list and the map agree (`Agree`) after `Headers`, and `AppendHeader`, `Update` and
`RemoveKey` keep that.

Assumptions: the texts are bytes; first lines and headers have no CR or LF, and headers are not empty; a body has at
most nine symbols, since a length is one numeral, and does not begin with the symbol that
marks a compressed one; other headers do not tell of the body's length. TLC evaluates them in
`TftpCodec` and `HttpPassed`.

### Only model-checked

All liveness (`Served`, `Shown`, `Forgotten`, `SessionsEnd`, `SignalEnds`, `PassedOn`): it rests on
fairness and ENABLED, which are out of TLAPS's reach here. Every invariant and every action property
that a passing run checks, and every refinement, is stated by a theorem. The ports of
`TftpPorts` have none: their property is false.

## 5. Where code and documents disagree

Shown by runs that expect a violation:

* `TftpPorts`: `udp/lib/Transport.h:67` says that `Open` chooses a random free-to-use port;
  `InitSocket` passes `SO_REUSEADDR | SO_REUSEPORT` for one option
  (`udp/lib/Transport.cpp:227`), which is the number of `SO_REUSEPORT`, so that `bind`
  succeeds on the port of another transfer and the kernel hands datagrams to either.
* `ChatCached`: `tcp/README.md:43` says that messages are sent on as they arrive;
  `AcceptMessage` reads one message, and others of the same `read` stay in the wrapper's
  buffer, which `poll` does not see, until the client says something more.
* `TftpLong`: `udp/README.md:3` names RFC 1350, whose block numbers have sixteen bits. `& 0xf`
  (`udp/lib/Packet.cpp:50`) leaves four bits of each byte, so that block 16 arrives as block 0
  and is taken for a duplicate: no file of sixteen blocks or more is transferred. The tests have no number above 1.
* `HttpChunks`: `individual/README.md:21` says that chunked encoding is supported. The CR LF that ends
  a chunk on the wire is read as a part of it (`individual/lib/HTTP.cpp:598`), so that the body
  that is passed on is not the one that was sent.
* `ProxyStop`: `individual/lib/Session.h:33` says that `Stop` stops all operations; handlers
  that are queued already, and the one of `WriteClient`, run on the destroyed session.

Stated by properties that hold:

* A number of another program is misread if its low byte is 0x80 or more
  (`udp/lib/Packet.cpp:305`): `ForeignNumberArrives`.
* A file name or a message with a CR does not survive (`udp/lib/Packet.cpp:91`):
  `ArrivesAsWired`.
* A netascii file whose encoding is a whole number of blocks ends without a short block
  (`udp/lib/Server.cpp:187`), and the client waits for one: `EndIsTold`. `Served` excludes it.
* A chat client and the server that write to one another over full connections wait for
  good (`tcp/lib/Server.cpp:168`): the exception `MutualWait` of `Shown` and `Forgotten`.
* A `Write` may return while the file has zeros where its data was: a duplicated WRQ opens the file
  again and empties it, and the first transfer goes on behind the hole
  (`udp/lib/Server.cpp:282`): `StoredInPlace`.
* A header without a space after its colon gets a colon and a space at its end, and if
  it is a Content-Length, the body is neither read nor passed on: `LinesArrive`, `NoOtherBody`.
* A status line without the space before its reason takes the header after it for the
  reason: `WholeLine`, without which `LinesArrive` and `PassedOn` claim nothing.
* A Cache-Control header with a max-age without a number makes the proxy throw, or keep
  the response for a time that nobody has set (`individual/lib/Database.cpp:57`):
  `ThrowsForPeers`, `RightReply`.

Met in the models, and left out of what the properties claim:

* `ReadN` never returns when the connection ends within a message
  (`tcp/lib/Socket.cpp:55`): `Spin` in Chat, an exception of `Shown` and `Forgotten`, as is a server that
  a failed read or SIGPIPE has ended (`tcp/lib/Socket.cpp:106`, `:95`).

## 6. Not modelled

* CLI11, options, logging, prompts, the wording of messages and errors.
* TFTP: name resolution, IPv6, `sendto` and other system calls that fail, an input stream
  that fails half-way in `Write`. `TftpPorts` has writers only: a client that reads compares
  the port of an answer with the one it knows, and that comparison is by place in `Tftp`.
* Block numbers past 65535: no transfer gets there (`SixteenIsTheEnd`).
* Chat: time stamps and `Show`; bytes within the pieces of a message; lengths that are no
  numbers, which this client never sends; a client that connects again.
* Proxy: `SplitURL`, methods (a HEAD is answered from the cache like a GET), header names
  in other cases, which the code compares as they are; negative lengths, which it throws
  at, and sizes of chunks that are no numbers; responses that end with their connection,
  of which it reads no body; the bytes of gzip.

## 7. Plan

Done: the modules above, in this order: Tftp with its invariants and proofs, the
codecs, Chat, Proxy with its cache, HTTP; then the two abstract specifications with
their refinements and theorems, the ports, packets at the level of bytes, headers at
the level of symbols, and malformed Cache-Control headers; then the proofs of section 4:
every safety property of Tftp, TftpCodec, Chat, Proxy and HttpMessage that a passing run
checks, and the refinements `ReadsTransfer`, `WritesTransfer` and `SaidAndHeard`.

Next:

1. What the properties of `FileTransfer` and `ChatLog` mean for `Tftp` and `Chat`, stated
   through the refinements.
2. The buffers of the chat's sockets at the level of bytes.
