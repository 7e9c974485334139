# PSCProxy: a verification of the card-sharing proxy

PSCProxy lends one smart card to set-top boxes elsewhere.  Beside each box runs
the *client* program (`src/client`): a card emulator plugged into the box hands
it resets and commands.  Beside the card runs the *server* program
(`src/server`): it takes clients in over TCP, checks their user and password,
puts their commands to the card reader and sends the answers back.  This
directory holds TLA+ modules of both programs and of the connections between
them, the configurations that check them with TLC, and proofs that TLAPS checks.

Paths below are relative to the repository, so the sources are `src/src/...`.

## The system

| component | state | operations | talks to |
|---|---|---|---|
| `PSCProxyProtocol`, `PacketData` (`lib/network`) | a buffer and its size | `prepare*`, `parse*`, `checkPacketSanity`, `read` | both programs, `Socket` |
| `Socket`, `ClientSocket`, `ServerSocket` | a descriptor; in the kernel: bytes each way, the accept queue | `connect`, `accept`, `select`, blocking `read`, `write` | the kernel, the peer |
| `PSCProxyClient` (`client`) | `state`, the packet at hand, the emulator's data | `authorize`, `checkAuthReply`, `requestATR`, `cacheATR`, `handleEmulatorRequests`, `exit` | emulator (calls), server (packets) |
| `PSCProxyServer` (`server`) | the vector `clients` of `Client` pointers, each with its `state` | `handleNewClients`, `tickClients` (`checkAuth`, `handleClientRequests`), `closeInactiveClients` | clients (packets), card reader (calls) |
| `CardReader`, `DummyCardReader`, `Phoenix` (`lib/cardreader`) | the ATR, the answer to be read; for `Phoenix` what is in the serial port and still in the card | `write`, `read`, `reset` | the server, the card |
| `CardEmulator`, `DummyCardEmulator`, `Season` (`lib/cardemulator`) | a reset flag, data from the box, what is in the serial port | `tick`, `resetRequested`, `readDataAvail`, `read`, `write` | the client, the box |
| `CardEmulatorConfig` | four settings, the stream of the file | the constructor (`parseLine`, `handleKeyValue`), `createNewEmulator` | the client's `main` |
| `CardReaderConfig` | nothing: the name of the port is fixed | a getter | `Phoenix` |
| `test_serial` | none | prints serial lines | nothing |

Each program is one thread that runs a loop of `tick` and a short sleep.  What
makes the system hard is between the programs and in what a tick leaves behind:

- **Interleaving.** Every client has a state machine of its own, the server one
  more for each of them, and both advance by packets that are under way.  The
  server serves all clients with one reader in one loop.
- **Blocking.** The client blocks in `read` for its reply.  The ten seconds of
  `Socket::read` are looked at only between two pieces of data, so a silent
  peer blocks it for good.
- **Failure.** A connection breaks with a request or a reply on it; a packet is
  cut in two; `write` throws and nobody catches; a signal ends a program or
  interrupts a `select`, which `newDataInSocket` takes for data.
- **Silence.** On both serial lines the end of a message is 350 ms without a byte:
  a command may be cut, an answer may be late and come with the next one, and what
  is written to the box comes back as if the box had said it.
- **Bytes.** `Socket::write` starts the buffer again after a partial `::write`; the
  size of a packet has 16 bits; a packet that was cut makes the reader take any
  three bytes for a header.
- **Memory.** `closeInactiveClients` erases from the vector it iterates, deletes
  the wrong `Client`, and reads slots beyond the end of the vector.

What makes each component correct:

- the packets: a parser accepts only a whole packet of its own type, and takes out
  of it what was put in;
- the stream: packets come out as they were put in, in whatever pieces;
- the connection: at most one packet of a client under way, request then reply;
- the client: it passes authorization only with the server's word, and gives the
  box the answer to the command that the box is waiting on;
- the server: a command reaches the card only from an authorized client and only
  once; every open session is ticked once a turn; a session whose client left is
  closed;
- a card reader: a read gives the card's answer to the command that was written
  before it, no other card's words, and always ends;
- a card emulator: a reset is taken once, a command is what the box sent, in order,
  not what it gave up before nor what it was told;
- the configuration: the emulator is the one that the file asks for, or the client
  does not start;
- together: the promise of `RemoteCard` below.

## The modules

| module | what it is |
|---|---|
| `Packets` | the packets, the `parse*` functions, what `PSCProxyProtocol::read` may leave |
| `Connection` | EXTENDS `Packets`: the TCP connections and the accept queue |
| `ProxyClient` | EXTENDS `Connection`: `PSCProxyClient`, one action per operation |
| `ProxyServer` | EXTENDS `Connection`: `PSCProxyServer`, one action per operation |
| `PSCProxy` | EXTENDS both: the whole system, its fairness and its properties |
| `RemoteCard` | the abstract specification: boxes that ask, a card that carries out, answers that are given |
| `PSCProxyRemoteCard` | the refinement mapping from `PSCProxy` to `RemoteCard` |
| `PSCProxyInvariant` | the inductive invariant `IInv`, in named parts |
| `MCPSCProxy` | the module that TLC is run on |
| `PSCProxyProofs` | EXTENDS `ProxyServerProofs`; proofs: the types; the steps of the clients and the server keep `IInv`; the safety theorems; `PSCProxy` implements `RemoteCard` |
| `ProxyPeers` | EXTENDS `ProxyServer`: the server alone among peers that write anything |
| `ProxyServerProofs` | proofs: what the server keeps true by itself; the safety of `ProxyPeers` |
| `MCProxyPeers` | the module that TLC is run on for that |
| `PSCProxyProtocol` | the bytes of a packet: `prepare*`, `parse*`, `setSize`, `getSize`, held against `Packets` |
| `PSCProxyProtocolProofs` | proofs: the bytes are judged as `Packets` judges the packet |
| `PacketStream` | EXTENDS `Packets`: `Socket::write`, `Socket::read` and `PSCProxyProtocol::read`, byte by byte, one direction of a connection |
| `PacketQueue` | the abstract specification of that: the queue of whole packets that `Connection` has |
| `PacketStreamProofs` | proofs: what is read is what was written; `PacketStream` implements `PacketQueue` |
| `CardEmulator` | the abstract specification of an emulator, as the client expects it |
| `Season` | the serial card emulator, the client's loop around it, and the box |
| `SeasonProofs` | proofs: the safety of `Season`, and that it implements `CardEmulator` |
| `DummyCardEmulator` | the emulator without a box, with the client's loop around it |
| `CardReader` | the abstract specification of a card reader, as the server expects it |
| `Phoenix` | the serial card reader and the card in it |
| `PhoenixProofs` | proofs: the safety of `Phoenix`, and that it implements `CardReader` |
| `DummyCardReader` | the reader without a card |
| `DummyDevices` | EXTENDS `DummyCardEmulator`, with an instance of `DummyCardReader`: the two programs without hardware |
| `DummyDevicesProofs` | proofs: the emulator implements `CardEmulator`, the reader `CardReader` |
| `CardEmulatorConfig` | the settings of the emulator, and what is created from them |
| `CardEmulatorConfigProofs` | proofs: the emulator is the one that the file asks for; numbers |
| `MCPSCProxyProtocol`, `MCPacketStream`, `MCSeason`, `MCCardEmulatorConfig` | the modules that TLC is run on for these |

### Packets

A packet is its type, the part of its body that decides anything, and whether
all the bytes that its size field announces are there (`whole`).  `parseAuth`
compares credentials, so their body is `"good"` or `"bad"`.  A `CMD_REPLY` names
the command it answers, which no byte of the real packet does: that is how the
properties can tell whose answer a box was given.

`ReadResults` is `PSCProxyProtocol::read`.  It may succeed; fail before the three
bytes of the header are there, which leaves the caller's `PacketData` as it was;
or fail after the header, which leaves the header alone in it.  Both failures
return a negative value, which `checkAuthReply` and `handleEmulatorRequests` do
not look at.  When nothing has arrived and the peer is alive the set of results
is empty, and the action that reads is not enabled: the read blocks.

### Connection

A connection belongs to one run of the client program, so a client that is
started again is another element of `Conn`.  A packet is in a queue once `write`
returned; how much of it arrives is decided by `ReadResults` at the reader.
`clientShut` and `serverShut` say that an end is closed.  When both are (the
network reset the connection, or both closed), a write may throw.  A packet
written to an end that is closed is lost.  `waiting` is the accept queue, bounded
by the backlog that `listen` is given, plus one.

`Faults` names what may happen around the programs in an instance: `"select"`
(interrupted), `"accept"` (fails), `"network"` (resets a connection), `"signal"`
(one that ends the server).  A client may end at any point in all instances
(`Leave`): its user stops it, or a write throws.

### ProxyClient

One action per operation.  `handleEmulatorRequests` blocks in the middle, so it
is two actions per branch: `askReset` or `askCommand` up to the read, and
`replyToReset` or `replyToCommand` after it; `call` says which one is blocked and
`emulatorData` is the local vector it holds.  Which of the two the emulator asks
for, and when, is an input.  A box issues each member of `Cmd` at most once, so
that a command stands for one request of one box; `Zero` is the one-byte command
0, which goes out as a `RESET_REQUEST` and whose reply is parsed as a
`CMD_REPLY`.  `requestATR` has a branch to `CLOSED` that cannot be reached:
`Socket::write` returns at least the packet's size or throws.

`wrote` and `issued` are history: what the emulator was last given, and what the
boxes asked for.

### ProxyServer

The server's loop, where `pc` is one of

- `accept`: `handleNewClients`, one client at a time;
- `tick`: `tickClients`, one `Client::tick` at a time (`read`: blocked in the read
  that follows a failed `select`);
- `reap`: `closeInactiveClients`, one turn of its loop at a time;
- `dead` (an exception, `abort`), and `undefined`.

`clients` is the vector's *storage*.  Inside `closeInactiveClients` the loop runs
to the end the vector had before, while `erase` shortens it, so the model keeps
the slots that are no longer the vector's and `size`, the vector's length.
`Erase` moves the later slots down and leaves the last one as it was, which is
what `std::vector::erase` does with pointers.  `eraseClient` then frees what the
iterator points at now, which is another `Client` unless the closed one was last.
The first use of a freed `Client` (or an `erase` at the vector's end) is
undefined behaviour: `pc` becomes `undefined`, and nothing is claimed from there
on.  The properties therefore cover every execution up to that point.

A `Client::tick` is one atomic action: the clients see nothing of it but the
reply, and the reader belongs to the server's thread alone.  `cardLog` is history: the
commands given to the reader, with the connection they came from.

Every signal that the server handles ends in `abort()`.  SIGINT is meant to call
`ProxyServer::exit`, which lets the loop finish its turn, but `serverGlobalPtr`
(`src/src/server/main.cpp:32`) is never assigned: `main` keeps the server in a local
`auto_ptr`, the handler finds a null pointer and takes the other branch.  So `run` never
returns, `exitRequested` is never set, and neither is in the model.

### ProxyPeers

The clients of `PSCProxy` are those of the repository, which do not write a command
before they are authorized.  A server must not rely on that.  In `ProxyPeers` a peer that
has connected writes any of the requests in any order, as many as it likes and without
waiting for a reply, with the credentials or without; `first` remembers what it began
with.  `CredentialsFirst` says that the card hears only those that began with the
credentials, and `Roster` holds of the vector whoever the peers are.

### RemoteCard

The promise: a box with the credentials asks for a command; the card may carry it
out once, even after the box gave up; the box is given the answer to the command
it waits on, once that was carried out, or an ATR, or it gives up.  The mapping in
`PSCProxyRemoteCard` takes `issued` for what was asked, `cardLog` for the card's
log, the data of the blocked call for what is pending, and the last piece of what
the emulator was handed for what was given.

### Season

`PSCProxy` takes the requests of the emulator as inputs; `Season` is where they come
from, so there the server is the input: the reply that is to be written has any
length.  The box moves the CAR line and sends bytes at any time.  A byte is its
number among all that the box sent, so a property can see a gap, a repetition and an
old byte; a byte that Season wrote comes back as `Echo`, and `rx` is the port's
input buffer, in which both meet.  The box does not send while it is being written
to: both use one wire.

`pc` follows one tick of the client in `IDLE`: `Season::tick` (`tick`),
`resetRequested` or `readDataAvail` (`handle`), `Season::read` byte by byte
(`read`), the wait for the server (`server`), `Season::write` byte by byte
(`write`), and the read at its end (`echo`).  A read may end whenever the buffer is
empty, which is a silence of 350 ms; after `maxBufferLen` bytes; and at any time,
because `poll` returns -1 when a handled signal comes in (`interrupted`).  `pulses`,
`resets`, `sent`, `since` and `quiet` are history.  `quiet` says that no read of an
echo was interrupted yet and no reply was longer than a read.  After either, a part of
the echo stays in the port and is the next command of the box; that is what the code
does, so `NoEcho` and `IsCardEmulator` speak of the time before.  Nothing is claimed of
the bytes that a box sends while the echo is read: the read takes them too.

### CardEmulator, DummyCardEmulator

`CardEmulator` is what the loop of the client relies on: a pulse is taken at most once,
a command is a run of the box's bytes without a gap, no byte is handed over twice, and
the answer is written before the next request is taken.  Bytes may be lost before they
are taken.  Both emulators are shown to implement it.

`DummyCardEmulator` makes its commands up, one every five seconds, and does so as well
while the last one waits for its answer (`prepareReadData` is called by `tick` and by
`write`).  `rand` is a float product which for the largest values of `::rand()` gives
one more than asked for; the model has that value.

### CardReader, DummyCardReader, Phoenix

`CardReader` says that a read gives the whole answer to the command before it, and
nothing else; the ATR is the answer to command 0.  `DummyCardReader` implements it.
`DummyDevices` puts the two devices without hardware into the exchange of a command and
its answer.

`Phoenix` is the reader with the card: `write` flushes the port, writes byte by byte and
leaves the rest to the card, which answers at its own pace.  A byte is the number of the
command it answers and its place in the answer.  `read` ends on silence (`Silence`: the
port is empty; nothing says that the card is done), after `maxBufferLen` bytes, or with
a signal.  What an earlier answer still has to say when a write begins (`late`) is not
stopped by the flush and comes first in the next reply.  `reset` is three steps, the
flush, the line down and the line up again: a byte of an answer to
an earlier run of the server that comes in between the first two (`Straggler`) ends up
in front of the ATR; `late` has it.  `prompt` is history: it says
that the card was done whenever a read ended, and up to the first time it was not,
`Phoenix` is the `CardReader`.  `FreshReply` holds without it.

### PSCProxyProtocol

`Packets` takes a packet as one value, `PSCProxyProtocol` is its bytes, and the module
carries both side by side: `data` and `packet` are the same packet after each
`prepare*`, after a read that gave up on the body, and after a read that took the middle
of a packet for a header.  `SameVerdicts` says that the functions on bytes and those of
`Packets` decide alike: this is what justifies the model of the two programs.

### PacketStream, PacketQueue

`writePiece` is one turn of the loop in `Socket::write`, which gives `::write` the
buffer from its start each time; `cut` remembers the first packet for which that
mattered.  `readPiece`, `headerEnds`, `bodyEnds` and `readFails` are
`PSCProxyProtocol::read`.  Three bytes that are no header announce any size.  Up to
`cut` the stream is the `PacketQueue`, whose `read` is `ReadResults` of `Packets` (the
other half of what `Connection` takes for granted); from there on the code breaks the
framing and nothing is claimed.

### CardEmulatorConfig

A file is a sequence of lines, a line a sequence of `Tokens` (the prefix `card_emulator.`,
`=`, `#`, a blank, a digit, a word).  `getline` is the loop with its `eof`, `parseLine`
cuts the line at the first blank or `#`, splits it at the first `=`, and sets a value;
`refuseLine` is its exceptions.  The properties are stated against a second, plain
reading of a file (`Said`, `Assigns`, `LastOf`, `Sound`).  `setResetDelay` assigns the
member to itself, and the model does so.

## The runs

| run | instance | checks | shows |
|---|---|---|---|
| `sessions` | `MCPSCProxy`: 2 clients, 2 commands, all faults (symmetric) | `TypeOK` `StopAndWait` `InStep` `OwnAnswer` `AtMostOnce` `KeepsPromise` | the request/reply discipline, the agreement of the two state machines, what boxes and card are given; the programs implement `RemoteCard` |
| `vector` | `MCProxyPeers`: 3 peers of any kind, 3 packets, network and signal (symmetric) | `PeersTypeOK` `Roster` `CredentialsFirst` | every open session has exactly one slot whenever the vector is ticked; nobody gets at the card who did not begin with the credentials |
| `service` | `MCPSCProxy`, fair: 2 clients, 1 with credentials, 1 command, all faults | `InStep` `Answered` `Admitted` `Released` | who has no credentials never gets past authorization; a blocked call ends; who connects is served, turned away or gone; the session of who left is freed; except that an interrupted `select` may block the server for ever |
| `delete_closed` | `MCPSCProxy`: 2 clients | `OnlyClosedDeleted`, violated | `delete *it` after `erase(it)` deletes the next client |
| `reply_body` | `MCPSCProxy`: 1 client, 1 command | `ReplyIsPacketBody`, violated | the emulator is handed the command in front of the answer |
| `season` | `MCSeason`: reads of 3 bytes, replies to 4, 6 bytes and 2 pulses of the box | `TypeOK` `ResetOnce` `FreshCommand` `NoEcho` `IsCardEmulator` | a pulse is one reset; a command is a gapless run of bytes sent since the last answer and no echo; `Season` implements `CardEmulator` |
| `dummies` | `DummyDevices`: commands of 2 (3) bytes, 16 seconds, 2 commands at the reader | `IsCardEmulator` `IsCardReader` | the devices without hardware implement what the programs expect |
| `phoenix` | `Phoenix`, fair: reads of 3 bytes, answers to 4, commands to 2, 3 commands | `TypeOK` `FreshReply` `OwnAtr` `ReadEnds` `IsCardReader` | a reply is fresh and gapless at any pace of the card, the ATR is the card's but for a byte between flush and reset, every read ends; `Phoenix` implements `CardReader` |
| `protocol` | `MCPSCProxyProtocol`: bytes of 6 values, strings to 2 bytes, bodies to 32 | `TypeOK` `SameVerdicts` `SameBody` | `Packets` decides as the bytes do; what is put in comes out |
| `stream` | `MCPacketStream`, fair: 2 packets of 3 or 5 bytes | `TypeOK` `Framed` `EndsWithStream` `IsQueue` | packets come out as they were put in; a read ends with the stream; the bytes implement `PacketQueue` |
| `config` | `MCCardEmulatorConfig`, fair: all files of up to 3 lines out of 16 | `TypeOK` `SettingsOfFile` `Ends` | the emulator is the one the file asks for, or an exception |
| `missing_file` | `MCCardEmulatorConfig`, fair: files of 1 line, or none | `MissingFileReported`, violated | a file that cannot be opened is parsed for ever |

**Bounds.** Two clients are enough for one to be served between two requests of
the other and for a reply to go astray; two commands for a reply to be late for
the next one.  Three clients are the least for which `erase` moves a slot over
another and a stale slot holds a third.  Each command is issued once, which bounds
the log and the queues; resets are not bounded.  The backlog is 1, as in the
source.  A client ends and does not come back under the same name, which bounds
the runs; the next run of the program is another element of `Conn`.  No state
constraint is used; `sessions`, where all clients have the credentials, uses the
symmetry of clients and of commands, for safety only; clients without the credentials
are in `service`, and peers of any kind in `vector`.  Three packets of three peers are a
refused one, an authorized one and a command, in every order; they bound the history, not
what the server does with it.

In `Season` and `Phoenix` a read takes 3 bytes instead of 512, and replies and answers
have up to 4, so that a read ends on a full buffer in the middle; six bytes of the box
are enough for a command, one that is given up, and one after it; three commands to the
card for a late answer to come two commands later.  16 seconds are three commands of
`DummyCardEmulator`.  A byte of `protocol` has 6 values, one for each packet type, so that
the 16 bits of the size field are 36 sizes and the longest body that fits has 32
bytes.  An unsigned int of `config` has 262144 values instead of 2^32 (the least power
of two that holds the constants of the source), and one line has the number 262147.  Two
packets of `stream` are one that is cut and the one behind it.

**Deadlock** is checked everywhere.  `Terminating` (`Idle`, `Ended`) lets a system stop
when its programs ended, the server waits for a command, or its behaviour is undefined.

**Fairness.** Weak fairness of the server's steps and of each client's own ticks:
each program is a thread that the operating system schedules and whose loop never
waits for anything but what its step says.  `accept` has strong fairness: it fails now and then, when descriptors run out, and
succeeds in the end when it is tried again and again, once a turn.  Nothing is assumed of
the box, of signals, of the network, of the start of a client, or that a client leaves.
After an interrupted `select` the server is blocked in `::read` on a client, and when that
client says nothing more, it is blocked for good: nobody else is served.  The code does
that, so `Answered`, `Admitted` and `Released` except the behaviours that end this way
(`Stuck`) and no others: when the client goes on, or the connection ends, all who
waited in the meantime must get their turn.

`Phoenix` has weak fairness of the loop of `read` alone, none of the card: `poll` has a
timeout, and the loop a last turn.  `PacketStream` has weak fairness of a read that has
begun, none of the writer; a read is not claimed to end while the writer is alive and
silent.  `CardEmulatorConfig` has weak fairness of the constructor, which waits for
nothing.

**Findings.** `delete_closed` reaches the violation in a few steps: b without
credentials connects first, a second; b is turned away, erased, and a's `Client`
deleted.  a sees the end of the stream in the middle of its session, its slot
dangles, and the next tick uses it.  `reply_body` needs one command:
`parseCmdReply` appends to the vector that still holds the command.  `missing_file`:
the exception that would say "Error while opening" is asked for with `badbit`, but
`open` sets `failbit`.

## The proofs

Every invariant that a run checks is a theorem, and so is every refinement; the
liveness properties are not.

The theorems of `PSCProxyProofs` hold for
every `Conn`, `Good`, `Cmd`, `Backlog` and `Faults` that satisfy the assumptions of
the modules: `Zero` and `None` are no commands and differ, `Backlog` is a natural
number, `Faults` are of the four kinds, `Good` are connections.  Nothing is assumed
finite.

`TypeOK` is inductive with one fact more, that `size` is within the storage.

The safety properties are not inductive.  `StopAndWait` says nothing of a
connection whose client is not there any more, and nothing of the session; that a
reply in the queue leaves an authorized session open is needed to show that the
next request is not refused.  `IInv` therefore holds each connection to

- `CallInv`, `OffInv`: the blocked call goes with the state and the data it holds;
- `QueueInv`: `StopAndWait`, and no more than one request even of who left;
- `SessionInv`: how far authorization has come (`Undecided`, `Decided`, `Granted`)
  against the state of the server's `Client` and the accept queue;
- `CredentialsInv`: without the credentials nothing but a bad `AUTH_REQUEST`;
- `CommandInv`: a command under way was issued and not carried out, a reply under
  way is to a command that was;

and globally to `VectorInv` (slots are sessions), `WaitingInv` (the accept queue has
no duplicates and no sessions), `CardInv` (the log holds issued commands
of clients with the credentials, each once), `OwnAnswer` and `RosterInv`.

The argument: a lemma says which steps leave a connection alone (`ConnFrame`), one
each says that a client may send when nothing is under way (`ConnSend`), take its
reply (`ConnAdvance`), or go (`ConnGone`), and that a session may reply
(`SessionReplies`) or end (`SessionEnds`).  Each action is then one of these for
the connection it touches and `ConnFrame` for all others.  The deletion of the
wrong `Client` falls under `ConnFrame`, because the socket is closed with it: to
its client it looks as if the server had gone.  This is why the safety properties
survive the bug that `delete_closed` shows.

`Invariance` is `Spec => []IInv`; `StopAndWaitHolds`, `InStepHolds`,
`AtMostOnceHolds`, `OwnAnswerHolds` and `RosterHolds` follow from it.

`Implementation` is `Spec => KeepsPromise`.  Under `IInv` most steps are a stutter of
`RemoteCard` (`Unseen`).  `askCommand` is `Ask` (`CredentialsInv`: who is IDLE has the
credentials; `CallInv`: it holds nothing yet), `replyToReset` is `GiveAtr`,
`replyToCommand` is `GiveAnswer` when the reply is taken (`QueueInv` and `CommandInv`:
the reply is to this command, which was carried out) and `GiveUp` when it is not,
a client that ends is `GiveUp`, and `handleClientRequests` is `CarryOut` when it
takes a command (`CommandInv`: issued, and not carried out before).

`SeasonProofs` proves `SeasonTypeCorrect`, `ResetOnceHolds` and `FreshCommandHolds` for
every `maxBufferLen`, `MaxReply` and bounds of the box.  `ResetOnce`
needs a ledger: a pulse is taken, noted in `rstRequested`, or an edge that `tick` has
still to see (`LedgerInv`).  `FreshCommand` needs where the bytes are on their way: in
`rx` the echo comes first, then the latest bytes of the box without a gap, none sent
before the last write began (`RxInv`), and what a read took goes right before them
(`ResultInv`).  `NoEchoHolds` adds `EchoInv`: while it is `quiet`, what is still to be written, what
has come back and what was read of it never exceed `maxBufferLen`, so the read of the
echo cannot end with a part of it left.

`SeasonIsCardEmulator` is proved from the same two invariants.  A quiet
command is then gapless and begins after `since` (`QuietCommand`), which makes the end of
a read `CardEmulator`'s `read` (`ReadRefines`); a reset is one of a pulse not taken yet
(`LedgerInv`, `ResetRefines`); `writeStarts` is `write`, because what is done with was
sent (`DoneIsSent`, `WriteRefines`); the steps of the box are `send` and `pulse`, and all
others are stutters up to the `leave` with which the promise ends (`SeasonRefines`).

`PhoenixProofs` proves `PhoenixTypeCorrect`, `FreshReplyHolds`, `OwnAtrHolds` and
`PhoenixIsCardReader` for every `maxBufferLen`, `MaxCommand`, `MaxAnswer` and `MaxAsked`.
`FreshReply` is not inductive: it does not say where the bytes are that have not been
read.  `FlowInv` does.  While a read runs, what it took, what is in the port and what
the card has still to send are, put together in this order, `late` and the answer; while
a write runs the last two are `late`.  A byte that moves from one to the next does not
change the whole (`MoveByte`), so what was read is always a beginning of it
(`PrefixOfConcat`).  The ATR is the case in which only what came in
between the flush and the reset is late.  `PromptInv` adds that with a
card that is prompt nothing is late and what was read is the whole answer, and so each
step of `Phoenix` is a `write`, a `read` or a `fail` of `CardReader`, or a stutter.

`ProxyServerProofs` has what is true of the server whatever is written to it: the
types of its variables and `ServerInv`, that is `VectorInv`, `WaitingInv` and `RosterInv`.
Each of its steps keeps them (`ServerKeepsInv`), and a step of anybody else does too
(`ConnectKeepsInv`, `OthersKeepInv`).  Both compositions use these lemmas, so `Roster` is
proved for the clients of the repository (`RosterHolds`) and for peers of any kind
(`PeersRosterHolds`).  `RosterInv` says more than `Roster`: until the loop of `closeInactiveClients` has run into
undefined behaviour, nobody is in the vector twice, and who has an open session is in
it, in the middle of that loop as well.  `erase` moves the slots behind the closed one
down by one, and so keeps both; that the loop then skips a slot, or sees the stale end,
is no harm to them, as long as what is erased is closed.  The wrong deletion makes a
slot dangle, and the session in it is not open any more.  `Roster` follows when
the loop is over.

`CredentialsFirstHolds`, for any number of peers and packets, needs one more fact for
each peer (`PeerInv`): while it waits to be accepted, or its session is INIT, nothing of
it was read, so the head of the queue is the first packet that it wrote (`Unread`); a session
that is AUTHORIZED belongs to a peer that began with the credentials.  Who waits has no
session (`WaitingInv`), so nobody is accepted a second time.

`PacketStreamProofs` proves `StreamTypeCorrect`, `FramedHolds` and `StreamIsQueue` for
every set of packets, every length of a body and every size that bytes which are no
header may announce.  `Framed` speaks of what was taken only.  `StreamInv` says what is
still to come (`Unread`: what `data`, `buf` and `wire` hold, put together in this order):
it begins with the packet that is to be taken next, and each first byte of a packet
before `cut` is one of the whole packet, with the next packet right behind it
(`PacketAt`).  This is kept when a piece moves from `wire` to `buf`, because the whole does
not change; when the header is complete, because its size is the packet's; and when the
packet is taken off the front.  A packet that is written in part sets `cut`, and from
there nothing is claimed.  `StreamIsQueue` adds `DataInv`, which says what the caller's
`PacketData` holds when a read fails.

`PSCProxyProtocolProofs` proves `ProtocolTypeCorrect`, `SameVerdictsHolds` and
`SameBodyHolds` for every size of a byte and all credentials and bodies that its
assumption allows.  The size field comes back as it was set (`SizeField`, `PacketBytes`), so a packet
is whole exactly when its length is its size (`PacketInv`).  `AuthInv` relates the verdict
that `Packets` has to the bytes: two credentials agree byte by byte only when the zero
behind the user is at the same place in both (`SameString`, `AgreesAll`), which is why
user and password cannot be joined in another way.

`CardEmulatorConfigProofs` proves `UIntIsDecimal`, `ConfigTypeCorrect` and
`SettingsOfFileHolds` for every set of lines, every length of a line and of a file.  A line
has a shape (`Shape`: how many tokens it says, how many of them are the key) on which the
constructor and the plain reading agree: they see the same assignments (`AssignsIs`) and
refuse the same lines (`RefusedIs`).  `LinesInv` then says that the settings are what the
last of the lines parsed so far says that assigns them (`LastInNext`), and `StreamInv`
that none is left out and the configuration is built at the end only.  What digits
write is their sum by places from the right, what the loop computes goes from
the left and wraps at each turn: what is read so far, times the place, and the
rest of the sum always differ from the result by a multiple of `UIntSize`.  This is
an induction over the digits.  The induction theorems of the library take a predicate as a
parameter; `Least` (every non-empty set of natural numbers has a least element, from
the well-foundedness of `<`) and `Induction`, for a set instead of a predicate, do
without it.

`DummyDevicesProofs` proves `DummyIsCardEmulator` and `DummyIsCardReader` for every length
of a command and any number of them.  The bytes that wait to be read are the last that were made
up, and the command that the client holds is older (`EmulatorInv`): a command that is
replaced unread counts as lost bytes, as `CardEmulator` allows.  The reader's answer waits,
or was read, whole (`ReaderInv`).

Constants called bounds (`MaxPackets`, `MaxLines`, `MaxTime` and the like) are any natural
numbers in the proofs.  Assumed of the tokens of a file is only that those of the defaults are
among them.

Only model-checked: the six liveness properties (`Answered`, `Admitted`, `Released`,
`ReadEnds`, `EndsWithStream`, `Ends`).  The prover has no rule for fairness
and none for `ENABLED`, so what weak fairness of the processes gives stays with TLC.

## Not modelled

Not claimed, because the code does not give it, and left as hazards with a note: a
command that is read whole, a box whose command is not swallowed with the echo, an ATR
and an answer in the order that the box expects after a reset in between, a write that
survives a partial `::write`, a read that ends on a silent peer, a `reset_delay` that has
an effect.

Left out for good: logging, the settings of serial lines and sockets (`tcsetattr` and
the like), `resolve`; `CardReaderConfig` and `test_serial`, which keep no state; the leak
of the closed `Client`; `DummyCardReader::reset`, which nothing calls; a RESET_REQUEST
does not reset the card (the server answers it with the cached ATR), so `Phoenix::reset`
happens once, when the reader is built; `ProxyServer::exit`, which nothing calls; the bytes of commands, answers and ATRs, which no
property tells apart.
