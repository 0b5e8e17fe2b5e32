# FtpOverUdp in TLA+

FtpOverUdp is a file-transfer service over UDP: clients get, list, upload and
rename files on a server. TCP's work is done by the program itself, by a
selective-repeat protocol with a window of 3 and 7 sequence numbers, and the
network is made unreliable on purpose by a router process that drops and delays
packets. This directory holds TLA+ models of it, the TLC runs that check them,
and proofs, checked by TLAPS, about its protocols, its router and its server.

Paths below are relative to `src/FtpOverUdp/`.

## The system

    FtpClient  <->  client multiplexer  <->  Router  <->  FtpServer
    (any number)    5002 | 5001              7001 | 7000    5000
                                                            |- main thread
                                                            |- ServerThread per session

| Component | State it keeps | Operations |
|---|---|---|
| `Common/Sender` | window origin, per slot a pointer to a flag and to a thread | `initializePayload`, `send`, `processAck`, `terminateCurrentTransmission` |
| `Common/SenderThread` | the message it repeats, a pointer to its flag | `run`: test the flag, `sendto`, sleep |
| `Common/Receiver` | window origin, slots, queue of packets in order, bytes counted | `startNewPayload`, `handleMsg`, `getPayload` |
| `Common/AsyncLock` | one flag, two condition variables | `waitForConsumption`/`Signalling`, `finalizeConsumption`/`Signalling` |
| `UdpServer/FtpServer` | client -> id, client -> past id, id -> mailbox, lock, active flag | `getMessage`, `getServerId`, `createServerThread`, `dispatchMessage` |
| `UdpServer/ServerThread` | `currentState`, sequence number, file name, a Sender and a Receiver | `run`: one branch per state and message type |
| `UdpClient/FtpClient` | server id, sync count, sequence number, a Sender and a Receiver | `showMenu`: `syncServer`, then one of `performGet`, `performList`, `performUpload`, `performRename` |
| `Router/Router` | one buffer for a delayed packet, a cycle counter | `Run`: take, delay, drop, forward, time out |
| `UdpClientMuxer` | client id -> address | two listener threads that forward datagrams |

How they interact. Client and server threads exchange datagrams only. Inside the
server, the main thread hands messages to server threads through a mailbox
guarded by an `AsyncLock`; server threads share one directory, around which
another `AsyncLock`, `ioLock`, is meant to be a mutex. A Sender shares with each
of its retransmission threads one flag on the heap.

What is hard. Every message may be lost, overtaken, or repeated by a
retransmission thread; sequence numbers come round after seven packets;
retransmission threads test a flag and send without a lock, so that a copy may leave
long after its ACK; the server's main thread
retires a thread that may be anywhere in its loop; `AsyncLock` notifies without
the mutex of the waiting side; a test for a file and its renaming are two steps.
`PROJECT.json` lists each hazard at its line.

What makes each part correct:

- transfer: the payload arrives once, intact, and success is reported only then;
  both ends agree on the next sequence number; every retransmission thread ends;
- operations: from its request on, an upload, download or listing comes to an end;
- router and multiplexer: nothing duplicated, bounded reordering, what is delayed
  is released once traffic falls silent, nothing reaches another client;
- mailboxes: each message handled once and in order, no torn reads;
- server threads: serve until replaced, and only then end;
- sessions: client and server agree on the thread, old messages start nothing;
- rename: only what the user asked for, success only if true;
- server's directory: an upload that was stored is not overwritten by another.

## Modules

| Module | Models | Used by |
|---|---|---|
| `Common` | constants, division into packets, sequence numbers | `Sender`, `Receiver` |
| `Sender` | `Common/Sender.cpp`, SenderThread included | both transfers |
| `Receiver` | `Common/Receiver.cpp` | both transfers |
| `FileTransfer` | abstract: what a transfer promises | refined by `SelectiveRepeat`, `Transfers` |
| `SelectiveRepeat` | Sender + Receiver over any network UDP allows | `MCSelectiveRepeat` |
| `DelayChannel` | abstract: one direction of the emulated network | refined by `Router`, `Network`; used by `RoutedTransfer` |
| `RoutedTransfer` | Sender + Receiver, each direction a DelayChannel | `Operation`, `MCRoutedTransfer` |
| `Operation` | what an upload and a download share | `Upload`, `Download` |
| `Upload` | `FtpClient::performUpload` against `ServerThread::getFile`, RECEIVING | `Transfers` |
| `Download` | `performGet`, `performList` against `sendFile`, `sendList`, SENDING | `Transfers` |
| `Transfers` | one operation, whichever the user chose | |
| `Router` | `Router/Router.cpp` | `Network` |
| `Network` | `UdpClientMuxer` composed with `Router` | |
| `AsyncLock` | `Common/AsyncLock.cpp` | `FtpServer`, `ServerFiles` |
| `ServerIds` | the id tables of `FtpServer::getServerId` | `FtpServer`, `Session` |
| `FtpServer` | main thread, mailboxes, loop of `ServerThread::run` | `MCFtpServer` |
| `ServerFiles` | the file operations of `ServerThread` around `ioLock` | |
| `Session` | `FtpClient::syncServer` against the server | |
| `Rename` | `FtpClient::performRename` against `ServerThread` | |
| `*_proofs` | theorems about `SelectiveRepeat`, `RoutedTransfer`, `Transfers`, `Router`, `Network`, `FtpServer`, `Session`, `Rename` | |

Definitions named as mutants in their comments (`NotPassed`, `IsNew`, ...) are
not part of any specification: they are the errors each property was tried
against, by putting them in place of the definition they follow.

### Transfer: `Common`, `Sender`, `Receiver`

A packet is its position in the payload; the EOF message is position
`numberOfPackets`. Bytes are not modelled, so wrong bytes are a wrong position.
`windowState[s]` and `currentWindow[s]`, pointers in the code, hold the packet
whose flag or thread they point to. A SenderThread goes from `running` to `committed`
when it finds its flag false and back when its `sendto` returns, two steps with a gap
between them (`Sender.cpp:142-143`) in which ACKs are processed and the window moves
on; a packet for which a second thread is started while it has one would be `twice`.
`processAck` is one action with the sliding, `finalizePayload` and
`normalizeCurrentWindow` inside it; its loop is the operator `IsNextOrigin`. The three
outcomes of `handleMsg` for data and the two for an EOF are actions of the composing
modules, each with the ACK it sends.

`SelectiveRepeat` puts both on the least reliable network: a set of everything
ever sent. A `sendto` may fail there, which ends its thread. `RoutedTransfer` puts them
on two `DelayChannel`s, where the order of delivery is what makes reuse of sequence
numbers possible, and where the gap matters: a thread that is scheduled away in it
sends a copy of a packet that is acknowledged already, and for a payload of several
rounds that copy, or its ACK, has the number of another packet. The code sets no limit
to the gap. `Spec` has none either, and `RoutedOutOfOrder` shows the consequence.
`Prompt` is the limit that the other properties need: while a thread is between test
and `sendto`, the window moves at most `Slack` packets past its packet, where `Slack`
is the sequence numbers there are beyond two windows and one more for each direction
that delays. `PromptSpec` is `Spec` without the steps that break it. For the code's
constants `Slack` is 1 over a router that only drops and -1, too little for anything,
over one that delays.

### Operations: `Operation`, `Upload`, `Download`, `Transfers`

These put the data phase of `RoutedTransfer` between the request and the return of
the client's function. `phase` is where that function is, `serverState` is
`ServerThread::currentState`. The request (POST, GET_FILE, GET_LIST) is repeated by
a thread of its own (`requestThread`) until its flag is raised, with the same gap
between test and `sendto`: `CommitRequest`, then `RepeatPost` or `RepeatGet`, or
`ExitRequest`. It travels on the channel of the side that sends it, behind or ahead of
that side's data or ACKs. `OperationPrompt` is `Prompt`, and that no request is sent
after its answer was received; without it a GET may restart a transfer that is over.

- An upload ends its request with the first ACK that has the POST's number. The
  payload is numbered from the same number, so a second ACK of the POST goes to
  the Sender as the ACK of packet 0. While `ZeroHeld` holds, the receiver has packet
  0 by then, or no such ACK came. The server acknowledges a POST in RECEIVING
  too (its test `sequenceNumber == sequenceNumber` is always true).
- A download has no such ACK: the first data packet ends the request. The client
  then acknowledges EOFs until its socket is silent for two timer delays
  (`TimeOut`, possible whenever nothing is about to arrive). A file that is not
  there is answered with NSF under the number after the request's, which the client
  tests. A listing is a payload like any other, never empty.
- The server thread may be left in SENDING when the client has returned. The
  HANDSHAKE of the client's next operation retires it (`Retire`), with
  `terminateCurrentTransmission` visiting as many slots as the window has.

### Network: `DelayChannel`, `Router`, `Network`

Host 1 is the server and host 2 the multiplexer, as the port numbers in
`Router.h` say. `Take`, then one of `Delay`, `Drop`, `Forward`, is one iteration
of `Router::Run`; `Idle` is a timeout. A failed `sendto` loses the packet.

`Network` adds the multiplexer: `ClientListener`, which draws an id that is not in
the map, enters it (two steps, `RequestId` and `AssignId`) and forwards messages of
clients, and `RouterListener`, which looks addresses up without the lock. A lookup
during an insertion may miss the entry: the empty address that `operator[]` then
makes lets `sendto` fail, and the process exits. The client's side of the
multiplexer handshake asks once; its request or its answer may be lost. What one
client can see of a direction (`Of`) is picked out by a recursive function, `Chosen`,
and not by `SelectSeq`, which has no definition the provers know.

### Server: `AsyncLock`, `ServerIds`, `FtpServer`, `ServerFiles`

Waiting is three steps: test the flag (`Test`), sleep, be woken. Finalizing is
two: set the flag, notify. The main thread's program counter walks through
`getServerId`, `createServerThread` and `dispatchMessage` (`retire` is the
dispatch at `FtpServer.cpp:131`, `notifyErase` the second half of the
`finalizeSignalling` after it); each server thread's through its loop. What a
thread does with a message is reduced to INITIALIZING, STARTING_HANDSHAKE and
READY. `areServerIdsReused` is chosen in `Init`, as the operator chooses it.
Clients may send a HANDSHAKE or any other message with any id that has answered.

`ServerFiles` has the same lock in its other use, as `ioLock` around the five file
operations: wait for the flag to be false, work, set it to true and to false.
The flag is false while a thread works, so the lock keeps nobody out. File names are
the numbers of underscores `saveFile` appended to one name.

### Sessions: `Session`, `Rename`

`Session` treats dispatching as one step (that is what `FtpServer` justifies
without reuse of ids) and has a set of messages as network. `DATA` stands for the
packets and ACKs of a client's Sender and Receiver, which keep NULL_SERVER_ID
(`FtpClient.cpp:551`) and so reach whatever thread the client has by then.

Before it sends its HANDSHAKE, `syncServer` reads and drops messages until its socket
is silent (phase `draining`, ended by `Drained`). A server thread that repeats an
unacknowledged packet every 300 ms may keep it there for ever, so `Drained` has no
fairness and `SyncCompletes` begins after it.

A new thread echoes the buffer of the first message it handles, whatever it is, and
`syncServer` reads the first bytes of the reply as a count (`FtpClient.cpp:426`).
The bytes of a packet of an earlier operation may read as any count, one still to come
included: a late packet of one operation is the first message of a new thread, and the
reply is delayed until the count it seems to carry is reached, when that thread has been
replaced. Nothing in the code prevents it. `misled` records that a client accepted such
an echo, and the properties speak of the client as long as it has not; without that
exception `SyncedWithCurrent` is violated in the instance with four operations and four ids
(a trace of some twenty steps). The run has three, which are too few to see it.

`Rename` starts after the handshake; files are a function from names to contents,
and `rename()` is a step apart from the test for the new name because `ioLock`
does not exclude other threads.

## Runs

| Run | Checks | Bounds | States |
|---|---|---|---|
| `SelectiveRepeat` | safety, the proofs' invariant, refinement of `FileTransfer` | window 3, range 7, 4 packets (last one short), seed 5 | 13 thousand |
| `Network` | order, no duplicates, owners of ids, refinement of two `DelayChannel`s and of two for each client, release | 3 packets per host, 2 clients, 2 ids | 556 thousand |
| `Transfers` | whole operations: refinement of `FileTransfer`, liveness | window 1, range 3, 4 packets, 1 in flight, no delays, prompt threads | 25 thousand |
| `RoutedDelay` | safety over a network that also delays | window 2, range 6, 7 packets, 3 messages on the network, prompt threads | 939 thousand |
| `RoutedOutOfOrder` | the count of bytes, threads as late as they like | window 2, range 5, 6 packets, no delays | **violated** |
| `ServerFiles` | stored uploads are kept | 2 threads, 3 names | **violated** |
| `FtpServer` | mailboxes, life of threads | 2 clients, 3 ids, 3 threads, 4 messages | 643 thousand |
| `FtpServerReusedId` | the same promise with ids reused | 1 client, 2 ids, 3 threads, 5 messages | **violated** |
| `FtpServerForever` | the main thread always comes back | 1 client, 2 threads, 2 messages | **violated** |
| `Session` | agreement on the thread, termination of `syncServer` | 1 client, 3 operations | 125 thousand |
| `Rename` | only what was asked for | 2 clients, 3 names, 3 names entered | 353 thousand |
| `RenameLostAck` | the success message | 1 client | **violated** |

Why the bounds are enough.

- `SelectiveRepeat` has the code's window and range. Four packets are the longest
  payload within one round (`LongestSingleRound` in `MCSelectiveRepeat` says so),
  longer than the window, and with seed 5 the numbers wrap inside it. `BUFFER_LENGTH`
  is 2 so that the last packet can be short. The proofs remove these bounds.
- `RoutedDelay` and `Transfers` use smaller windows to allow payloads that go round
  the sequence numbers (7 packets and an EOF over 6 numbers, 4 and an EOF over 3).
- `RoutedDelay`: each direction holds up to three messages, one of them overtaken;
  `FewOnNetwork` allows three on both together. Two are enough to tell 6 numbers from
  5: with 5, `AckedIsHeld` fails after about twenty steps, because a data packet and
  then its ACK are each overtaken. The same failure occurs with the code's own window
  3 and range 7, a payload of 8 packets, and threads that are never overtaken at all;
  without delays, prompt threads need no more than 4.
- `Transfers`: one message at a time in each direction keeps the liveness properties
  within reach. It is enough for the second ACK of a POST to stop packet 0. The
  refinement also holds with window 2, range 5 and 6 packets (268 thousand states); the
  invariant `TransfersInv` was checked with more messages and with delays, as said below.
- `RoutedOutOfOrder`: 6 packets and an EOF over 5 numbers are the shortest payload in
  which two data packets share a number.
- `Network`: three packets per host, one to be delayed, one to overtake it and one
  more that must not; two clients, so that every packet may be another's.
- `ServerFiles`: two threads and one name to collide on are the smallest instance,
  and a larger one has the same trace.
- `FtpServer`: two clients, one of which can have its thread replaced while the
  other's is in use; four messages are a first contact, a retransmission, and a
  replacement with a message for the new thread. The proofs remove these bounds.
- `Session`: three operations, so that messages two generations old exist.
- `Rename`: three names entered allow a refused name and a second attempt.

## What the violations show

1. `RoutedOutOfOrder`: the thread of packet 0 finds its flag false and is scheduled
   away before its `sendto`, while the ACK of an earlier copy and those of the next
   packets move the window on. The copy it sends then has the number of packet 5,
   which the receiver's window has reached: it is registered and counted as packet 5
   (`Common/Receiver.cpp:64`, "It doesn't matter if it's out of order."), the bytes
   counted exceed those of the payload, and no EOF will have their number. Delays are
   not needed for this, only a thread that is late by one round trip of its window.
2. `ServerFiles`: two threads find one name free (`UdpServer/ServerThread.cpp:301`)
   and both write to it, although they "share an I/O mutex"
   (`UdpServer/ServerThread.h:61`).
3. `FtpServerReusedId`: with ids reused, `isThreadActive` still says false for the
   id, and the new thread ends at once (`UdpServer/FtpServer.cpp:162`).
4. `FtpServerForever`: a lost wake-up in `AsyncLock` (lines 12-15 and 23-26) stops
   the server; the shortest trace is during the first handshake.
5. `RenameLostAck`: lost ACK, refused repetition, other name, success reported for a
   `rename()` that failed (`UdpServer/ServerThread.cpp:82` and `:265`).

What no line of the repository promises, and the code does not keep, is left out of the
properties or named in them:

- threads that send late (`Prompt`, `OperationPrompt`, as above);
- an upload whose POST is answered twice, whose second ACK stops the thread of a packet
  0 that has not arrived (`ZeroHeld` in `OperationReturns`);
- an empty file (`payloadSize > 0`), and retransmission threads that a retired server
  thread leaves behind (`serverState # "retired"` in `SenderThreadsEnd`);
- a client that took other traffic for the answer to its HANDSHAKE (`misled`), and the
  end of the drain loop;
- a packet that the router delays under steady traffic. `Router.cpp:245-256` tests the
  counter only when `select` times out, so packets that keep coming, from either side,
  keep the delayed one for ever; `DelayedIsReleased` supposes that they stop
  (`<>[]Silent`).

## Fairness

- `Network`: the router's loop runs for ever, so `WF(Route)`; nobody need send. That does
  not make `select` time out while packets keep coming, hence `Silent` above.
- `Transfers`: threads are scheduled, each step of theirs (`CommitRequest`, `CommitThread`
  or `ExitThread`), sockets read and silences noticed (weak fairness). A message sent
  again and again gets through sometimes: strong fairness of the sending steps that
  pass, for the request, its answer, each sequence number of the data and of the ACKs.
  That is what dropping at random with a rate below 100 % gives. The user's next
  operation is not fair: a thread need not be retired. The behaviours are those of
  `PromptTransfers`, in which threads are scheduled in time: an assumption about the
  machine, not a consequence of the code.
- `FtpServer`: each thread is scheduled. Spurious wake-ups are possible, not
  promised.
- `Session`: a HANDSHAKE that is repeated until answered reaches the server again
  and again (strong), and a reply on the network is read (weak). Nothing makes the
  drain loop end.

## Proofs

Eight modules hold proofs. All theorems are for every value of the constants; the
assumptions are the named ASSUMEs of the modules, which TLC evaluates in the runs.

`SelectiveRepeat_proofs` (`CommonAssumption`):

- `TypeCorrect`: `Spec => []TypeOK`;
- under `SingleRound` (numberOfPackets + WINDOW_SIZE <= SEQUENCE_RANGE):
  `Inductive` (`[]IInv`), and from it `AckedIsHeldTheorem`,
  `SentIsDeliveredTheorem`, `DeliveredIntactTheorem`, `NoOrphanThreadTheorem`,
  `WindowsOverlapTheorem`, `FinalSequenceAgreesTheorem`, `StartedOnceTheorem`,
  `EofAcceptableTheorem`, and `Refinement`: `Spec => Promise!Spec`.

The argument. The properties are not inductive: that an acknowledged packet is
held depends on which ACKs are on the network, those on what was received, and
what an ACK stops on where the window arrays point. `IInv` says all of it:
`SenderInv` (the arrays point to exactly the launched packets not yet slid over),
`ReceiverInv` (a prefix of the payload, then a gap, then later packets each in its
own slot) and `NetworkInv` (sent was launched, held was sent, acknowledged is
held). Under `SingleRound` two packets that a window can reach never share a slot
(the first lemmas), which makes a slot as good as a packet. Then one lemma for each
conjunct and action. `EofAcceptable` needs an invariant of its own, `CountInv`,
that relates the bytes counted to the set of packets held; the sum over a set of
packets is written without recursion, as all packets but the last have one length.

`SingleRound` is necessary on this network: with one packet more, TLC finds a copy of
packet 0 that is counted as a packet of the next round (`EofAcceptable` fails for 5
packets, window 3, range 7).
Longer payloads are right only over a network that keeps order, which is what the
next module is about.

`RoutedTransfer_proofs` (`CommonAssumption`, `RoutedAssumption`), for payloads of any
number of rounds:

- `RoutedTypeCorrect`: `Spec => []TypeOK`;
- `PromptThroughout`: `PromptSpec => Spec /\ []Prompt`;
- under `RangeSuffices` (`Slack >= 0`: 2 WINDOW_SIZE <= SEQUENCE_RANGE, and two numbers
  more where the router delays): `RoutedInductive` (`Spec /\ []Prompt => []RoutedInv`),
  and from it `RoutedAckedIsHeld`, `RoutedDeliveredPrefix`, `RoutedEofAcceptable`,
  `RoutedFinalSequenceAgrees`, `RoutedNoOrphanThread` and `RoutedRefinement`, the
  refinement of `FileTransfer`.

The argument. `SenderInv`, `ReceiverInv` and `NetworkInv` are those of
`SelectiveRepeat` in substance, but a slot now stands for every packet of its
number, so each use of a number needs a bound on how late a message can be. What the
network has delivered, or will deliver before a message, can be too far ahead of it
only by what has overtaken it: nothing when it is sent (the sender's window has not
moved that far, which is `Prompt`: `Never`), at most one packet on a direction with
delays (`Once`), at most two on the way there and back (`Twice`). `InOrder` states that of a direction,
`DataOrder` and `AckOrder` of the two; a direction keeps it whether a message is lost,
held, passed or released (`SendInOrder`, `ReleaseInOrder`, `ArriveInOrder`, which know
nothing of the protocol). Hence the receiver's window is at most one window,
one packet and `Slack` past a packet that arrives, and the sender's at most one packet
more past an ACK's, and `RangeSuffices` is what makes the number unambiguous there
(`WindowTest`, `AckedSlot`). The ACKs on the network carry numbers only, so `AckOrder`
says that there are packets, all held, with those numbers in that order. TLC has checked
`RoutedInv` with window 2, range 6, 8 packets and delays; the run `RoutedDelay` does not
list it, because it doubles its time.

With delays the code's window of 3 and range of 7 do not satisfy `RangeSuffices` (8
would do). Without delays they do, with a `Slack` of 1. That `Prompt` is needed
`RoutedOutOfOrder` shows.

`Transfers_proofs` (the same assumptions), for the operations with their requests:

- `TransfersTypeCorrect`: `TransfersSpec => []OperationTypeOK`, whatever happens;
- `PromptOperations`: `PromptTransfers => TransfersSpec /\ []OperationPrompt`;
- under `RangeSuffices` and `payloadSize > 0`: `TransfersInductive`
  (`TransfersSpec /\ []OperationPrompt /\ []ZeroHeld => []TransfersInv`) and
  `TransfersRefinement` (the same hypotheses, `ImplementsFileTransfer`);
- under `RangeSuffices`: `DownloadInductive` and `DownloadRefinement`, the same of
  downloads and listings without `ZeroHeld` and for empty files too, since a thread
  that sends answers no second request.

The argument. `TransfersInv` says what `RoutedInv` says from the step that gives the
Sender its payload (`Live`), and before it (`Idle`) that nothing but requests, refusals
and at most one answer to a POST is on the network. What links the two is the order
again. A request stays on the network after it was answered, and a server thread
returns to WAITING_FOR_REQUEST when the payload is complete: were an old request to
arrive then, it would be taken for a new one and start another transfer. It cannot: a
request is sent only until packet 0, or the ACK of the POST, has come back (that is
`OperationPrompt`), so that it was sent before both packet 0 and the EOF passed its
direction (`Late`), and at most one packet can overtake it; a thread whose transfer is
complete has both (`NoLateRequest`). The refusal of a missing file needs no more than
that its messages are never taken for packets. `TransfersInv` was checked with TLC
first, where `ZeroHeld` holds, on five configurations with two messages on the network
(with and without delays, windows 1 and 2, a payload of one packet).

`ZeroHeld` is a hypothesis and not a lemma because the code lets it become false: the
second ACK of the POST has the number of packet 0 and stops its retransmission. Where
the receiver has packet 0 by then, as it mostly does, nothing is wrong and the theorems
apply. Of the other uploads only the types are proved; that they, too, deliver nothing
but the payload is checked by `Transfers`.

`Router_proofs` and `Network_proofs`: `NetworkTypeCorrect`, `OvertakenOnceTheorem`,
`OwnersTheorem`; the refinement of `DelayChannel` by each direction, `ToServerTheorem`
and `ToClientTheorem`; and by each client's part of it, `OwnToServerTheorem` and
`OwnToClientTheorem`. `RouterInv`: a socket holds the last packets sent by its host in
order, whatever is delivered or held was taken from there, and what is held is
newer than what was delivered to its host. The lemmas of `Router_proofs` are about
steps; `Network_proofs` shows that every step of the composition is one of them or
leaves the router alone. From all traffic to a client's part of it: `Chosen` picks that
part out of a sequence, and what it does with a concatenation (`ChosenConcat`), and that
it depends only on the elements it is given (`ChosenSame`), is shown by induction over
the sequence. The library states induction of an operator, which the provers cannot
instantiate; here it is derived once, as a statement about sets of numbers and of
sequences, from `<` being well-founded (`NumberInduction`, `SequenceInduction`). A step
of a DelayChannel, seen through `Chosen`, is a step of a DelayChannel or none
(`MovesChosen`), whichever packets are chosen. They are the same before and after each
step because a packet keeps its owner, and the listener that takes a packet finds that
owner: `OwnersInv`, the invariant of the multiplexer's map.

`FtpServer_proofs`: `ServerTypeCorrect`, `MailboxExclusiveTheorem`,
`HandledInOrderTheorem`, `CurrentThreadServesTheorem`, `UniqueIdsServeTheorem`.
`ServerInv` has three parts. For each mailbox (`MailboxInv`): the flag is false only
while its thread is between `finalizeConsumption` and the return of
`waitForConsumption`, and what was dispatched is what was handled and the message
still pending, if any. This does not depend on who sleeps or is woken, so lost and
spurious wake-ups are harmless to safety. For the tables (`TablesInv`): an id leads
to one thread and a client's id to nobody else's. Without reuse (`UniqueInv`): a
thread marked as stopped has handled a message before, unless it is the
one being replaced. The thread being replaced was told to stop, goes through its loop no
more once it was woken, and is out of it when its entries are erased (`RetireInv`).

`Session_proofs`: `SessionTypeCorrect`, `SyncedWithCurrentTheorem`,
`OperatesForItsClientTheorem`, `OneActiveThreadTheorem`, `OneThreadPerSyncTheorem`. `SessionInv` is about what is on the network: only a
HANDSHAKE that names the client's current id replaces its thread, such a HANDSHAKE
is on its way only while the client waits for the replacement, and a reply the
client would accept comes from the current thread, or echoes no HANDSHAKE; of a client
that has been misled the first two say nothing. `OneThreadPerSync` counts,
misled clients included: every thread but the current one was named by the HANDSHAKE
that replaced it, and each synchronisation names one id (`CountInv`).

`Rename_proofs`: `RenameTypeCorrect`, `RenamesAsAskedTheorem`. Only what was asked for is
renamed because the numbers of a client's messages grow and every PUT comes before every
RESP: a RESP whose number follows that of a PUT is about that PUT's file
(`AskedInv`).

Only model-checked: liveness (outside the prover's reach: `DelayedIsReleased`,
`OperationReturns`, `SenderThreadsEnd`, `SyncCompletes`), and `ImplementsFileTransfer`
of uploads in which `ZeroHeld` becomes false.

## Not modelled

- TERMINATE: `FtpClient::terminate` writes through an uninitialised pointer and
  waits for an ACK that no branch of `ServerThread::run` sends.
- Memory that is freed too early: a lock deleted while its thread is in
  `notify_one`, the address a retransmission thread uses after its Sender is gone.
- Real time: how long the router delays, how long a thread is scheduled away, when a
  socket is silent (`Drained` and `TimeOut` may happen or not), starvation of clients
  under load.
- Packets of an operation that arrive in the data phase of a later one. The channels
  of `Transfers` carry one operation; `Session` shows that such packets start
  no operation, unless the client was misled.
- A crash and restart: nothing is persisted, so there is no recovery to check.
- Set-up of sockets, logging and console output. The two multiplexer loggers
  append to one file under different locks, which is not behaviour of the protocol.

## What is left

1. Two operations of one client in a row over one network, `Session` included.
2. A proof about uploads in which `ZeroHeld` becomes false, which so far only TLC covers.
