# Verification of the ECE438 machine problems (mp0 - mp4)

This directory holds TLA+ models of the programs in `src/`, TLC configurations
that check them on small instances, and proofs, checked by TLAPS, of what holds
for every size.

## 1. The system

The repository is five independent machine problems.

| part | program(s) | state | what is hard about it |
|---|---|---|---|
| **mp2** reliable transfer | `sender_main.cpp`, `receiver_main.cpp` | sender: `state`, `pkt_q` (loaded), `pkt_q_copy` (in flight), `bytes_count`, `package_id`, two flags, `head_id`, the count of equal acks; receiver: `old_pid`, the map `array`, the output file | two processes over UDP: packets and acks are lost, repeated, reordered; a 40 ms timeout races late acks; undefined behaviour when the window is empty |
| **mp3** routing | `linkstate.cpp`, `distvec.cpp` | cost matrix, routing tables, loop variables | tables computed in place; ties; changes after which everything is recomputed; messages that cross the tables of several nodes |
| **mp4** CSMA | `csma.cpp` | per node `collisions` and `backoff`; the channel | nodes ready in the same slot; counters that must be reset in several branches |
| **mp1** HTTP | `http_server.c`, `http_client.c` | parent, one child per connection, a byte stream to each client, the client's URL and file | TCP keeps no message boundaries; either side may end early; URLs are taken apart by looking for single characters |
| **mp0** file server | `server.c`, `client.c` | the file as the server read it, parent, children, a byte stream to each client | the file may change, also while it is read; one `recv()` for a message of several parts |
| rest of mp0 and mp1, `mp2/src/*.c` | datagram tutorials, empty templates | none | nothing |

How they interact: the mp2 sender sends `pack_struct`s to the receiver and gets
`int` acks back; the two programs share nothing else. `linkstate` and `distvec`
read the same files and promise the same routes, but never meet. The CSMA
simulator is one loop. In mp0 and mp1 a client and a child of the server share a
TCP connection.

What makes each correct:

* mp2: no packet leaves the window before it is written; the window is not
  exceeded; the deques are popped only as far as they go; the file has no gaps;
  who closes leaves no packet out of the file. While the network loses nothing and
  keeps order, also: the transfer ends, and each packet is written once. Over
  losses or reordering the program has neither (see "What the violations show" and
  "What no run shows").
* mp3: the tables hold least costs, with ties broken by the smallest number;
  messages arrive and pay what was announced; all of that after each change.
* mp4: backoffs stay in the range of the present collisions, one node owns the
  channel, slots are counted in whole frames, a packet is dropped at the M-th
  collision of its own.
* mp1: the file served is the one the URL names; the client's file is the file the
  server has; every connection ends on both sides.
* mp0: all clients get one length and the start of one text, whatever happens to the
  file after it was read; and both are those of the file, if nobody writes to it
  while it is read.

The hazards of the code, each at its line and with the properties that would
show it, are listed in `PROJECT.json`.

## 2. The modules

### mp2

| module | models |
|---|---|
| `Packets` | packet identifiers, what both programs share |
| `ReliableSender` | the sending program: one action per call of a handler and outcome |
| `ReliableReceiver` | the receiving program: one action per kind of packet |
| `LossyTransport` | both over the weakest network: sets of everything ever sent |
| `Transport` | both over two queues, with a bounded number of faults |
| `FileTransfer` | the abstract specification: what a transfer promises |

A handler of the sender receives at most once, at its start, and sends before it
returns, so that a call is one step. `ReliablyTransfer` is the program up to the
loop of `sender()`; `NothingLeft` and `SendNew` are `send_new()` with the
`dividepacket()` it may call; `Timeout` is `timeout()`; `WaitEagain`, `DupAck`,
`OldAck`, `HeadAck` and `SkipAck` are the ways through `wait()`; `Finish` is the
FIN. In the receiver, `ReceiveFin`, `ReceiveOther` and `ReceiveHead` are the
three branches of the loop. A packet is its `pack_id`: packet k always holds the
k-th MSS bytes of the file. `bytes_count` is counted in packets.

Undefined behaviour is modelled, not assumed away. `wait()` takes `front()` of
`pkt_q_copy` without asking whether it is empty. Then it reads a slot of the
deque's buffer: what is there is a pointer to a packet sent earlier (they are
never freed), so the model takes any of those (`FrontIds`), or one that kills
the process (`Crash`). `pop_front()` on an empty deque is taken to end the
process.

`LossyTransport` has the network of all messages ever sent: to receive is to
take any of them, any number of times. This is loss, duplication, reordering and
delay without bounds, and timeouts may occur at any moment. `Transport` extends it with
two queues, and a `Fault` loses, duplicates or delays one message of a queue; its
timeouts are either those of an idle network (`WaitEagainStep`) or early ones
(`EarlyTimeout`), which are bounded. Each step of `Transport` is one of
`LossyTransport`; the run `faulty` checks that on a small instance, and
`Transport_proofs` proves it for every number of faults.

`FileTransfer` writes runs of packets, each of which follows a packet already
written. With `Replay` a run may start inside what is written; without, the file
is a stream.

### mp3

`Routing` has what `linkstate.cpp` and `distvec.cpp` share line for line: the
matrix with `init_top` (and its off-by-one), `read_top`, `change_top`, and the
hop-by-hop forwarding of a message (`Send`, `Forward`, `Deliver`). It also has
the reference definition, `Least`: the least cost of a walk, by the number of
its links. The history variable `links` holds the links as the files have them;
the properties speak of it and the programs' actions read `p`.

`LinkState` is Dijkstra's algorithm with one action per turn of the loop over
`k` (`Iterate`: relax every node, choose the next), `NextStart` for the next
start node, and `Backtrace` for the loops that read next hops off the
predecessors. `DistVec` has one action per turn of a node in a round (`Turn`).
The innermost loop of `dv_method` only changes one entry and does not read it
through other entries, so `Updated` gives its outcome in closed form.

Left out: files that name nodes outside the arrays or give links of cost 0 or
from a node to itself, and changes and messages for nodes the topology does not
name. For the last, `operator[]` makes an entry (0, 0) and the program reports
"0 hops"; the repository does not say what it should report.

### mp4

`Csma` is the tick loop of `toy_simulator()`: `CountDown`, `Transmit`, `Collide`,
`Occupied` and `EndFrame` are its five branches, one tick each. The history
variable `attempts` counts the collisions of the packet a node has now.

### mp1

`Http` has the parent (`Start`; `Accept`, where `fork()` may fail and is not
checked), a child per connection (`ReadRequest`, `RefuseRequest`, `FileMissing`,
`FileFound`, `SendChunk`, `EndOfFile`: its ways through `main()`), and the
clients. TCP is a stream per client that `recv()` cuts anywhere (`Segments` of
`ByteStream`), and the child's only `recv()` of the request may bring a part of
it. `Extract` is `input_extract()`: the host is what follows the first `:` by
three characters, up to the next `:` or the first `/`. A URL it cannot take apart
ends the client without a connection, because `strncpy()` is given a negative
length or the host is read from behind the URL. The client takes the header off
its first `recv()` with `strstr()` and `strlen()`: without `\r` the process dies,
a NUL hides the rest of the segment, and a full buffer lets `strlen()` run on, so
that bytes nobody sent may be saved. `clean` is a history variable: whether the
first `recv()` avoided all of that. When a child closes with a part of the request
unread, TCP resets the connection (`Reset`).

### mp0

`FileServer` has the server, which reads its file once as it starts, a child per
connection that sends one message of the length, three newlines and the text
(`SendAll`), and clients that print what one `recv()` brings (`Receive`). `Edit` is
anybody else who writes to the file, at any time.

The server reads in several steps. `TakeLength` is `fseek()` and `ftell()`: it sets
`len`, the length the message announces and the size of the buffer. `ReadSome`
adds to `string` any number of the next bytes of the file as it is by now, and
`Listen` is the end of `fread()`, whose result is not looked at, and what follows up
to `listen()`. If the file is too short by then, the rest of the buffer is memory
nobody initialised: each byte of it is a NUL or not (`Garbage`). The history variable
`seen` has the versions of the file from `TakeLength` to `Listen`; no action reads
it. The text goes to the first NUL of the string only.

## 3. The runs

| run | expects | question |
|---|---|---|
| `lossy` | pass | over any network: is anything forgotten before it is written, popped beyond the end, left out of the file, or closed too early? |
| `ordered` | pass | without loss and reordering: is mp2 a stream that ends, free of undefined behaviour? |
| `faulty` | pass | does `Transport` stay within `LossyTransport`? |
| `lost_ack` | violation | can one lost ack empty the window without the end being seen? |
| `delay` | violation | can one overtaken packet keep the sender from ending? |
| `linkstate` | pass | does Dijkstra's algorithm, as coded, find the routes it promises, are its rows right one after the other, and do messages arrive? |
| `linkstate_last_node` | violation | and with a node numbered MAX_NODE? |
| `distvec` | pass | do the in-place rounds find them, without loops on the way? |
| `http` | pass | is the file served the one the URL names, is what the client saves that file, and does every connection end? |
| `mp0_file` | pass | do all clients get the same length and text, and what are these made of if others write to the file while it is read? |
| `csma` | pass | do backoffs, ownership of the channel and counts stay consistent? |
| `csma_one_slot` | violation | and the count of collisions when a frame is one slot? |

### Bounds

* `lossy`: window 2, batches of 4, a file of 5 packets, requests of 0 to 6. There
  are two batches, a window smaller than a batch, a window with one packet and
  with two popped at once, an empty request and one beyond the file.
* `ordered`: window 3, batches of 4, file of 5, requests of 1 to 5, two
  duplicated messages and two early timeouts: enough for the third equal ack to
  be swallowed.
  Requests are ones the file can fill: an empty one, or one beyond the
  end of the file, leaves the sender in `wait()` with an empty window (`lossy`
  has them, and their safety).
* `faulty`: window 2, batches of 2, file of 3, any two faults and an early
  timeout.
* `linkstate`: nodes 1..4 below MAX_NODE = 5, any set of links at costs 1, 2, 3,
  read in any order and changed any number of times. Four nodes have routes of
  three links, ties between a direct link, two links and three, and unreachable
  nodes. `distvec` has costs 1 and 3, with ties of the same kinds. `INF` only has
  to exceed every route.
* `http`: two clients, one place in the backlog, buffers of 6 bytes for a header
  of 5, and files that are empty, shorter than a buffer, with a NUL, and longer
  than a buffer. One client is started with any of 14 URLs: one for each file, one
  for no file and one without a path; with the right port and a wrong one; with
  another host, a blank or a `:` in the path; and three that lack `http://` or the
  `/` behind the host.
  The other keeps the server busy with the empty file. A client that fails while
  another is served is among the behaviours.
* `mp0_file`: three clients, two places in the backlog, a buffer of 8 bytes for a
  header of 4 (a length is one symbol), files that are empty, short, with a NUL,
  beginning with a newline, and longer than the buffer, and two changes of the file,
  each at any moment: a file that shrinks and grows again while it is read is among
  the behaviours. The clients are alike, so that the run uses their symmetry; it has
  no liveness property.
* `csma`: 2 to 4 nodes, frames of 1 to 3 slots, M of 2 or 3, four lists of
  ranges, 40 ticks. Backoffs depend on the tick, so that 40 ticks bring about
  repeated collisions and drops for every input.

`last_ack_num` is counted up to `DUP_CAP` = 4: only the step to 3 matters.
`paid` is counted up to `INF`.

### Fairness

The programs are processes that keep running. In `Transport`, weak fairness of
`SenderStep` and of `ReceiverStep` says that each goes on while it can:
`recvfrom()` returns when a message is there, and in the sender after 40 ms.
Faults and early timeouts have no fairness. In `LinkState`, weak fairness of the
forwarding steps says that the one process does not stop in the middle of a
message. In `Http`, the parent, each child and each client are processes, each
with weak fairness.

`SavedIsBody` is conditional on a clean first `recv()`, because the client does
not have the property otherwise: the code relies on the header arriving in one
piece and on text files. Nothing in the repository says that it should do more.

### What the violations show

* `lost_ack`: the sender tests for the end only when it gets the ack of the front
  of the window. If that ack is lost, the next one pops the rest in the branch
  the code calls "impossible maybe", and the sender stays in `wait()` with an
  empty window.
* `delay`: `old_pid` moves by one packet although a whole run was written and
  acknowledged. If three packets arrive as 2, 1, 3, packets 1 and 2 are written and
  acknowledged, but `old_pid` stays 1. Packet 3, behind the run, is then never the
  one the receiver waits for: it is stored and not written, and each time it is
  resent the answer is ack 1, below the sender's window.
* `linkstate_last_node`: `init_top` stops before MAX_NODE; the last node keeps
  free links to all others.
* `csma_one_slot`: with L = 1 the end of a frame does not reset `collisions`.

### What no run shows

Some of what the models contain is wrong by any reader's measure, but breaks
nothing the passing runs check: their properties promise no more than the code has.

* mp2 may write a packet twice and both programs still close, although
  `src/README.md:3` calls it "a TCP protocol". The receiver stores a packet that
  comes early and writes it with the run before it, but `old_pid` moves to the
  run's first packet only (`receiver_main.cpp:113`); when the early packet comes
  again it is `old_pid + 1` and is written again (line 136). Two losses are enough.
  With packets 1 and 2, and the first 1 lost, 2 is stored and the resent 1 writes
  both. The ack 2 is lost, 1 and then 2 are resent, and the second 2 is written
  again: the file is 1, 2, 2, and its ack 2 lets the sender close. One duplicate
  and one delay do it too, by the order 2, 1, 2, 3. TLC finds both against
  `ImplementsStream` with `Faults = {"lose"}`, or `{"duplicate", "delay"}`, and
  `MAX_FAULTS = 2` in `MCTransportDelay.cfg`. `ClosedIsComplete` compares sets of
  packets, and `FileTransfer` with `Replay` permits runs to be written again: what
  these promise is that nothing is missing.
* The last packet the sender can read of a file that is shorter than the request is
  sent with the length asked for, not the length read (`sender_main.cpp:185-190`), so
  that the receiver's file ends in zeros. Packets are identifiers in the model.
* mp0: a write to the file between `ftell()` and the end of `fread()` makes the
  server send the length of one version with bytes of others, or of memory nobody
  initialised. `PrintedWasInTheFile` says exactly how far that goes.
* mp1: a first `recv()` that cuts the header or holds a NUL, a child that closes
  early, and a request that arrives in parts leave a wrong or a short file. `clean`
  and the other conditions of `SavedIsBody` leave them out.
* mp3: `ftable->clear()` empties one element of an array, so that entries of before a
  change may stay. `Change` empties the tables in the model, which relies on every
  entry for a visited node being overwritten before it is read.

## 4. The proofs

Every invariant, action property and refinement that the passing runs check is
also a theorem, for every value of the constants that the module's `ASSUME`
admits. Assumptions beyond that are named below; the instances of the runs satisfy
them. What the runs check for liveness is not proved.

### mp2

`LossyTransport_proofs`, for every window, batch size, file and set of requests,
under `SenderAssumption` only:

* `TypeCorrectness`, `NothingForgotten`, `AcksCumulative`, `WindowKept`,
  `QueuesKeptInOrder`, `FileHasNoGaps`, `PopsStayInRange`,
  `ClosedTransferIsComplete`: the invariants of the run `lossy`;
* `Refinement`: `Spec => ImplementsReplayingTransfer`.

The argument is the inductive invariant `IInv`, the conjunction of

* `SenderInv`, the sender's own: the two deques and `package_id` are one unbroken
  run of identifiers (`QueuesInOrder`), `head_id` is the front of the window
  (`HeadId`), and what the flags say of the queues (`SenderFlags`). It needs of
  the network only that an ack is of a packet that was sent;
* `ReceiverInv`, the receiver's own: what is written was stored and has no gaps,
  and reaches at least `old_pid`;
* `Network` and `StoredWasSent`: what is in the network or was stored was sent,
  and FIN only by a closed sender;
* `AcksAreCumulative`: everything up to an ack, in the network or counted, is
  written. This is what makes it sound to pop on an ack, and it has to be
  invariant although acks go down as well as up;
* `ForgottenIsWritten`.

No part is inductive alone: popping in range needs `HeadId` and that acks are
below `Sent`; that needs what was stored to have been sent. The module begins with
facts about intervals of identifiers, shows that every handler of the sender
preserves `SenderInv` and the same for the branches of the receiver, and then puts
the network around both.

`Transport_proofs` has two parts. The first, for any number of losses, duplicates,
delays and early timeouts: `Transport` implements `LossyTransport`
(`TransportRefinement`), by the invariant that the queues hold only what was sent.
All that is proved of `LossyTransport` therefore holds of the queues, as
`TransportClosesComplete` shows for one of its theorems; `TransportTypes` adds
the queues' own types.

The second is about a network that only duplicates (`OnlyDuplicates`) and requests
the file can fill (`RequestsFit`), with any number of duplicates and of early
timeouts:

* `FrontIsDefined`: no handler reads the undefined `front()` of an empty window;
* `AcksNeverSkip`: the ack `wait()` takes next is never beyond the front of the
  window, the branch the code calls "impossible maybe";
* `StreamRefinement`: `Transport` implements the `FileTransfer` without replays.

The hypotheses are needed: the runs `lost_ack` and `delay` show what one fault of
another kind does, and with an empty request or one beyond the file the sender
waits with an empty window. The invariant is `OrderInv`, on top of `IInv`:

* of the packets in flight, none beyond the one the receiver waits for comes
  before the one it follows, and the next one to come is there if it was sent
  (`InOrder`). Packets may repeat and be resent behind later ones;
* the acks in flight climb from the last one counted to `old_pid` by at most one at
  a time (`Climbs`);
* the receiver has written each packet of 1..`old_pid` once (`ReceiverInOrder`);
* the sender waits only with packets in flight, and what it popped is exactly what
  it counted an ack of (`SenderNeverIdle`).

Duplicates and receipts disturb the two orders only locally: `Twice` and the lemmas
after it are facts about sequences, and each handler then moves one end of a
queue.

### mp3

Both programs rest on `Routing_proofs`. The library's induction theorems cannot be
instantiated by the provers here, but a set of natural numbers that is not empty
has a least element (`MinOfNaturals`, from a theorem on well-founded relations
that speaks of sets), and `Induction` over a given set follows from it by looking
at the least number outside. The same way the reference definition is made usable:
`Walk` is a recursive function, so that its equation says something only if a
function satisfies it. `UpToExists`, `UpToUnique` and `WalkExists` construct one,
and `WalkEquation` is what all later proofs cite. From it come the facts about
graphs: walks attain their cost through a last and a first link, and with as many
links as there are nodes nothing improves any more (`Closing`, `WalkBounded`).

Two hypotheses appear:

* `LastUnused`: no file names node MAX_NODE. The run `linkstate_last_node` shows
  what the matrix holds for that node;
* `RoutesBelowINF`: MAX_NODE links of any cost do not cost more than INF. So the
  programs use INF, which is 99999 there.

`DistVec_proofs`:

* `TypeCorrectness`, without hypotheses;
* under `LastUnused`, `HopsAlwaysDescend`: `HopsDescend`, at every moment of the
  in-place computation. The matrix is what the files say (`MatrixInv`), and the
  invariant of one entry survives the turns of all other nodes because a turn only
  lowers costs. `MessagesNeverLoop`: what a message has left to pay gets strictly
  less at each hop;
* under `LastUnused`, `RoundsAlwaysReach`: after round n every row accounts for
  all walks of n links, and in the middle of a round the rows that had their turn
  already for one link more. Since rows are only lowered, reading a row that is
  ahead does no harm. `ReachInv` adds that no cost is below that of the least walk;
  with `Closing`, `TablesAreLeast` follows after the last round;
* under `LastUnused`, `HopsAreSmallest`: ties are decided for the smallest
  neighbour. `ReachInv` claims it of the rows that had their turn in the last round
  only, in which no cost changes any more (`LastTurn`);
* under both, `MessagesPay`: what a message has paid and has left is what was
  announced when it was sent.

`LinkState_proofs`:

* `DijkstraIsRight`: `Spec => []RowsAreRight`, without hypotheses. A row is
  right when no entry of the matrix improves it (`Settled`) and each of its costs is
  that of its predecessor and one link (`Tight`): the certificate that its costs are
  least. The invariant between two turns is `Between`: the visited nodes are those
  of lowest cost, all but the one visited last were relaxed, and every entry comes
  from a visited node. `Relaxing` and `Choosing` are the two halves of a turn. When
  no further node can be reached, `min_cost` is INF, the old `min_node` is relaxed
  again at that cost and nothing changes (`RelaxingStuck`);
* under `LastUnused`, `VisitedAreSettled`: a visited node has its final cost before
  the loop over k is over. `VisitedAreLeast` is the textbook's argument: a walk to
  a node that is not visited leaves the visited ones by some link, and costs at
  least as much as that far;
* under `LastUnused`, `TypeCorrectness`. It needs the routes, because `Hop` walks back
  along the predecessors: that this recursive function exists (`BackExists`) and
  ends at a neighbour (`HopFacts`) holds since costs get strictly less on the way
  back. `TableInv` says that of the finished table;
* under both, `TablesAreLeast`, `PredecessorsAreSmallest`, `MessagesPay` and
  `MessagesNeverLoop`. Messages go by the tables of all nodes they pass; each was
  computed from its own start. Least costs make them agree (`HopsAccount`).

### mp4

`Csma_proofs`: `TypeCorrectness`, `BackoffsInRange`, `OneTransmitter`,
`WholeFrames` and `PacketsDroppedInTime`, all invariants of the run `csma`, for
any number of nodes, length of frames, limit of collisions, list of ranges and
number of ticks. Counting whole frames is arithmetic modulo L (`Division`,
`Remainder`, `NextRemainder`).

### mp1

`Http_proofs`, for any number of clients, all URLs, files, sizes of buffers and
backlogs, without hypotheses: `TypeCorrectness`, `UrlsNameFiles` (what the child
opens is what the URL names, for paths without a blank) and `FilesAreSaved` (who
saw the header arrive cleanly saves a beginning of the file, and all of it when it
ends and its path had arrived whole). The invariant is
`HttpInv`:

* nobody waits in the backlog twice, or while it has a child (`BacklogInv`), so
  that `Accept` begins with a fresh child;
* what a child has got is the beginning of the request (`RequestInv`): a path
  without a blank is then found whole or not at all;
* before it answers nothing is on its way (`QuietInv`);
* up to the client's first `recv()`, what is on its way and what is left to read of
  the file are together the header and the file; after a clean one, what is saved,
  on its way and unread are together the file (`AnswerInv`). The cuts of
  `recv()` and of the child's buffer move the borders between the three only.

The lemmas before it say where a first `:`, `/` or `\r` of a sequence is, and
what `Extract` and `strstr()` make of it.

### mp0

`FileServer_proofs`, for any number of clients, all files and any number of changes
to them at any time:

* `TypeCorrectness`;
* `OneFileForAll`: all clients are told one length and print a beginning of one
  string;
* `OnlyWhatWasRead`: that length, and each byte that is printed, are those of versions
  in `seen`, or from uninitialised memory where such a version is too short; if
  `seen` has one version only, they are this version's.

The invariant `FileServerInv` has two halves. `ReadInv` is about the server: the
file as it is by now is in `seen` while it is read, the length is that of a version in
`seen`, and each byte of the string was at its place in one of them, or is
uninitialised and one of them ends before. It holds through `Edit` because `seen`
only grows, and through `Listen` because what was not read lies behind the end of the
file as it is. `ClientInv` says that a stream has the whole message or nothing, and
that what a client printed is the beginning of the blank line and the string, or
undefined. The length is an operator the module is given (`Digits`), of which it
assumes only that it is neither empty nor a newline.

### Only model-checked

* Liveness: `Termination`, `MessagesArrive`, `EveryConnectionEnds`. This prover
  does not do `ENABLED`, on which fairness rests. Of the first two, what makes them
  true is proved: `OrderInv` says that there is always a packet or an ack to go on
  with, and `MessagesNeverLoop` is the descent that ends a message's way.
* The violations, which are counterexamples.

## 5. Order of the work, and what could follow

mp2 came first, being the only concurrent program with failures of its own
making; then routing, whose results others rely on; mp4; mp1 and mp0 last. The
proofs followed in the same order.

Next would be: a measure for `Termination` whose descent is an action property, as
there is one for messages; what holds of mp2 with losses of packets only; and the
exact range of `RoutesBelowINF`, since walks without a circle have fewer than
MAX_NODE links.

## 6. Not modelled

* The commented-out congestion control of `sender_main.cpp` (282-388, 473-597):
  it is not compiled. The window is the constant 15.
* Failures of system calls, which end the program or are only printed, except
  where a program goes on after one: `fork()` in mp0 and mp1.
* In mp0, a file that cannot be sought in, such as a pipe: `ftell()` gives -1 and the
  server reads into a buffer of no bytes.
* Arguments and paths longer than the buffers of mp1, and the wording of the
  request's headers.
* Contents of packets, texts of messages, parsing and formatting of files.
* The loss of FIN: it is sent once, so that over a lossy network the receiver may
  never close. No property of the sender depends on it.
* `talker.c` and `listener.c` of mp0, which send and print one datagram; `server.c`
  and `client.c` of mp1, which send and print one fixed line; the C templates in
  mp2, which are empty.
